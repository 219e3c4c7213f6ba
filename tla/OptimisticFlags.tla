-------------------------- MODULE OptimisticFlags --------------------------
(***************************************************************************)
(* What the dual-truth columns promise, as the statements of src/store     *)
(* keep it: every cached message is idle or pending; an idle message shows *)
(* the server's flags, a pending one what the user chose; news from the    *)
(* server leaves a pending message alone, and one whose operation is given *)
(* up shows the last server flags it was told while idle.                  *)
(*                                                                         *)
(* docs/cache.md draws the same two states and says the same of what is    *)
(* shown (lines 66-87, 94, invariant 2).  It differs in base: its line 93  *)
(* has flags_server of a pending row follow every save, so that a reversal *)
(* would go to the newest server flags; the upsert keeps the column        *)
(* (src/store/message_queries.rs:93-95), and so does base here.            *)
(***************************************************************************)
CONSTANTS Emails, FlagSet

VARIABLES phase,    \* [Emails -> {"absent", "idle", "pending"}]
          shown,    \* what the user interface shows
          base      \* the last server flags learned while idle

avars == <<phase, shown, base>>

Cached == {m \in Emails : phase[m] # "absent"}

AInit ==
  /\ phase \in [Emails -> {"absent", "idle"}]
  /\ shown \in [Emails -> FlagSet] /\ base = shown

\* The flags of some of the messages.
News == UNION {[S -> FlagSet] : S \in SUBSET Emails}

\* The message settles on the server flags f.
Settle(m, f) ==
  /\ phase' = [phase EXCEPT ![m] = "idle"]
  /\ shown' = [shown EXCEPT ![m] = f]
  /\ base'  = [base  EXCEPT ![m] = f]

\* News from the server, the flags of some messages: it is heard of those with
\* no operation in flight, and pending messages are left exactly as they are,
\* base included (the CASE of the upsert; docs/cache.md:93 would let base follow).
\* The messages of gone are destroyed first, and with them what was pending.
\* What an absent message shows is nobody's business.
Learn(gone, news) ==
  LET heard == {m \in DOMAIN news : phase[m] # "pending" \/ m \in gone}
      Told(old, blank) == [m \in Emails |-> IF m \in heard THEN news[m]
                                           ELSE IF m \in gone THEN blank ELSE old[m]]
  IN  /\ phase' = [m \in Emails |-> IF m \in heard THEN "idle"
                                    ELSE IF m \in gone THEN "absent" ELSE phase[m]]
      /\ \E f \in FlagSet : shown' = Told(shown, f) /\ base' = Told(base, f)

Toggle(m, f) ==
  /\ m \in Cached
  /\ phase' = [phase EXCEPT ![m] = "pending"]
  /\ shown' = [shown EXCEPT ![m] = f]
  /\ UNCHANGED base

Confirm(m, f) == m \in Cached /\ Settle(m, f)

\* Operations given up: refused by the server, or expired.
GiveUp(S) ==
  /\ S \subseteq Cached
  /\ phase' = [m \in Emails |-> IF m \in S THEN "idle" ELSE phase[m]]
  /\ shown' = [m \in Emails |-> IF m \in S THEN base[m] ELSE shown[m]]
  /\ UNCHANGED base

ANext ==
  \/ \E m \in Emails, f \in FlagSet : Toggle(m, f) \/ Confirm(m, f)
  \/ \E S \in SUBSET Emails : GiveUp(S)
  \/ \E gone \in SUBSET Emails, news \in News : Learn(gone, news)

ASpec == AInit /\ [][ANext]_avars
=============================================================================
