------------------------------ MODULE FlagFlow ------------------------------
(***************************************************************************)
(* A flag change from the user's click to its settlement: the optimistic   *)
(* row (FlagRow), the Email/set request in flight, the server, and the     *)
(* delta sync that fetches the same message meanwhile.  The process may    *)
(* stop at any point; the table survives, requests and the sync do not.    *)
(*                                                                         *)
(* The front end is not in this repository.  It follows docs/cache.md      *)
(* (lines 66-87 and 192): update_flags, then Email/set; on success         *)
(* clear_pending_op with the flags it wanted, on notFound remove_message,  *)
(* on any other error revert_pending_op.                                   *)
(***************************************************************************)
EXTENDS FlagRow, FiniteSets

CONSTANTS
  Emails,
  MaxAge,         \* max_age_secs of expire_pending_ops
  Serial,         \* the front end sends one operation per message at a time
  LostReplies,    \* a request may be applied and still end in an error
  MaxTime,        \* bound on the clock
  MaxToggles,     \* bound on the user's operations
  MaxChanges,     \* bound on the changes other clients make
  MaxCrashes      \* bound on restarts

ASSUME FlowAssumption ==
  /\ MaxAge \in Nat /\ MaxTime \in Nat /\ MaxToggles \in Nat
  /\ MaxChanges \in Nat /\ MaxCrashes \in Nat
  /\ Serial \in BOOLEAN /\ LostReplies \in BOOLEAN

VARIABLES
  rows,      \* the messages table
  cursor,    \* the "Email" row of sync_state
  now,       \* seconds
  server,    \* [Emails -> the message on the server]
  sstate,    \* the server's Email state token
  ops,       \* the operations in flight
  sync,      \* the one sync_emails call in flight
  spent      \* how much of each bound is used up

vars == <<rows, cursor, now, server, sstate, ops, sync, spent>>

Bits == {1, 2}    \* $seen and $flagged in the two-bit encoding

HasBit(f, b) == IF b = 1 THEN IsRead(f) ELSE IsStarred(f)

\* Mutant: the keyword is added or removed without a look at the flags.
WithBitBlind(f, b, on) == IF on THEN f + b ELSE f - b

WithBit(f, b, on) ==
  IF HasBit(f, b) = on THEN f ELSE IF on THEN f + b ELSE f - b

Op == [email : Emails, n : 1..MaxToggles, bit : Bits, on : BOOLEAN, want : Flags,
       sentAt : 0..MaxTime, reply : {"none", "ok", "notFound", "error"}]

IdleSync == [pc |-> "idle", since |-> 0, newState |-> 0, destroyed |-> {},
             wanted |-> {}, got |-> <<>>]

Init ==
  /\ \E f \in [Emails -> Flags] :
       /\ server = [m \in Emails |-> [alive |-> TRUE, flags |-> f[m], at |-> 0]]
       /\ rows   = [m \in Emails |-> Settled(f[m])]
  /\ cursor = 0 /\ sstate = 0 /\ now = 0
  /\ ops = {}
  /\ sync = IdleSync
  /\ spent = [toggles |-> 0, changes |-> 0, crashes |-> 0]

-----------------------------------------------------------------------------
\* The server (external).
SetFlags(m, f) ==
  IF server[m].flags = f THEN UNCHANGED <<server, sstate>>
  ELSE /\ sstate' = sstate + 1
       /\ server' = [server EXCEPT ![m] = [@ EXCEPT !.flags = f, !.at = sstate + 1]]

\* Another client changes or destroys the message.
OtherClient(m) ==
  /\ server[m].alive /\ spent.changes < MaxChanges
  /\ spent' = [spent EXCEPT !.changes = @ + 1]
  /\ \/ \E f \in Flags \ {server[m].flags} : SetFlags(m, f)
     \/ /\ sstate' = sstate + 1
        /\ server' = [server EXCEPT ![m] = [@ EXCEPT !.alive = FALSE, !.at = sstate + 1]]
  /\ UNCHANGED <<rows, cursor, now, ops, sync>>

\* The server answers Email/set (set_flag): the patch touches one keyword.
Answer(op, reply) ==
  /\ op \in ops /\ op.reply = "none"
  /\ ops' = (ops \ {op}) \cup {[op EXCEPT !.reply = reply]}
  /\ UNCHANGED <<rows, cursor, now, sync, spent>>

Applied(op) ==
  /\ server[op.email].alive
  /\ SetFlags(op.email, WithBit(server[op.email].flags, op.bit, op.on))
  /\ \/ Answer(op, "ok")
     \/ LostReplies /\ Answer(op, "error")

Refused(op) ==
  /\ Answer(op, IF server[op.email].alive THEN "error" ELSE "notFound")
  /\ UNCHANGED <<server, sstate>>

-----------------------------------------------------------------------------
\* The front end.
Toggle(m, b) ==
  /\ rows[m] # NULL
  /\ spent.toggles < MaxToggles
  /\ now + MaxAge < MaxTime          \* the clock has room left for the expiry
  /\ Serial => \A op \in ops : op.email # m
  /\ LET shown == Effective(rows[m])
         on    == ~HasBit(shown, b)
         want  == WithBit(shown, b, on)
     IN  /\ rows' = [rows EXCEPT ![m] = UpdateFlags(rows[m], want, now)]
         /\ ops'  = ops \cup {[email |-> m, n |-> spent.toggles + 1, bit |-> b,
                               on |-> on, want |-> want, sentAt |-> now,
                               reply |-> "none"]}
  /\ spent' = [spent EXCEPT !.toggles = @ + 1]
  /\ UNCHANGED <<cursor, now, server, sstate, sync>>

\* The reply reaches the front end.  The UPDATE of a missing row does nothing.
Conclude(op) ==
  /\ op \in ops /\ op.reply # "none"
  /\ ops' = ops \ {op}
  /\ rows' = [rows EXCEPT ![op.email] =
                IF rows[op.email] = NULL \/ op.reply = "notFound" THEN NULL
                ELSE IF op.reply = "ok" THEN ClearPendingOp(op.want)
                ELSE RevertPendingOp(rows[op.email])]
  /\ UNCHANGED <<cursor, now, server, sstate, sync, spent>>

-----------------------------------------------------------------------------
\* sync_emails on a populated mailbox: expire_pending_ops, then get_state.
\* Only this task writes the cursor, so the two commands are one step.
SyncStart ==
  /\ sync.pc = "idle"
  /\ rows' = [m \in Emails |->
                IF rows[m] # NULL /\ IsExpired(rows[m], now, MaxAge)
                THEN RevertPendingOp(rows[m]) ELSE rows[m]]
  /\ sync' = [sync EXCEPT !.pc = "changes", !.since = cursor]
  /\ UNCHANGED <<cursor, now, server, sstate, ops, spent>>

\* Email/changes.
SyncChanges ==
  /\ sync.pc = "changes"
  /\ LET changed == {m \in Emails : server[m].at > sync.since}
     IN  sync' = [sync EXCEPT !.pc = "get", !.newState = sstate,
                    !.destroyed = {m \in changed : ~server[m].alive},
                    !.wanted    = {m \in changed : server[m].alive}]
  /\ UNCHANGED <<rows, cursor, now, server, sstate, ops, spent>>

\* Email/get of the created and updated ids: a second request, a later moment.
SyncGet ==
  /\ sync.pc = "get"
  /\ sync' = [sync EXCEPT !.pc = "save",
                !.got = [m \in {w \in sync.wanted : server[w].alive} |-> server[m].flags]]
  /\ UNCHANGED <<rows, cursor, now, server, sstate, ops, spent>>

\* delta_email_batch: destroyed rows, saves and the cursor in one transaction.
SyncSave ==
  /\ sync.pc = "save"
  /\ rows' = [m \in Emails |->
                IF m \in DOMAIN sync.got
                THEN Upsert(IF m \in sync.destroyed THEN NULL ELSE rows[m], sync.got[m])
                ELSE IF m \in sync.destroyed THEN NULL ELSE rows[m]]
  /\ cursor' = sync.newState
  /\ sync' = IdleSync
  /\ UNCHANGED <<now, server, sstate, ops, spent>>

\* A request of the sync fails: sync_emails returns the error.
SyncFail ==
  /\ sync.pc \in {"changes", "get"}
  /\ sync' = IdleSync
  /\ UNCHANGED <<rows, cursor, now, server, sstate, ops, spent>>

\* The process stops: the operations and the sync are forgotten, requests on
\* the wire may or may not have been applied before.
Crash ==
  /\ spent.crashes < MaxCrashes
  /\ spent' = [spent EXCEPT !.crashes = @ + 1]
  /\ ops' = {} /\ sync' = IdleSync
  /\ UNCHANGED <<rows, cursor, now, server, sstate>>

Tick ==
  /\ now < MaxTime
  /\ now' = now + 1
  /\ UNCHANGED <<rows, cursor, server, sstate, ops, sync, spent>>

Sync == SyncChanges \/ SyncGet \/ SyncSave

Next ==
  \/ \E m \in Emails : OtherClient(m)
  \/ \E op \in ops : Applied(op)
  \/ \E op \in ops : Refused(op)
  \/ \E m \in Emails, b \in Bits : Toggle(m, b)
  \/ \E op \in ops : Conclude(op)
  \/ SyncStart
  \/ SyncChanges
  \/ SyncGet
  \/ SyncSave
  \/ SyncFail
  \/ Crash
  \/ Tick

\* Time passes, and the application goes on calling sync_emails (on a push or
\* a timer).  Nothing is assumed of the user, the server's replies or crashes.
Fairness == WF_vars(Tick) /\ WF_vars(SyncStart) /\ WF_vars(Sync)

Spec == Init /\ [][Next]_vars /\ Fairness

-----------------------------------------------------------------------------
\* The types of the state.
TypeOK ==
  /\ rows \in [Emails -> Row \cup {NULL}]
  /\ cursor \in 0..sstate /\ sstate \in Nat /\ now \in 0..MaxTime
  /\ server \in [Emails -> [alive : BOOLEAN, flags : Flags, at : 0..sstate]]
  /\ ops \subseteq Op
  /\ sync.pc \in {"idle", "changes", "get", "save"}
  /\ sync.destroyed \subseteq Emails /\ sync.wanted \subseteq Emails

\* While a request is in flight and younger than MaxAge, the user goes on
\* seeing what they asked for as long as the message exists: neither the delta
\* sync that fetches it meanwhile, nor an expiry, nor what is left of an
\* earlier request takes it back (docs/cache.md:94 and 96).
OptimismHonoured ==
  \A op \in ops :
    (rows[op.email] # NULL /\ now <= op.sentAt + MaxAge)
      => rows[op.email].pending /\ Effective(rows[op.email]) = op.want

\* Nothing is in flight and the cursor has passed every change of the server.
Quiet ==
  /\ ops = {} /\ sync.pc = "idle" /\ cursor = sstate
  /\ \A m \in Emails : rows[m] = NULL \/ ~rows[m].pending

\* When everything has settled, what the user sees is what the server holds:
\* the last chance to be right, since the next sync asks only for later changes.
SettledShowsTruth ==
  Quiet => \A m \in Emails :
             /\ server[m].alive = (rows[m] # NULL)
             /\ server[m].alive => Effective(rows[m]) = server[m].flags

\* No operation stays pending for ever, whatever became of its request and of
\* the process that sent it: sync_emails begins by expiring the old ones.
PendingResolves ==
  \A m \in Emails : (rows[m] # NULL /\ rows[m].pending)
                      ~> (rows[m] = NULL \/ ~rows[m].pending)

\* The store under the flow is DualTruth's: each step here sends it one command
\* or none.
Store == INSTANCE DualTruth

\* However the requests, the replies, the syncs and the restarts interleave, what
\* the user sees of each message follows OptimisticFlags: idle and showing the
\* server's flags, or pending and showing the user's choice, which ends by a
\* confirmation, a reversal to the flags the upsert kept (message_queries.rs:94, not
\* docs/cache.md:93), or a deletion.
FlowImplementsOptimisticFlags == Store!ImplementsOptimisticFlags
=============================================================================
