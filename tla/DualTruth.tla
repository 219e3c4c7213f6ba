----------------------------- MODULE DualTruth -----------------------------
(***************************************************************************)
(* The dual-truth flags of the message cache: every command of the store   *)
(* that reaches the flag columns, in any order the callers may send them.  *)
(* The store's thread executes one command at a time (src/store/           *)
(* dispatch.rs), so each command is one atomic action.                     *)
(*                                                                         *)
(* rows[m] is NULL when message m is not in the table.                     *)
(***************************************************************************)
EXTENDS FlagRow

CONSTANTS
  Emails,     \* email ids of one account
  MaxAge,     \* max_age_secs of expire_pending_ops
  MaxTime     \* bound on the clock

ASSUME AgeAssumption == MaxAge \in Nat /\ MaxTime \in Nat

VARIABLES
  rows,       \* the messages table
  now         \* strftime('%s', 'now'), in seconds

vars == <<rows, now>>

Present == {m \in Emails : rows[m] # NULL}

\* The database of an earlier session: what it holds has settled.
Init ==
  /\ rows \in [Emails -> {Settled(f) : f \in Flags} \cup {NULL}]
  /\ now = 0

-----------------------------------------------------------------------------
\* A batch of summaries: the flags of the messages in it.
Batches == UNION {[S -> Flags] : S \in SUBSET Emails}

\* save_messages and save_messages_and_set_state: one transaction over a batch.
SaveMessages(batch) ==
  /\ rows' = [m \in Emails |->
                IF m \in DOMAIN batch THEN Upsert(rows[m], batch[m]) ELSE rows[m]]
  /\ UNCHANGED now

\* update_flags.  An UPDATE of a row that is not there changes nothing.
UpdateFlagsCmd(m, f) ==
  /\ m \in Present
  /\ rows' = [rows EXCEPT ![m] = UpdateFlags(rows[m], f, now)]
  /\ UNCHANGED now

\* clear_pending_op: also accepted when nothing is pending.
ClearPendingOpCmd(m, f) ==
  /\ m \in Present
  /\ rows' = [rows EXCEPT ![m] = ClearPendingOp(f)]
  /\ UNCHANGED now

\* revert_pending_op: also accepted when nothing is pending.
RevertPendingOpCmd(m) ==
  /\ m \in Present
  /\ rows' = [rows EXCEPT ![m] = RevertPendingOp(rows[m])]
  /\ UNCHANGED now

\* expire_pending_ops, the first thing every sync_emails does.
ExpirePendingOps ==
  /\ rows' = [m \in Emails |->
                IF m \in Present /\ IsExpired(rows[m], now, MaxAge)
                THEN RevertPendingOp(rows[m]) ELSE rows[m]]
  /\ UNCHANGED now

\* delta_email_batch: the destroyed messages go and the batch is saved, in that
\* order and in one transaction.
DeltaEmailBatch(gone, batch) ==
  LET left == [m \in Emails |-> IF m \in gone THEN NULL ELSE rows[m]]
  IN  /\ rows' = [m \in Emails |->
                    IF m \in DOMAIN batch THEN Upsert(left[m], batch[m]) ELSE left[m]]
      /\ UNCHANGED now

\* remove_message, prune_mailbox and the folder cascades: rows go away whatever
\* is pending on them.
RemoveMessages(gone) ==
  /\ rows' = [m \in Emails |-> IF m \in gone THEN NULL ELSE rows[m]]
  /\ UNCHANGED now

Tick ==
  /\ now < MaxTime
  /\ now' = now + 1
  /\ UNCHANGED rows

Next ==
  \/ \E batch \in Batches : SaveMessages(batch)
  \/ \E m \in Emails, f \in Flags : UpdateFlagsCmd(m, f)
  \/ \E m \in Emails, f \in Flags : ClearPendingOpCmd(m, f)
  \/ \E m \in Emails : RevertPendingOpCmd(m)
  \/ ExpirePendingOps
  \/ \E gone \in SUBSET Emails, batch \in Batches : DeltaEmailBatch(gone, batch)
  \/ \E gone \in SUBSET Emails : RemoveMessages(gone)
  \/ Tick

Spec == Init /\ [][Next]_vars

-----------------------------------------------------------------------------
\* The type of the table's flag columns and of the clock.
TypeOK ==
  /\ rows \in [Emails -> Row \cup {NULL}]
  /\ now \in Nat

\* docs/cache.md "Invariant": the redundant is_read and is_starred columns,
\* which the queries filter and sort by, are the bits of the effective flags,
\* whichever statement wrote the row last.
Mirrored ==
  \A m \in Present :
    /\ rows[m].is_read    <=> IsRead(Effective(rows[m]))
    /\ rows[m].is_starred <=> IsStarred(Effective(rows[m]))

\* The Idle state of docs/cache.md: with no operation in flight the local flags
\* are the server's, so a later operation never starts from a leftover.
IdleAgrees ==
  \A m \in Present : ~rows[m].pending => rows[m].flags_local = rows[m].flags_server

\* Every pending operation carries a time that is not in the future and every
\* idle row carries none: no operation escapes expire_pending_ops, whose WHERE
\* clause skips rows without a time.
PendingIsTimed ==
  \A m \in Present :
    IF rows[m].pending THEN rows[m].pending_op_at \in 0..now
    ELSE rows[m].pending_op_at = NULL

DualTruthInv == TypeOK /\ Mirrored /\ IdleAgrees /\ PendingIsTimed

\* What belongs to the user while an operation is in flight, and to its expiry.
OfUser(r) == <<r.flags_local, r.is_read, r.is_starred, r.pending_op_at>>

\* docs/cache.md invariant 2 ("a background sync never overwrites flags_local or
\* is_read/is_starred on a message with a pending_op"), over every command: while an
\* operation stays in flight these columns and its time change only by another
\* operation of the user, which is stamped with the current time.  Nothing is said
\* of flags_server, where document and code differ.
PendingPreserved ==
  [][\A m \in Present :
       (rows'[m] # NULL /\ rows[m].pending /\ rows'[m].pending) =>
         OfUser(rows'[m]) = OfUser(rows[m]) \/ rows'[m].pending_op_at = now]_vars

-----------------------------------------------------------------------------
\* The abstract promise, read off the columns a query returns.
Shown(r) == flags_to_u8(r.is_read, r.is_starred)

Abstract == INSTANCE OptimisticFlags WITH
  FlagSet <- Flags,
  phase <- [m \in Emails |-> IF rows[m] = NULL THEN "absent"
                             ELSE IF rows[m].pending THEN "pending" ELSE "idle"],
  shown <- [m \in Emails |-> IF rows[m] = NULL THEN 0 ELSE Shown(rows[m])],
  base  <- [m \in Emails |-> IF rows[m] = NULL THEN 0 ELSE rows[m].flags_server]

\* The columns implement the abstract promise under every order of commands: what is
\* shown is docs/cache.md's state machine, and a reversal returns to the server flags
\* from before the operation, which the upsert keeps (message_queries.rs:94).
ImplementsOptimisticFlags == Abstract!ASpec
=============================================================================
