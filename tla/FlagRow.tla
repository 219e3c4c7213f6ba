------------------------------ MODULE FlagRow ------------------------------
(***************************************************************************)
(* The flag columns of one row of the `messages` table and what each SQL   *)
(* statement of the store does to them (src/store/flag_queries.rs and the  *)
(* upsert of src/store/message_queries.rs).  Pure operators: DualTruth     *)
(* drives them alone, FlagFlow composes them with the server.              *)
(*                                                                         *)
(* pending_op is NULL or the name of the operation in flight; no statement *)
(* looks at the name, so the column is the BOOLEAN "IS NOT NULL".          *)
(***************************************************************************)
EXTENDS Naturals

CONSTANT NULL     \* SQL's NULL, and a row that is not there

\* The two-bit encoding: bit 0 = seen, bit 1 = flagged.
Flags == 0..3

flags_to_u8(is_read, is_starred) ==
  (IF is_read THEN 1 ELSE 0) + (IF is_starred THEN 2 ELSE 0)

IsRead(f)    == f % 2 = 1
IsStarred(f) == f \div 2 = 1

Row == [flags_server  : Flags,
        flags_local   : Flags,
        is_read       : BOOLEAN,
        is_starred    : BOOLEAN,
        pending       : BOOLEAN,
        pending_op_at : Nat \cup {NULL}]

ASSUME NullAssumption == NULL \notin Nat /\ NULL \notin Row

\* The flags a reader of the row is given (row_to_summary).
Effective(r) == IF r.pending THEN r.flags_local ELSE r.flags_server

\* A row all of whose flag columns say f, with no operation in flight.
Settled(f) == [flags_server |-> f, flags_local |-> f,
               is_read |-> IsRead(f), is_starred |-> IsStarred(f),
               pending |-> FALSE, pending_op_at |-> NULL]

\* Mutant: is_read and is_starred are taken from the server without the CASE.
UpsertShowsServer(r, f) ==
  IF r = NULL THEN Settled(f)
  ELSE IF r.pending THEN [r EXCEPT !.is_read = IsRead(f), !.is_starred = IsStarred(f)]
  ELSE [Settled(f) EXCEPT !.pending_op_at = r.pending_op_at]

\* Mutant: every flag column is taken without its CASE.
UpsertUnguarded(r, f) ==
  IF r = NULL THEN Settled(f)
  ELSE [Settled(f) EXCEPT !.pending = r.pending, !.pending_op_at = r.pending_op_at]

\* INSERT ... ON CONFLICT DO UPDATE: the server's flags are taken only when no
\* operation is in flight, flags_server included (docs/cache.md:93 says that this
\* column is updated then, too; FlagFlow's SettledShowsTruth is about the difference).
Upsert(r, f) ==
  IF r = NULL THEN Settled(f)
  ELSE IF r.pending THEN r
  ELSE [Settled(f) EXCEPT !.pending_op_at = r.pending_op_at]

\* Mutant: the time of the operation is not recorded.
UpdateFlagsUntimed(r, f, time) ==
  [r EXCEPT !.flags_local = f, !.pending = TRUE,
            !.is_read = IsRead(f), !.is_starred = IsStarred(f)]

\* The user's optimistic change.  A second one replaces the first.
UpdateFlags(r, f, time) ==
  [r EXCEPT !.flags_local = f, !.pending = TRUE, !.pending_op_at = time,
            !.is_read = IsRead(f), !.is_starred = IsStarred(f)]

\* The server confirmed: whatever was pending is over, f is the truth.
ClearPendingOp(f) == Settled(f)

\* Mutant: the redundant columns are not reverted.
RevertPendingOpFlagsOnly(r) ==
  [r EXCEPT !.flags_local = r.flags_server, !.pending = FALSE, !.pending_op_at = NULL]

\* The server refused: back to the last server flags.
RevertPendingOp(r) == Settled(r.flags_server)

\* Mutant: an operation expires one second early.
IsExpiredEarly(r, time, maxAge) ==
  r.pending /\ r.pending_op_at # NULL /\ r.pending_op_at + maxAge <= time

\* The WHERE clause of expire_pending_ops.
IsExpired(r, time, maxAge) ==
  /\ r.pending
  /\ r.pending_op_at # NULL
  /\ r.pending_op_at + maxAge < time
=============================================================================
