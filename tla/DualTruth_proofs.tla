-------------------------- MODULE DualTruth_proofs --------------------------
(***************************************************************************)
(* Proofs about the dual-truth flags, for any set of messages, any expiry  *)
(* age and any clock.                                                      *)
(***************************************************************************)
EXTENDS DualTruth, TLAPS

\* The invariant of one row at time t.
RowGood(r, t) ==
  /\ r \in Row
  /\ r.is_read <=> IsRead(Effective(r))
  /\ r.is_starred <=> IsStarred(Effective(r))
  /\ ~r.pending => r.flags_local = r.flags_server
  /\ IF r.pending THEN r.pending_op_at \in 0..t ELSE r.pending_op_at = NULL

\* docs/cache.md invariant 8: the two-bit encoding loses nothing either way.
THEOREM FlagsRoundTrip ==
  /\ \A a, b \in BOOLEAN : LET f == flags_to_u8(a, b)
                           IN  f \in Flags /\ IsRead(f) = a /\ IsStarred(f) = b
  /\ \A f \in Flags : flags_to_u8(IsRead(f), IsStarred(f)) = f
BY DEF Flags, flags_to_u8, IsRead, IsStarred

\* A settled row is a good row.
LEMMA SettledGood ==
  ASSUME NEW f \in Flags, NEW t \in Nat
  PROVE  RowGood(Settled(f), t)
BY DEF RowGood, Settled, Row, Effective, IsRead, IsStarred

\* The upsert keeps a row good, or makes a good one.
LEMMA UpsertGood ==
  ASSUME NEW t \in Nat, NEW f \in Flags, NEW r, r = NULL \/ RowGood(r, t)
  PROVE  RowGood(Upsert(r, f), t)
<1>1. CASE r = NULL
  BY <1>1, SettledGood DEF Upsert
<1>2. CASE r # NULL /\ r.pending
  BY <1>2 DEF Upsert
<1>3. CASE r # NULL /\ ~r.pending
  <2>1. r.pending_op_at = NULL
    BY <1>3 DEF RowGood
  <2>2. Upsert(r, f) = Settled(f)
    BY <1>3, <2>1 DEF Upsert, Settled
  <2>3. QED BY <2>2, SettledGood
<1>4. QED BY <1>1, <1>2, <1>3

\* The user's optimistic change keeps a row good.
LEMMA UpdateGood ==
  ASSUME NEW t \in Nat, NEW f \in Flags, NEW r, RowGood(r, t)
  PROVE  RowGood(UpdateFlags(r, f, t), t)
<1> DEFINE u == UpdateFlags(r, f, t)
<1>1. r \in Row
  BY DEF RowGood
<1>2. IsRead(f) \in BOOLEAN /\ IsStarred(f) \in BOOLEAN
  BY DEF IsRead, IsStarred
<1>3. /\ u \in Row
      /\ u.pending = TRUE /\ u.pending_op_at = t /\ u.flags_local = f
      /\ u.is_read = IsRead(f) /\ u.is_starred = IsStarred(f)
  BY <1>1, <1>2 DEF UpdateFlags, Row
<1>4. Effective(u) = f
  BY <1>3 DEF Effective
<1> HIDE DEF u
<1>5. RowGood(u, t)
  BY <1>3, <1>4 DEF RowGood
<1>6. QED BY <1>5 DEF u

\* Time passing keeps a row good.
LEMMA TickGood ==
  ASSUME NEW t \in Nat, NEW r, RowGood(r, t)
  PROVE  RowGood(r, t + 1)
<1>1. r.pending => r.pending_op_at \in 0..(t + 1)
  BY DEF RowGood
<1>2. QED BY <1>1 DEF RowGood

\* The invariant, row by row.
LEMMA InvByRow ==
  DualTruthInv <=> /\ now \in Nat
                   /\ rows \in [Emails -> Row \cup {NULL}]
                   /\ \A m \in Emails : rows[m] # NULL => RowGood(rows[m], now)
BY DEF DualTruthInv, TypeOK, Mirrored, IdleAgrees, PendingIsTimed, Present, RowGood

\* The same after a step.
LEMMA InvByRowPrime ==
  ASSUME now' \in Nat,
         rows' \in [Emails -> Row \cup {NULL}],
         \A m \in Emails : rows'[m] # NULL => RowGood(rows'[m], now')
  PROVE  DualTruthInv'
BY DEF DualTruthInv, TypeOK, Mirrored, IdleAgrees, PendingIsTimed, Present, RowGood

\* What a batch holds.
LEMMA BatchFacts ==
  ASSUME NEW batch \in Batches
  PROVE  /\ DOMAIN batch \subseteq Emails
         /\ \A m \in DOMAIN batch : batch[m] \in Flags
BY DEF Batches

\* Init establishes the invariant.
LEMMA InitInv == Init => DualTruthInv
<1> SUFFICES ASSUME Init PROVE DualTruthInv
  OBVIOUS
<1>1. now \in Nat
  BY DEF Init
<1>2. \A m \in Emails : rows[m] = NULL \/ RowGood(rows[m], now)
  BY <1>1, SettledGood DEF Init
<1>3. rows \in [Emails -> Row \cup {NULL}]
  BY <1>2 DEF Init, RowGood
<1>4. QED BY <1>1, <1>2, <1>3, InvByRow

\* Every command, and the clock, preserves it.
LEMMA StepInv == DualTruthInv /\ [Next]_vars => DualTruthInv'
<1> SUFFICES ASSUME DualTruthInv, [Next]_vars PROVE DualTruthInv'
  OBVIOUS
<1>0. /\ now \in Nat
      /\ rows \in [Emails -> Row \cup {NULL}]
      /\ \A m \in Emails : rows[m] # NULL => RowGood(rows[m], now)
  BY InvByRow
<1> DEFINE Fine(r) == r = NULL \/ RowGood(r, now)
<1>a. ASSUME now' = now, rows' \in [Emails -> {rows'[m] : m \in Emails}],
             \A m \in Emails : Fine(rows'[m])
      PROVE  DualTruthInv'
  <2>1. \A m \in Emails : rows'[m] \in Row \cup {NULL}
    BY <1>a DEF RowGood
  <2>2. rows' \in [Emails -> Row \cup {NULL}]
    BY <1>a, <2>1
  <2>3. QED BY <1>a, <1>0, <2>2, InvByRowPrime
<1>1. ASSUME NEW batch \in Batches, SaveMessages(batch)
      PROVE  DualTruthInv'
  <2>1. \A m \in DOMAIN batch : Fine(Upsert(rows[m], batch[m]))
    BY <1>0, BatchFacts, UpsertGood
  <2>2. \A m \in Emails : Fine(rows'[m])
    BY <1>0, <1>1, <2>1 DEF SaveMessages
  <2>3. QED BY <1>1, <1>a, <2>2 DEF SaveMessages
<1>2. ASSUME NEW m \in Emails, NEW f \in Flags, UpdateFlagsCmd(m, f)
      PROVE  DualTruthInv'
  <2>1. Fine(UpdateFlags(rows[m], f, now))
    BY <1>0, <1>2, UpdateGood DEF UpdateFlagsCmd, Present
  <2>2. \A n \in Emails : Fine(rows'[n])
    BY <1>0, <1>2, <2>1 DEF UpdateFlagsCmd
  <2>3. QED BY <1>0, <1>2, <1>a, <2>2 DEF UpdateFlagsCmd
<1>3. ASSUME NEW m \in Emails, NEW f \in Flags, ClearPendingOpCmd(m, f)
      PROVE  DualTruthInv'
  <2>1. Fine(ClearPendingOp(f))
    BY <1>0, SettledGood DEF ClearPendingOp
  <2>2. \A n \in Emails : Fine(rows'[n])
    BY <1>0, <1>3, <2>1 DEF ClearPendingOpCmd
  <2>3. QED BY <1>0, <1>3, <1>a, <2>2 DEF ClearPendingOpCmd
<1>r. \A m \in Emails : rows[m] # NULL => Fine(RevertPendingOp(rows[m]))
  <2> SUFFICES ASSUME NEW m \in Emails, rows[m] # NULL
               PROVE  Fine(RevertPendingOp(rows[m]))
    OBVIOUS
  <2>1. rows[m].flags_server \in Flags
    BY <1>0 DEF RowGood, Row
  <2>2. QED BY <1>0, <2>1, SettledGood DEF RevertPendingOp
<1>4. ASSUME NEW m \in Emails, RevertPendingOpCmd(m)
      PROVE  DualTruthInv'
  <2>1. \A n \in Emails : Fine(rows'[n])
    BY <1>0, <1>4, <1>r DEF RevertPendingOpCmd, Present
  <2>2. QED BY <1>0, <1>4, <1>a, <2>1 DEF RevertPendingOpCmd
<1>5. ASSUME ExpirePendingOps
      PROVE  DualTruthInv'
  <2>1. \A n \in Emails : Fine(rows'[n])
    BY <1>0, <1>5, <1>r DEF ExpirePendingOps, Present
  <2>2. QED BY <1>5, <1>a, <2>1 DEF ExpirePendingOps
<1>6. ASSUME NEW gone \in SUBSET Emails, RemoveMessages(gone)
      PROVE  DualTruthInv'
  <2>1. \A n \in Emails : Fine(rows'[n])
    BY <1>0, <1>6 DEF RemoveMessages
  <2>2. QED BY <1>6, <1>a, <2>1 DEF RemoveMessages
<1>d. ASSUME NEW gone \in SUBSET Emails, NEW batch \in Batches, DeltaEmailBatch(gone, batch)
      PROVE  DualTruthInv'
  <2> DEFINE left == [m \in Emails |-> IF m \in gone THEN NULL ELSE rows[m]]
  <2>1. \A m \in Emails : Fine(left[m])
    BY <1>0
  <2>2. \A m \in DOMAIN batch : Fine(Upsert(left[m], batch[m]))
    BY <1>0, <2>1, BatchFacts, UpsertGood
  <2>3. /\ now' = now
        /\ rows' = [m \in Emails |->
                      IF m \in DOMAIN batch THEN Upsert(left[m], batch[m]) ELSE left[m]]
    BY <1>d DEF DeltaEmailBatch
  <2> HIDE DEF left
  <2>4. \A m \in Emails : Fine(rows'[m])
    BY <2>1, <2>2, <2>3
  <2>5. QED BY <1>a, <2>3, <2>4
<1>7. ASSUME Tick
      PROVE  DualTruthInv'
  BY <1>0, <1>7, TickGood, InvByRowPrime DEF Tick
<1>8. ASSUME UNCHANGED vars
      PROVE  DualTruthInv'
  BY <1>0, <1>8, InvByRowPrime DEF vars
<1>9. QED
  BY <1>1, <1>2, <1>3, <1>4, <1>5, <1>6, <1>d, <1>7, <1>8 DEF Next

\* The flag columns agree with one another and every pending operation can
\* expire, whatever commands the callers send in whatever order.
THEOREM DualTruthCorrect == Spec => []DualTruthInv
BY InitInv, StepInv, PTL DEF Spec

\* docs/cache.md invariant 2: while an operation is in flight no command but the
\* user's next operation changes flags_local, is_read, is_starred or its time.
THEOREM PendingIsPreserved == Spec => PendingPreserved
<1> DEFINE Kept(r, s, t) ==
      (s # NULL /\ r.pending /\ s.pending) =>
         OfUser(s) = OfUser(r) \/ s.pending_op_at = t
<1>1. ASSUME DualTruthInv, [Next]_vars, NEW m \in Emails, rows[m] # NULL
      PROVE  Kept(rows[m], rows'[m], now)
  <2>0. rows \in [Emails -> Row \cup {NULL}] /\ rows[m] \in Row
    BY <1>1 DEF DualTruthInv, TypeOK
  <2>s. \A f \in Flags : Settled(f).pending = FALSE
    BY DEF Settled
  <2>1. ASSUME NEW batch \in Batches, SaveMessages(batch)
        PROVE  Kept(rows[m], rows'[m], now)
    BY <1>1, <2>0, <2>1 DEF SaveMessages, Upsert
  <2>d. ASSUME NEW gone \in SUBSET Emails, NEW batch \in Batches, DeltaEmailBatch(gone, batch)
        PROVE  Kept(rows[m], rows'[m], now)
    <3>1. CASE m \notin DOMAIN batch
      BY <2>0, <2>d, <3>1 DEF DeltaEmailBatch
    <3>2. CASE m \in DOMAIN batch /\ m \in gone
      BY <2>0, <2>d, <2>s, <3>2, BatchFacts DEF DeltaEmailBatch, Upsert
    <3>3. CASE m \in DOMAIN batch /\ m \notin gone
      BY <1>1, <2>0, <2>d, <3>3 DEF DeltaEmailBatch, Upsert
    <3>4. QED BY <3>1, <3>2, <3>3
  <2>2. ASSUME NEW n \in Emails, NEW f \in Flags, UpdateFlagsCmd(n, f)
        PROVE  Kept(rows[m], rows'[m], now)
    BY <2>0, <2>2 DEF UpdateFlagsCmd, UpdateFlags, Row
  <2>3. ASSUME NEW n \in Emails, NEW f \in Flags, ClearPendingOpCmd(n, f)
        PROVE  Kept(rows[m], rows'[m], now)
    BY <2>0, <2>3, <2>s DEF ClearPendingOpCmd, ClearPendingOp
  <2>4. ASSUME NEW n \in Emails, RevertPendingOpCmd(n)
        PROVE  Kept(rows[m], rows'[m], now)
    BY <2>0, <2>4 DEF RevertPendingOpCmd, RevertPendingOp, Settled
  <2>5. ASSUME ExpirePendingOps
        PROVE  Kept(rows[m], rows'[m], now)
    BY <2>0, <2>5 DEF ExpirePendingOps, RevertPendingOp, Settled
  <2>6. ASSUME NEW gone \in SUBSET Emails, RemoveMessages(gone)
        PROVE  Kept(rows[m], rows'[m], now)
    BY <2>0, <2>6 DEF RemoveMessages
  <2>7. CASE Tick
    BY <2>7 DEF Tick
  <2>8. CASE UNCHANGED vars
    BY <2>8 DEF vars
  <2>9. QED
    BY <1>1, <2>1, <2>d, <2>2, <2>3, <2>4, <2>5, <2>6, <2>7, <2>8 DEF Next
<1>2. DualTruthInv /\ [Next]_vars =>
        [\A m \in Present :
           (rows'[m] # NULL /\ rows[m].pending /\ rows'[m].pending) =>
             OfUser(rows'[m]) = OfUser(rows[m]) \/ rows'[m].pending_op_at = now]_vars
  BY <1>1 DEF Present
<1>3. QED
  BY <1>2, DualTruthCorrect, PTL DEF Spec, PendingPreserved

-----------------------------------------------------------------------------
\* What the columns of a row say in the abstract vocabulary.
PhaseOf(r) == IF r = NULL THEN "absent" ELSE IF r.pending THEN "pending" ELSE "idle"
ShownOf(r) == IF r = NULL THEN 0 ELSE Shown(r)
BaseOf(r)  == IF r = NULL THEN 0 ELSE r.flags_server

\* A settled row shows its flags.
LEMMA SettledShows ==
  ASSUME NEW f \in Flags
  PROVE  /\ Settled(f) # NULL
         /\ PhaseOf(Settled(f)) = "idle"
         /\ ShownOf(Settled(f)) = f
         /\ BaseOf(Settled(f)) = f
<1>1. Settled(f) # NULL
  BY SettledGood, NullAssumption DEF RowGood
<1>2. Shown(Settled(f)) = f
  <2>1. flags_to_u8(IsRead(f), IsStarred(f)) = f
    BY FlagsRoundTrip
  <2>2. QED BY <2>1 DEF Shown, Settled
<1>3. QED BY <1>1, <1>2 DEF PhaseOf, ShownOf, BaseOf, Settled

\* An idle row shows the server's flags.
LEMMA IdleShows ==
  ASSUME NEW t \in Nat, NEW r, RowGood(r, t), ~r.pending
  PROVE  /\ r.flags_server \in Flags
         /\ Shown(r) = r.flags_server
<1>1. /\ r.flags_server \in Flags
      /\ r.is_read \in BOOLEAN /\ r.is_starred \in BOOLEAN
  BY DEF RowGood, Row
<1>2. IsRead(r.flags_server) \in BOOLEAN /\ IsStarred(r.flags_server) \in BOOLEAN
  BY DEF IsRead, IsStarred
<1>3. r.is_read = IsRead(r.flags_server) /\ r.is_starred = IsStarred(r.flags_server)
  BY <1>1, <1>2 DEF RowGood, Effective
<1>4. QED BY <1>1, <1>3, FlagsRoundTrip DEF Shown

\* A settled table maps to an abstract initial state.
LEMMA RefinesInit == Init => Abstract!AInit
<1> SUFFICES ASSUME Init PROVE Abstract!AInit
  OBVIOUS
<1>1. 0 \in Flags
  BY DEF Flags
<1>2. ASSUME NEW m \in Emails
      PROVE  /\ PhaseOf(rows[m]) \in {"absent", "idle"}
             /\ ShownOf(rows[m]) \in Flags
             /\ BaseOf(rows[m]) = ShownOf(rows[m])
  <2>1. CASE rows[m] = NULL
    BY <2>1, <1>1 DEF PhaseOf, ShownOf, BaseOf
  <2>2. CASE rows[m] # NULL
    <3>1. PICK f \in Flags : rows[m] = Settled(f)
      BY <2>2 DEF Init
    <3>2. QED BY <3>1, SettledShows
  <2>3. QED BY <2>1, <2>2
<1>3. QED BY <1>2 DEF Abstract!AInit, PhaseOf, ShownOf, BaseOf

\* Every command is an abstract step or changes nothing abstract.
LEMMA RefinesStep ==
  DualTruthInv /\ [Next]_vars => [Abstract!ANext]_(Abstract!avars)
<1> SUFFICES ASSUME DualTruthInv, [Next]_vars
             PROVE  [Abstract!ANext]_(Abstract!avars)
  OBVIOUS
<1> DEFINE ph == [m \in Emails |-> PhaseOf(rows[m])]
           sh == [m \in Emails |-> ShownOf(rows[m])]
           ba == [m \in Emails |-> BaseOf(rows[m])]
           phN == [m \in Emails |-> PhaseOf(rows'[m])]
           shN == [m \in Emails |-> ShownOf(rows'[m])]
           baN == [m \in Emails |-> BaseOf(rows'[m])]
<1>0. /\ now \in Nat
      /\ rows \in [Emails -> Row \cup {NULL}]
      /\ \A m \in Emails : rows[m] # NULL => RowGood(rows[m], now)
  BY InvByRow
<1>r. ASSUME NEW m \in Emails, rows[m] # NULL
      PROVE  LET r == RevertPendingOp(rows[m])
             IN  /\ PhaseOf(r) = "idle"
                 /\ ShownOf(r) = BaseOf(rows[m])
                 /\ BaseOf(r) = BaseOf(rows[m])
  <2>1. rows[m].flags_server \in Flags
    BY <1>0, <1>r DEF RowGood, Row
  <2>2. QED BY <1>r, <2>1, SettledShows DEF RevertPendingOp, BaseOf
<1>l. ASSUME NEW gone \in SUBSET Emails, NEW batch \in Batches,
             NEW left \in [Emails -> Row \cup {NULL}],
             \A m \in Emails : left[m] = IF m \in gone THEN NULL ELSE rows[m],
             rows' = [m \in Emails |->
                        IF m \in DOMAIN batch THEN Upsert(left[m], batch[m]) ELSE left[m]]
      PROVE  Abstract!Learn(gone, batch)
  <2> DEFINE heard == {m \in DOMAIN batch : PhaseOf(rows[m]) # "pending" \/ m \in gone}
  <2>1. ASSUME NEW m \in Emails
        PROVE  /\ PhaseOf(rows'[m]) = IF m \in heard THEN "idle"
                                      ELSE IF m \in gone THEN "absent" ELSE PhaseOf(rows[m])
               /\ ShownOf(rows'[m]) = IF m \in heard THEN batch[m]
                                      ELSE IF m \in gone THEN 0 ELSE ShownOf(rows[m])
               /\ BaseOf(rows'[m]) = IF m \in heard THEN batch[m]
                                     ELSE IF m \in gone THEN 0 ELSE BaseOf(rows[m])
    <3>1. CASE m \in heard
      <4>1. left[m] = NULL \/ (left[m] = rows[m] /\ ~rows[m].pending)
        BY <1>l, <3>1 DEF PhaseOf
      <4>2. Upsert(left[m], batch[m]) = Settled(batch[m])
        BY <1>0, <4>1 DEF Upsert, Settled, RowGood
      <4>3. rows'[m] = Settled(batch[m])
        BY <1>l, <3>1, <4>2
      <4>4. QED BY <3>1, <4>3, SettledShows, BatchFacts
    <3>2. CASE m \notin heard
      <4>1. rows'[m] = left[m]
        BY <1>0, <1>l, <3>2 DEF Upsert, PhaseOf
      <4>2. QED BY <1>l, <3>2, <4>1 DEF PhaseOf, ShownOf, BaseOf
    <3>3. QED BY <3>1, <3>2
  <2>2. heard = {m \in DOMAIN batch : ph[m] # "pending" \/ m \in gone}
    BY BatchFacts
  <2> HIDE DEF heard
  <2>3. /\ phN = [m \in Emails |-> IF m \in heard THEN "idle"
                                  ELSE IF m \in gone THEN "absent" ELSE ph[m]]
        /\ shN = [m \in Emails |-> IF m \in heard THEN batch[m]
                                  ELSE IF m \in gone THEN 0 ELSE sh[m]]
        /\ baN = [m \in Emails |-> IF m \in heard THEN batch[m]
                                  ELSE IF m \in gone THEN 0 ELSE ba[m]]
    BY <2>1
  <2>4. 0 \in Flags
    BY DEF Flags
  <2>5. QED BY <2>2, <2>3, <2>4 DEF Abstract!Learn, PhaseOf, ShownOf, BaseOf
<1>n. Abstract!News = Batches
  BY DEF Abstract!News, Batches
<1>1. ASSUME NEW batch \in Batches, SaveMessages(batch)
      PROVE  Abstract!Learn({}, batch)
  BY <1>0, <1>1, <1>l DEF SaveMessages
<1>d. ASSUME NEW gone \in SUBSET Emails, NEW batch \in Batches, DeltaEmailBatch(gone, batch)
      PROVE  Abstract!Learn(gone, batch)
  <2> DEFINE left == [m \in Emails |-> IF m \in gone THEN NULL ELSE rows[m]]
  <2>1. left \in [Emails -> Row \cup {NULL}]
    BY <1>0
  <2>2. rows' = [m \in Emails |->
                   IF m \in DOMAIN batch THEN Upsert(left[m], batch[m]) ELSE left[m]]
    BY <1>d DEF DeltaEmailBatch
  <2>3. \A m \in Emails : left[m] = IF m \in gone THEN NULL ELSE rows[m]
    OBVIOUS
  <2> HIDE DEF left
  <2>4. QED BY <1>l, <2>1, <2>2, <2>3
<1>2. ASSUME NEW m \in Emails, NEW f \in Flags, UpdateFlagsCmd(m, f)
      PROVE  Abstract!Toggle(m, f)
  <2> DEFINE u == UpdateFlags(rows[m], f, now)
  <2>0. rows[m] # NULL /\ rows[m] \in Row
    BY <1>0, <1>2 DEF UpdateFlagsCmd, Present
  <2>1. RowGood(u, now)
    BY <1>0, <2>0, UpdateGood
  <2>2. /\ u.pending = TRUE /\ u.flags_server = rows[m].flags_server
        /\ u.is_read = IsRead(f) /\ u.is_starred = IsStarred(f)
    BY <2>0 DEF UpdateFlags, Row
  <2>3. u # NULL
    BY <2>1, NullAssumption DEF RowGood
  <2>4. Shown(u) = f
    BY <2>2, FlagsRoundTrip DEF Shown
  <2>5. rows' = [rows EXCEPT ![m] = u]
    BY <1>2 DEF UpdateFlagsCmd
  <2> HIDE DEF u
  <2>6. /\ PhaseOf(u) = "pending" /\ ShownOf(u) = f /\ BaseOf(u) = BaseOf(rows[m])
    BY <2>0, <2>2, <2>3, <2>4 DEF PhaseOf, ShownOf, BaseOf
  <2>7. /\ phN = [ph EXCEPT ![m] = "pending"]
        /\ shN = [sh EXCEPT ![m] = f]
        /\ baN = ba
    BY <1>0, <2>5, <2>6
  <2>8. ph[m] # "absent"
    BY <2>0 DEF PhaseOf
  <2>9. QED
    BY <2>7, <2>8 DEF Abstract!Toggle, Abstract!Cached, PhaseOf, ShownOf, BaseOf
<1>3. ASSUME NEW m \in Emails, NEW f \in Flags, ClearPendingOpCmd(m, f)
      PROVE  Abstract!Confirm(m, f)
  <2>1. rows[m] # NULL /\ rows' = [rows EXCEPT ![m] = Settled(f)]
    BY <1>3 DEF ClearPendingOpCmd, ClearPendingOp, Present
  <2>2. /\ phN = [ph EXCEPT ![m] = "idle"]
        /\ shN = [sh EXCEPT ![m] = f]
        /\ baN = [ba EXCEPT ![m] = f]
    BY <1>0, <2>1, SettledShows
  <2>3. ph[m] # "absent"
    BY <2>1 DEF PhaseOf
  <2>4. QED
    BY <2>2, <2>3
    DEF Abstract!Confirm, Abstract!Settle, Abstract!Cached, PhaseOf, ShownOf, BaseOf
<1>g. ASSUME NEW S \in SUBSET Emails,
             \A m \in S : rows[m] # NULL /\ rows'[m] = RevertPendingOp(rows[m]),
             \A m \in Emails \ S : rows'[m] = rows[m]
      PROVE  Abstract!GiveUp(S)
  <2>1. /\ phN = [m \in Emails |-> IF m \in S THEN "idle" ELSE ph[m]]
        /\ shN = [m \in Emails |-> IF m \in S THEN ba[m] ELSE sh[m]]
        /\ baN = ba
    BY <1>g, <1>r
  <2>2. \A m \in S : ph[m] # "absent"
    BY <1>g DEF PhaseOf
  <2>3. QED
    BY <2>1, <2>2 DEF Abstract!GiveUp, Abstract!Cached, PhaseOf, ShownOf, BaseOf
<1>4. ASSUME NEW m \in Emails, RevertPendingOpCmd(m)
      PROVE  Abstract!GiveUp({m})
  BY <1>0, <1>4, <1>g DEF RevertPendingOpCmd, Present
<1>5. ASSUME ExpirePendingOps
      PROVE  \E S \in SUBSET Emails : Abstract!GiveUp(S)
  <2>0. PICK S \in SUBSET Emails :
          S = {m \in Emails : m \in Present /\ IsExpired(rows[m], now, MaxAge)}
    OBVIOUS
  <2>1. \A m \in S : rows[m] # NULL /\ rows'[m] = RevertPendingOp(rows[m])
    BY <1>5, <2>0 DEF ExpirePendingOps, Present
  <2>2. \A m \in Emails \ S : rows'[m] = rows[m]
    BY <1>5, <2>0 DEF ExpirePendingOps
  <2>3. Abstract!GiveUp(S)
    BY <2>1, <2>2, <1>g
  <2>4. QED BY <2>3
<1>6. ASSUME NEW gone \in SUBSET Emails, RemoveMessages(gone)
      PROVE  \E none \in Batches : Abstract!Learn(gone, none)
  <2>0. PICK none : none = [m \in {} |-> 0]
    OBVIOUS
  <2>1. none \in [{} -> Flags]
    BY <2>0
  <2>2. none \in Batches /\ DOMAIN none = {}
    BY <2>1 DEF Batches
  <2> DEFINE left == [m \in Emails |-> IF m \in gone THEN NULL ELSE rows[m]]
  <2>3. rows' = [m \in Emails |->
                   IF m \in DOMAIN none THEN Upsert(left[m], none[m]) ELSE left[m]]
    BY <1>6, <2>2 DEF RemoveMessages
  <2>4. left \in [Emails -> Row \cup {NULL}]
    BY <1>0
  <2>5. \A m \in Emails : left[m] = IF m \in gone THEN NULL ELSE rows[m]
    OBVIOUS
  <2> HIDE DEF left
  <2>6. QED BY <1>l, <2>2, <2>3, <2>4, <2>5
<1>7. CASE Tick \/ UNCHANGED vars
  BY <1>7 DEF Tick, vars, Abstract!avars
<1>8. CASE Next /\ ~Tick
  <2>1. CASE \E batch \in Batches : SaveMessages(batch)
    <3>1. PICK batch \in Abstract!News : Abstract!Learn({}, batch)
      BY <2>1, <1>1, <1>n
    <3>2. {} \in SUBSET Emails
      OBVIOUS
    <3>3. QED BY <3>1, <3>2 DEF Abstract!ANext
  <2>d. CASE \E gone \in SUBSET Emails, batch \in Batches : DeltaEmailBatch(gone, batch)
    BY <2>d, <1>d, <1>n DEF Abstract!ANext
  <2>2. CASE \E m \in Emails, f \in Flags : UpdateFlagsCmd(m, f)
    BY <2>2, <1>2 DEF Abstract!ANext
  <2>3. CASE \E m \in Emails, f \in Flags : ClearPendingOpCmd(m, f)
    BY <2>3, <1>3 DEF Abstract!ANext
  <2>4. CASE \E m \in Emails : RevertPendingOpCmd(m)
    <3>1. PICK m \in Emails : RevertPendingOpCmd(m)
      BY <2>4
    <3>2. {m} \in SUBSET Emails /\ Abstract!GiveUp({m})
      BY <3>1, <1>4
    <3>3. QED BY <3>2 DEF Abstract!ANext
  <2>5. CASE ExpirePendingOps
    BY <2>5, <1>5 DEF Abstract!ANext
  <2>6. CASE \E gone \in SUBSET Emails : RemoveMessages(gone)
    BY <2>6, <1>6, <1>n DEF Abstract!ANext
  <2>7. QED
    BY <1>8, <2>1, <2>d, <2>2, <2>3, <2>4, <2>5, <2>6 DEF Next
<1>9. QED
  BY <1>7, <1>8

\* The columns implement the state machine of OptimisticFlags, which is the code's:
\* what is shown agrees with docs/cache.md, while a reversal returns to the server
\* flags from before the operation, which docs/cache.md:93 has overwritten.
THEOREM DualTruthRefines == Spec => ImplementsOptimisticFlags
BY RefinesInit, RefinesStep, DualTruthCorrect, PTL
   DEF Spec, ImplementsOptimisticFlags, Abstract!ASpec
=============================================================================
