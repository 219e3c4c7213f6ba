--------------------------- MODULE FlagFlow_proofs ---------------------------
(***************************************************************************)
(* Proofs about the round trip of a flag change, for any messages, age     *)
(* limit, bounds, restarts, lost replies and changes of other clients.     *)
(***************************************************************************)
EXTENDS FlagFlow, TLAPS

\* What an Email/get may have answered.
Copies == UNION {[S -> Flags] : S \in SUBSET Emails}

Syncs == [pc : {"idle", "changes", "get", "save"}, since : Nat, newState : Nat,
          destroyed : SUBSET Emails, wanted : SUBSET Emails, got : Copies]

Spents == [toggles : Nat, changes : Nat, crashes : Nat]

Types ==
  /\ TypeOK
  /\ sync \in Syncs /\ sync.newState <= sstate
  /\ spent \in Spents
  /\ \A op \in ops : op.n <= spent.toggles

\* What the one sync holds: the destroyed are gone, and not fetched.
SyncTrue ==
  /\ \A m \in sync.destroyed : ~server[m].alive /\ m \notin DOMAIN sync.got
  /\ sync.pc # "save" => sync.got = <<>>
  /\ sync.pc \in {"idle", "changes"} => sync.destroyed = {} /\ sync.wanted = {}
  /\ sync.wanted \cap sync.destroyed = {}

\* An operation in flight is the only one of its message.  Its row is as the user
\* left it, until it may expire; or it is gone, and no sync will bring it back.
OpTrue(op) ==
  /\ \A other \in ops : other.email = op.email => other = op
  /\ rows[op.email] = NULL => ~server[op.email].alive /\ op.email \notin DOMAIN sync.got
  /\ rows[op.email] # NULL /\ now <= op.sentAt + MaxAge =>
       /\ rows[op.email].pending
       /\ rows[op.email].flags_local = op.want
       /\ rows[op.email].pending_op_at = op.sentAt

IInv ==
  /\ Types /\ SyncTrue
  /\ \A op \in ops : OpTrue(op)

-----------------------------------------------------------------------------
\* Data.
LEMMA ConstantFacts ==
  /\ MaxAge \in Nat /\ MaxTime \in Nat /\ MaxToggles \in Nat
  /\ MaxChanges \in Nat /\ MaxCrashes \in Nat
  /\ NULL \notin Nat /\ NULL \notin Row
BY FlowAssumption, NullAssumption

LEMMA SettledTyped ==
  ASSUME NEW f \in Flags
  PROVE  Settled(f) \in Row
<1>1. IsRead(f) \in BOOLEAN /\ IsStarred(f) \in BOOLEAN
  BY DEF IsRead, IsStarred
<1> QED BY <1>1 DEF Settled, Row

LEMMA RowTyped ==
  ASSUME NEW r \in Row
  PROVE  /\ Effective(r) \in Flags
         /\ RevertPendingOp(r) \in Row
         /\ \A f \in Flags : Upsert(r, f) \in Row
         /\ \A f \in Flags, time \in Nat :
              LET u == UpdateFlags(r, f, time)
              IN  u \in Row /\ u.pending /\ u.flags_local = f /\ u.pending_op_at = time
<1>1. r.flags_server \in Flags /\ r.flags_local \in Flags /\ r.pending_op_at \in Nat \cup {NULL}
  BY DEF Row
<1>2. Effective(r) \in Flags
  BY <1>1 DEF Effective
<1>3. RevertPendingOp(r) \in Row
  BY <1>1, SettledTyped DEF RevertPendingOp
<1>4. ASSUME NEW f \in Flags PROVE Upsert(r, f) \in Row
  <2>1. IsRead(f) \in BOOLEAN /\ IsStarred(f) \in BOOLEAN
    BY DEF IsRead, IsStarred
  <2>2. [Settled(f) EXCEPT !.pending_op_at = r.pending_op_at] \in Row
    BY <1>1, <2>1 DEF Settled, Row
  <2>3. Settled(f) \in Row
    BY SettledTyped
  <2> QED BY <2>2, <2>3 DEF Upsert
<1>5. ASSUME NEW f \in Flags, NEW time \in Nat
      PROVE  LET u == UpdateFlags(r, f, time)
             IN  u \in Row /\ u.pending /\ u.flags_local = f /\ u.pending_op_at = time
  <2>1. IsRead(f) \in BOOLEAN /\ IsStarred(f) \in BOOLEAN
    BY DEF IsRead, IsStarred
  <2> QED BY <2>1 DEF UpdateFlags, Row
<1> QED BY <1>2, <1>3, <1>4, <1>5

\* A row that is not there is created by the upsert; one with an operation pending
\* is left as it is.
LEMMA UpsertFacts ==
  ASSUME NEW r \in Row \cup {NULL}, NEW f \in Flags
  PROVE  /\ Upsert(r, f) \in Row
         /\ Upsert(r, f) # NULL
         /\ r # NULL /\ r.pending => Upsert(r, f) = r
<1>1. Upsert(r, f) \in Row
  <2>1. CASE r = NULL
    BY <2>1, SettledTyped DEF Upsert
  <2>2. CASE r # NULL
    BY <2>2, RowTyped
  <2> QED BY <2>1, <2>2
<1> QED BY <1>1, ConstantFacts DEF Upsert

LEMMA BitTyped ==
  ASSUME NEW f \in Flags, NEW b \in Bits, NEW on \in BOOLEAN
  PROVE  WithBit(f, b, on) \in Flags /\ HasBit(f, b) \in BOOLEAN
<1>1. f \in {0, 1, 2, 3} /\ b \in {1, 2}
  BY DEF Flags, Bits
<1>2. /\ IsRead(0) = FALSE /\ IsRead(1) = TRUE /\ IsRead(2) = FALSE /\ IsRead(3) = TRUE
      /\ IsStarred(0) = FALSE /\ IsStarred(1) = FALSE /\ IsStarred(2) = TRUE /\ IsStarred(3) = TRUE
  BY DEF IsRead, IsStarred
<1>3. CASE b = 1
  <2>1. HasBit(f, b) = IsRead(f)
    BY <1>3 DEF HasBit
  <2>2. CASE HasBit(f, b) = on
    BY <1>1, <1>2, <2>1, <2>2 DEF WithBit
  <2>3. CASE HasBit(f, b) # on
    <3>1. WithBit(f, b, on) = IF on THEN f + 1 ELSE f - 1
      BY <1>3, <2>3 DEF WithBit
    <3>2. IF on THEN f \in {0, 2} ELSE f \in {1, 3}
      BY <1>1, <1>2, <2>1, <2>3
    <3>3. IF on THEN f + 1 \in 0..3 ELSE f - 1 \in 0..3
      BY <3>2
    <3> QED BY <1>1, <1>2, <2>1, <3>1, <3>3 DEF Flags
  <2> QED BY <2>2, <2>3
<1>4. CASE b = 2
  <2>1. HasBit(f, b) = IsStarred(f)
    BY <1>4 DEF HasBit
  <2>2. CASE HasBit(f, b) = on
    BY <1>1, <1>2, <2>1, <2>2 DEF WithBit
  <2>3. CASE HasBit(f, b) # on
    <3>1. WithBit(f, b, on) = IF on THEN f + 2 ELSE f - 2
      BY <1>4, <2>3 DEF WithBit
    <3>2. IF on THEN f \in {0, 1} ELSE f \in {2, 3}
      BY <1>1, <1>2, <2>1, <2>3
    <3>3. IF on THEN f + 2 \in 0..3 ELSE f - 2 \in 0..3
      BY <3>2
    <3> QED BY <1>1, <1>2, <2>1, <3>1, <3>3 DEF Flags
  <2> QED BY <2>2, <2>3
<1> QED BY <1>1, <1>3, <1>4

LEMMA NoCopies == <<>> \in Copies /\ DOMAIN <<>> = {}
<1>1. <<>> \in [{} -> Flags]
  OBVIOUS
<1> QED BY <1>1 DEF Copies

LEMMA CopyFacts ==
  ASSUME NEW got \in Copies
  PROVE  DOMAIN got \subseteq Emails /\ \A m \in DOMAIN got : got[m] \in Flags
BY DEF Copies

LEMMA IdleTyped == IdleSync \in Syncs
BY NoCopies DEF IdleSync, Syncs

LEMMA InitTrue == Init => IInv
<1> SUFFICES ASSUME Init PROVE IInv
  OBVIOUS
<1>1. sync \in Syncs /\ sync.newState = 0 /\ SyncTrue
  BY IdleTyped DEF Init, IdleSync, SyncTrue
<1>2. rows \in [Emails -> Row \cup {NULL}]
  BY SettledTyped DEF Init
<1>3. server \in [Emails -> [alive : BOOLEAN, flags : Flags, at : 0..sstate]]
  BY DEF Init
<1>4. TypeOK
  BY <1>1, <1>2, <1>3, ConstantFacts DEF Init, TypeOK, Syncs
<1>5. spent \in Spents
  BY DEF Init, Spents
<1> QED BY <1>1, <1>4, <1>5 DEF Init, IInv, Types

-----------------------------------------------------------------------------
\* Types.
Server(top) == [Emails -> [alive : BOOLEAN, flags : Flags, at : 0..top]]

\* The server's state only grows, and a message that is gone stays so.
ServerGrows ==
  /\ sstate' \in Nat /\ sstate <= sstate' /\ server' \in Server(sstate')
  /\ \A m \in Emails : server'[m].alive => server[m].alive

LEMMA ServerSame ==
  ASSUME Types, UNCHANGED <<server, sstate>>
  PROVE  ServerGrows
BY DEF Types, TypeOK, ServerGrows, Server

Message(top) == [alive : BOOLEAN, flags : Flags, at : 0..top]

LEMMA ServerWrites ==
  ASSUME Types, NEW m \in Emails, NEW new \in Message(sstate + 1), new.alive => server[m].alive,
         sstate' = sstate + 1, server' = [server EXCEPT ![m] = new]
  PROVE  ServerGrows
<1>1. sstate \in Nat /\ server \in Server(sstate)
  BY DEF Types, TypeOK, Server
<1>2. new \in Message(sstate')
  OBVIOUS
<1>3. ASSUME NEW n \in Emails, n # m
      PROVE  server'[n] = server[n] /\ server[n] \in Message(sstate')
  BY <1>1, <1>3 DEF Server, Message
<1>4. server'[m] = new
  BY <1>1 DEF Server
<1>5. \A n \in Emails : server'[n] \in Message(sstate')
  BY <1>2, <1>3, <1>4
<1>6. server' \in Server(sstate')
  BY <1>1, <1>5 DEF Server, Message
<1>7. \A n \in Emails : server'[n].alive => server[n].alive
  BY <1>3, <1>4
<1> QED BY <1>1, <1>6, <1>7 DEF ServerGrows

\* A message as the server has it, with two fields written.
LEMMA MessageWritten ==
  ASSUME Types, NEW m \in Emails, NEW f \in Flags
  PROVE  /\ server[m].flags \in Flags
         /\ LET new == [server[m] EXCEPT !.flags = f, !.at = sstate + 1]
            IN  new \in Message(sstate + 1) /\ (new.alive => server[m].alive)
         /\ LET new == [server[m] EXCEPT !.alive = FALSE, !.at = sstate + 1]
            IN  new \in Message(sstate + 1) /\ ~new.alive
<1> DEFINE changed == [server[m] EXCEPT !.flags = f, !.at = sstate + 1]
           destroyed == [server[m] EXCEPT !.alive = FALSE, !.at = sstate + 1]
<1>1. server[m] \in Message(sstate) /\ sstate \in Nat
  BY DEF Types, TypeOK, Message
<1>2. ASSUME NEW r \in Message(sstate)
      PROVE  /\ [r EXCEPT !.at = sstate + 1] \in Message(sstate + 1)
             /\ [r EXCEPT !.at = sstate + 1].alive = r.alive
  <2>1. sstate + 1 \in 0..sstate + 1 /\ r.at \in 0..sstate
    BY <1>1 DEF Message
  <2> QED BY <1>1, <2>1 DEF Message
<1>3. /\ [server[m] EXCEPT !.flags = f] \in Message(sstate)
      /\ [server[m] EXCEPT !.flags = f].alive = server[m].alive
  BY <1>1 DEF Message
<1>4. /\ [server[m] EXCEPT !.alive = FALSE] \in Message(sstate)
      /\ [server[m] EXCEPT !.alive = FALSE].alive = FALSE
  BY <1>1 DEF Message
<1>5. server[m].flags \in Flags
  BY <1>1 DEF Message
<1>6. changed \in Message(sstate + 1) /\ changed.alive = server[m].alive
  BY <1>2, <1>3
<1>7. destroyed \in Message(sstate + 1) /\ destroyed.alive = FALSE
  BY <1>2, <1>4
<1> HIDE DEF changed, destroyed
<1> QED BY <1>5, <1>6, <1>7 DEF changed, destroyed

LEMMA SetFlagsGrows ==
  ASSUME Types, NEW m \in Emails, NEW f \in Flags, SetFlags(m, f)
  PROVE  ServerGrows
<1>1. sstate \in Nat /\ server \in Server(sstate)
  BY DEF Types, TypeOK, Server
<1>2. CASE server[m].flags = f
  BY <1>2, ServerSame DEF SetFlags
<1>3. CASE server[m].flags # f
  <2>1. sstate' = sstate + 1 /\ server' = [server EXCEPT ![m] = [@ EXCEPT !.flags = f, !.at = sstate + 1]]
    BY <1>3 DEF SetFlags
  <2> QED BY <2>1, MessageWritten, ServerWrites
<1> QED BY <1>2, <1>3

LEMMA OtherClientEffect ==
  ASSUME Types, NEW m \in Emails, OtherClient(m)
  PROVE  ServerGrows /\ spent' \in Spents /\ spent'.toggles = spent.toggles
<1>1. spent' \in Spents /\ spent'.toggles = spent.toggles
  BY ConstantFacts DEF OtherClient, Types, Spents
<1>2. ASSUME NEW f \in Flags, SetFlags(m, f) PROVE ServerGrows
  BY <1>2, SetFlagsGrows
<1>3. CASE \A f \in Flags : ~SetFlags(m, f)
  <2>1. /\ sstate' = sstate + 1
        /\ server' = [server EXCEPT ![m] = [server[m] EXCEPT !.alive = FALSE, !.at = sstate + 1]]
    BY <1>3 DEF OtherClient
  <2>2. PICK new : new = [server[m] EXCEPT !.alive = FALSE, !.at = sstate + 1]
    OBVIOUS
  <2>3. 0 \in Flags
    BY DEF Flags
  <2>4. new \in Message(sstate + 1) /\ ~new.alive
    BY <2>2, <2>3, MessageWritten
  <2> QED BY <1>1, <2>1, <2>2, <2>4, ServerWrites
<1> QED BY <1>1, <1>2, <1>3

\* The server's answer to an operation, or the delay of it, changes nothing else.
LEMMA AnswerEffect ==
  ASSUME Types, NEW op \in ops, Applied(op) \/ Refused(op)
  PROVE  /\ ServerGrows
         /\ UNCHANGED <<rows, cursor, now, sync, spent>>
         /\ \E r \in {"ok", "notFound", "error"} : ops' = (ops \ {op}) \cup {[op EXCEPT !.reply = r]}
<1>1. op \in Op /\ op.email \in Emails /\ server[op.email].flags \in Flags
  BY DEF Types, TypeOK, Op
<1>2. CASE Applied(op)
  <2>1. WithBit(server[op.email].flags, op.bit, op.on) \in Flags
    BY <1>1, BitTyped DEF Op
  <2>2. ServerGrows
    BY <1>1, <1>2, <2>1, SetFlagsGrows DEF Applied
  <2> QED BY <1>2, <2>2 DEF Applied, Answer
<1>3. CASE Refused(op)
  BY <1>3, ServerSame DEF Refused, Answer
<1> QED BY <1>2, <1>3

\* A step of the server keeps the types of what it does not touch.
LEMMA ServerStepTypes ==
  ASSUME Types, ServerGrows, UNCHANGED <<rows, cursor, now, sync>>, spent' \in Spents,
         ops' \subseteq Op, \A op \in ops' : op.n <= spent'.toggles
  PROVE  Types'
<1>1. sstate \in Nat /\ sstate' \in Nat /\ sstate <= sstate' /\ cursor \in 0..sstate
      /\ sync.newState \in Nat /\ sync.newState <= sstate
  BY DEF Types, TypeOK, ServerGrows, Syncs
<1> QED BY <1>1 DEF Types, TypeOK, ServerGrows, Server

LEMMA OpFacts ==
  ASSUME NEW op \in Op, NEW r \in {"none", "ok", "notFound", "error"}
  PROVE  LET new == [op EXCEPT !.reply = r]
         IN  /\ new \in Op /\ new.email = op.email /\ new.n = op.n
             /\ new.want = op.want /\ new.sentAt = op.sentAt
BY DEF Op

\* What the user's operation does.
LEMMA ToggleEffect ==
  ASSUME Types, NEW m \in Emails, NEW b \in Bits, Toggle(m, b)
  PROVE  \E new \in Op :
           /\ new.email = m /\ new.sentAt = now /\ new.n = spent.toggles + 1
           /\ ops' = ops \cup {new}
           /\ rows[m] # NULL
           /\ rows' = [rows EXCEPT ![m] = UpdateFlags(rows[m], new.want, now)]
<1> DEFINE shown == Effective(rows[m])
           on == ~HasBit(shown, b)
           want == WithBit(shown, b, on)
           new == [email |-> m, n |-> spent.toggles + 1, bit |-> b, on |-> on, want |-> want,
                   sentAt |-> now, reply |-> "none"]
<1>1. rows[m] \in Row /\ now \in 0..MaxTime
  BY DEF Toggle, Types, TypeOK
<1>2. shown \in Flags
  BY <1>1, RowTyped
<1>3. HasBit(shown, b) \in BOOLEAN
  BY <1>2, BitTyped
<1>4. on \in BOOLEAN
  BY <1>3
<1>5. want \in Flags
  BY <1>2, <1>4, BitTyped
<1>6. spent.toggles + 1 \in 1..MaxToggles
  BY ConstantFacts DEF Toggle, Types, Spents
<1>7. /\ ops' = ops \cup {new} /\ rows[m] # NULL
      /\ rows' = [rows EXCEPT ![m] = UpdateFlags(rows[m], want, now)]
  BY DEF Toggle
<1> HIDE DEF shown, on, want
<1>8. new \in Op /\ new.email = m /\ new.sentAt = now /\ new.n = spent.toggles + 1 /\ new.want = want
  BY <1>1, <1>4, <1>5, <1>6 DEF Op
<1> HIDE DEF new
<1> QED BY <1>7, <1>8

LEMMA SyncStartEffect ==
  ASSUME Types, SyncStart
  PROVE  /\ UNCHANGED <<cursor, now, server, sstate, ops, spent>>
         /\ sync' \in Syncs /\ sync'.pc = "changes" /\ sync'.newState = sync.newState
         /\ sync'.destroyed = sync.destroyed /\ sync'.wanted = sync.wanted /\ sync'.got = sync.got
         /\ rows' \in [Emails -> Row \cup {NULL}]
         /\ \A m \in Emails : IF rows[m] # NULL /\ IsExpired(rows[m], now, MaxAge)
                              THEN rows'[m] \in Row ELSE rows'[m] = rows[m]
<1>1. cursor \in Nat /\ sync \in Syncs
  BY DEF Types, TypeOK
<1>2. sync' = [sync EXCEPT !.pc = "changes", !.since = cursor]
  BY DEF SyncStart
<1>3. /\ sync' \in Syncs /\ sync'.pc = "changes" /\ sync'.newState = sync.newState
      /\ sync'.destroyed = sync.destroyed /\ sync'.wanted = sync.wanted /\ sync'.got = sync.got
  BY <1>1, <1>2 DEF Syncs
<1>4. ASSUME NEW m \in Emails, rows[m] # NULL PROVE RevertPendingOp(rows[m]) \in Row
  BY <1>4, RowTyped DEF Types, TypeOK
<1>5. /\ rows' \in [Emails -> Row \cup {NULL}]
      /\ \A m \in Emails : IF rows[m] # NULL /\ IsExpired(rows[m], now, MaxAge)
                           THEN rows'[m] \in Row ELSE rows'[m] = rows[m]
  BY <1>4 DEF SyncStart, Types, TypeOK
<1>6. UNCHANGED <<cursor, now, server, sstate, ops, spent>>
  BY DEF SyncStart
<1> QED BY <1>3, <1>5, <1>6

LEMMA SyncChangesEffect ==
  ASSUME Types, SyncChanges
  PROVE  /\ UNCHANGED <<rows, cursor, now, server, sstate, ops, spent>>
         /\ sync' \in Syncs /\ sync'.pc = "get" /\ sync'.newState = sstate /\ sync'.got = sync.got
         /\ \A m \in sync'.destroyed : m \in Emails /\ ~server[m].alive
         /\ \A m \in sync'.wanted : m \in Emails /\ server[m].alive
<1> DEFINE changed == {m \in Emails : server[m].at > sync.since}
           d == {m \in changed : ~server[m].alive}
           w == {m \in changed : server[m].alive}
<1>1. sync' = [sync EXCEPT !.pc = "get", !.newState = sstate, !.destroyed = d, !.wanted = w]
  BY DEF SyncChanges
<1>2. d \in SUBSET Emails /\ w \in SUBSET Emails /\ sstate \in Nat /\ sync \in Syncs
  BY DEF Types, TypeOK
<1>3. (\A m \in d : m \in Emails /\ ~server[m].alive) /\ (\A m \in w : m \in Emails /\ server[m].alive)
  OBVIOUS
<1> HIDE DEF d, w
<1>4. /\ sync' \in Syncs /\ sync'.pc = "get" /\ sync'.newState = sstate /\ sync'.got = sync.got
      /\ sync'.destroyed = d /\ sync'.wanted = w
  BY <1>1, <1>2 DEF Syncs
<1>5. UNCHANGED <<rows, cursor, now, server, sstate, ops, spent>>
  BY DEF SyncChanges
<1> QED BY <1>3, <1>4, <1>5

LEMMA SyncGetEffect ==
  ASSUME Types, SyncGet
  PROVE  /\ UNCHANGED <<rows, cursor, now, server, sstate, ops, spent>>
         /\ sync' \in Syncs /\ sync'.pc = "save" /\ sync'.newState = sync.newState
         /\ sync'.destroyed = sync.destroyed /\ sync'.wanted = sync.wanted
         /\ \A m \in DOMAIN sync'.got : m \in sync.wanted /\ server[m].alive
<1> DEFINE alive == {w \in sync.wanted : server[w].alive}
           g == [m \in alive |-> server[m].flags]
<1>1. sync' = [sync EXCEPT !.pc = "save", !.got = g]
  BY DEF SyncGet
<1>2. sync \in Syncs /\ sync.wanted \subseteq Emails
  BY DEF Types, TypeOK
<1>3. \A m \in alive : server[m].flags \in Flags
  BY <1>2 DEF Types, TypeOK
<1>4. g \in Copies
  <2>1. alive \in SUBSET Emails
    BY <1>2
  <2>2. g \in [alive -> Flags]
    BY <1>3
  <2> HIDE DEF alive, g
  <2> QED BY <2>1, <2>2 DEF Copies
<1>5. \A m \in DOMAIN g : m \in sync.wanted /\ server[m].alive
  OBVIOUS
<1> HIDE DEF g
<1>6. /\ sync' \in Syncs /\ sync'.pc = "save" /\ sync'.newState = sync.newState /\ sync'.got = g
      /\ sync'.destroyed = sync.destroyed /\ sync'.wanted = sync.wanted
  BY <1>1, <1>2, <1>4 DEF Syncs
<1>7. UNCHANGED <<rows, cursor, now, server, sstate, ops, spent>>
  BY DEF SyncGet
<1> QED BY <1>5, <1>6, <1>7

\* The one transaction of the delta: gone, as it was, or upserted.
LEMMA SyncSaveEffect ==
  ASSUME Types, SyncSave
  PROVE  /\ UNCHANGED <<now, server, sstate, ops, spent>>
         /\ cursor' = sync.newState /\ sync' = IdleSync
         /\ rows' \in [Emails -> Row \cup {NULL}]
         /\ \A m \in Emails :
              /\ m \notin sync.destroyed /\ rows[m] # NULL /\ rows[m].pending => rows'[m] = rows[m]
              /\ rows'[m] = NULL => rows[m] = NULL \/ m \in sync.destroyed
              /\ (rows[m] = NULL \/ m \in sync.destroyed) /\ m \notin DOMAIN sync.got => rows'[m] = NULL
<1>1. ASSUME NEW m \in Emails
      PROVE  /\ rows'[m] \in Row \cup {NULL}
             /\ m \notin sync.destroyed /\ rows[m] # NULL /\ rows[m].pending => rows'[m] = rows[m]
             /\ rows'[m] = NULL => rows[m] = NULL \/ m \in sync.destroyed
             /\ (rows[m] = NULL \/ m \in sync.destroyed) /\ m \notin DOMAIN sync.got => rows'[m] = NULL
  <2>1. rows[m] \in Row \cup {NULL} /\ sync.got \in Copies
    BY DEF Types, TypeOK, Syncs
  <2>2. CASE m \in DOMAIN sync.got
    <3>1. sync.got[m] \in Flags
      BY <2>1, <2>2, CopyFacts
    <3>2. PICK r \in Row \cup {NULL} : r = IF m \in sync.destroyed THEN NULL ELSE rows[m]
      BY <2>1
    <3>3. rows'[m] = Upsert(r, sync.got[m])
      BY <2>2, <3>2 DEF SyncSave
    <3> QED BY <2>2, <3>1, <3>2, <3>3, UpsertFacts
  <2>3. CASE m \notin DOMAIN sync.got
    BY <2>1, <2>3 DEF SyncSave
  <2> QED BY <2>2, <2>3
<1>2. rows' \in [Emails -> Row \cup {NULL}]
  BY <1>1 DEF SyncSave
<1> QED BY <1>1, <1>2 DEF SyncSave

\* The reply at the front end.
LEMMA ConcludeEffect ==
  ASSUME Types, NEW op \in ops, Conclude(op)
  PROVE  /\ UNCHANGED <<cursor, now, server, sstate, sync, spent>>
         /\ ops' = ops \ {op}
         /\ rows' \in [Emails -> Row \cup {NULL}]
         /\ \A m \in Emails : m # op.email => rows'[m] = rows[m]
<1>1. op \in Op /\ op.email \in Emails /\ op.want \in Flags
  BY DEF Types, TypeOK, Op
<1>2. ClearPendingOp(op.want) \in Row
  BY <1>1, SettledTyped DEF ClearPendingOp
<1>3. rows[op.email] # NULL => RevertPendingOp(rows[op.email]) \in Row
  BY <1>1, RowTyped DEF Types, TypeOK
<1> QED BY <1>1, <1>2, <1>3 DEF Conclude, Types, TypeOK

\* A step of the front end or of the sync keeps the types of what it does not touch.
LEMMA ClientStepTypes ==
  ASSUME Types, UNCHANGED <<server, sstate>>,
         rows' \in [Emails -> Row \cup {NULL}], cursor' \in 0..sstate, now' \in 0..MaxTime,
         sync' \in Syncs, sync'.newState <= sstate, spent' \in Spents,
         ops' \subseteq Op, \A op \in ops' : op.n <= spent'.toggles
  PROVE  Types'
<1>1. /\ sync'.pc \in {"idle", "changes", "get", "save"}
      /\ sync'.destroyed \subseteq Emails /\ sync'.wanted \subseteq Emails
  BY DEF Syncs
<1> QED BY <1>1 DEF Types, TypeOK

LEMMA AnsweredOps ==
  ASSUME Types, NEW op \in ops, NEW r \in {"ok", "notFound", "error"},
         ops' = (ops \ {op}) \cup {[op EXCEPT !.reply = r]}, spent' = spent
  PROVE  ops' \subseteq Op /\ \A o \in ops' : o.n <= spent'.toggles
<1>1. PICK new : new = [op EXCEPT !.reply = r]
  OBVIOUS
<1>2. ops \subseteq Op /\ \A o \in ops : o.n <= spent.toggles
  BY DEF Types, TypeOK
<1>3. new \in Op /\ new.n = op.n
  BY <1>1, <1>2, OpFacts
<1> QED BY <1>1, <1>2, <1>3

LEMMA ToggleTypes ==
  ASSUME Types, NEW m \in Emails, NEW b \in Bits, Toggle(m, b)
  PROVE  Types'
<1>1. PICK new \in Op :
        /\ new.email = m /\ new.sentAt = now /\ new.n = spent.toggles + 1
        /\ ops' = ops \cup {new}
        /\ rows[m] # NULL
        /\ rows' = [rows EXCEPT ![m] = UpdateFlags(rows[m], new.want, now)]
  BY ToggleEffect
<1>2. UNCHANGED <<cursor, now, server, sstate, sync>> /\ spent' = [spent EXCEPT !.toggles = @ + 1]
  BY DEF Toggle
<1>3. /\ rows \in [Emails -> Row \cup {NULL}] /\ now \in 0..MaxTime /\ ops \subseteq Op
      /\ sync \in Syncs /\ sync.newState <= sstate /\ cursor \in 0..sstate
      /\ spent \in Spents /\ \A op \in ops : op.n \in Nat /\ op.n <= spent.toggles
  BY DEF Types, TypeOK, Op
<1>4. spent' \in Spents /\ spent'.toggles = spent.toggles + 1 /\ spent.toggles \in Nat
  BY <1>2, <1>3 DEF Spents
<1>5. new.want \in Flags /\ now \in Nat
  BY <1>3, ConstantFacts DEF Op
<1>6. rows[m] \in Row
  BY <1>1, <1>3
<1>7. UpdateFlags(rows[m], new.want, now) \in Row
  BY <1>5, <1>6, RowTyped
<1>8. rows' \in [Emails -> Row \cup {NULL}]
  BY <1>1, <1>3, <1>7
<1>9. ops' \subseteq Op /\ \A op \in ops' : op.n <= spent'.toggles
  BY <1>1, <1>3, <1>4
<1> QED BY <1>2, <1>3, <1>4, <1>8, <1>9, ClientStepTypes

LEMMA StepTypes == Types /\ [Next]_vars => Types'
<1> SUFFICES ASSUME Types, [Next]_vars PROVE Types'
  OBVIOUS
<1>1. /\ rows \in [Emails -> Row \cup {NULL}] /\ now \in 0..MaxTime /\ ops \subseteq Op
      /\ sync \in Syncs /\ sync.newState \in Nat /\ sync.newState <= sstate
      /\ cursor \in 0..sstate /\ sstate \in Nat
      /\ spent \in Spents /\ \A op \in ops : op.n <= spent.toggles
  BY DEF Types, TypeOK, Syncs
<1>2. IdleSync \in Syncs /\ IdleSync.newState = 0
  BY IdleTyped DEF IdleSync
<1>3. ASSUME NEW m \in Emails, OtherClient(m) PROVE Types'
  <2>1. ServerGrows /\ spent' \in Spents /\ spent'.toggles = spent.toggles
    BY <1>3, OtherClientEffect
  <2>2. UNCHANGED <<rows, cursor, now, ops, sync>>
    BY <1>3 DEF OtherClient
  <2>3. ops' \subseteq Op /\ \A op \in ops' : op.n <= spent'.toggles
    BY <1>1, <2>1, <2>2
  <2> QED BY <2>1, <2>2, <2>3, ServerStepTypes
<1>4. ASSUME NEW op \in ops, Applied(op) \/ Refused(op) PROVE Types'
  <2>1. ServerGrows /\ UNCHANGED <<rows, cursor, now, sync, spent>>
    BY <1>4, AnswerEffect
  <2>2. ops' \subseteq Op /\ \A o \in ops' : o.n <= spent'.toggles
    BY <1>4, AnswerEffect, AnsweredOps
  <2> QED BY <1>1, <2>1, <2>2, ServerStepTypes
<1>5. ASSUME NEW m \in Emails, NEW b \in Bits, Toggle(m, b) PROVE Types'
  BY <1>5, ToggleTypes
<1>6. ASSUME NEW op \in ops, Conclude(op) PROVE Types'
  <2>1. /\ UNCHANGED <<cursor, now, server, sstate, sync, spent>> /\ ops' = ops \ {op}
        /\ rows' \in [Emails -> Row \cup {NULL}]
    BY <1>6, ConcludeEffect
  <2>2. ops' \subseteq Op /\ \A o \in ops' : o.n <= spent'.toggles
    BY <1>1, <2>1
  <2> QED BY <1>1, <2>1, <2>2, ClientStepTypes
<1>7. CASE SyncStart
  <2>1. /\ UNCHANGED <<cursor, now, server, sstate, ops, spent>>
        /\ sync' \in Syncs /\ sync'.newState = sync.newState
        /\ rows' \in [Emails -> Row \cup {NULL}]
    BY <1>7, SyncStartEffect
  <2> QED BY <1>1, <2>1, ClientStepTypes
<1>8. CASE SyncChanges
  <2>1. /\ UNCHANGED <<rows, cursor, now, server, sstate, ops, spent>>
        /\ sync' \in Syncs /\ sync'.newState = sstate
    BY <1>8, SyncChangesEffect
  <2> QED BY <1>1, <2>1, ClientStepTypes
<1>9. CASE SyncGet
  <2>1. /\ UNCHANGED <<rows, cursor, now, server, sstate, ops, spent>>
        /\ sync' \in Syncs /\ sync'.newState = sync.newState
    BY <1>9, SyncGetEffect
  <2> QED BY <1>1, <2>1, ClientStepTypes
<1>10. CASE SyncSave
  <2>1. /\ UNCHANGED <<now, server, sstate, ops, spent>>
        /\ cursor' = sync.newState /\ sync' = IdleSync
        /\ rows' \in [Emails -> Row \cup {NULL}]
    BY <1>10, SyncSaveEffect
  <2>2. cursor' \in 0..sstate /\ sync' \in Syncs /\ sync'.newState <= sstate
    BY <1>1, <1>2, <2>1
  <2> QED BY <1>1, <2>1, <2>2, ClientStepTypes
<1>11. CASE SyncFail
  <2>1. UNCHANGED <<rows, cursor, now, server, sstate, ops, spent>> /\ sync' = IdleSync
    BY <1>11 DEF SyncFail
  <2>2. sync' \in Syncs /\ sync'.newState <= sstate
    BY <1>1, <1>2, <2>1
  <2> QED BY <1>1, <2>1, <2>2, ClientStepTypes
<1>12. CASE Crash
  <2>1. /\ UNCHANGED <<rows, cursor, now, server, sstate>> /\ sync' = IdleSync /\ ops' = {}
        /\ spent' = [spent EXCEPT !.crashes = @ + 1]
    BY <1>12 DEF Crash
  <2>2. sync' \in Syncs /\ sync'.newState <= sstate /\ spent' \in Spents
    BY <1>1, <1>2, <2>1 DEF Spents
  <2> QED BY <1>1, <2>1, <2>2, ClientStepTypes
<1>13. CASE Tick
  <2>1. UNCHANGED <<rows, cursor, server, sstate, ops, sync, spent>> /\ now < MaxTime /\ now' = now + 1
    BY <1>13 DEF Tick
  <2>2. now' \in 0..MaxTime
    BY <1>1, <2>1, ConstantFacts
  <2> QED BY <1>1, <2>1, <2>2, ClientStepTypes
<1>14. CASE UNCHANGED vars
  <2>1. UNCHANGED <<rows, cursor, now, server, sstate, ops, sync, spent>>
    BY <1>14 DEF vars
  <2> QED BY <1>1, <2>1, ClientStepTypes
<1> QED BY <1>3, <1>4, <1>5, <1>6, <1>7, <1>8, <1>9, <1>10, <1>11, <1>12, <1>13, <1>14 DEF Next

LEMMA TypesAlways == Spec => []Types
<1>1. Init => Types
  BY InitTrue DEF IInv
<1> QED BY <1>1, StepTypes, PTL DEF Spec

\* Every variable keeps its type: the cursor never runs ahead of the server's state,
\* and a row is NULL or a row of the table, whatever replies, syncs, restarts and
\* changes of other clients come in whatever order.
THEOREM FlagFlowTyped == Spec => []TypeOK
<1>1. Types => TypeOK
  BY DEF Types
<1> QED BY <1>1, TypesAlways, PTL

-----------------------------------------------------------------------------
\* The user's operation in flight.

\* A server step touches neither the rows nor the sync; the dead stay dead.
LEMMA ServerStepSync ==
  ASSUME IInv, ServerGrows, UNCHANGED sync
  PROVE  SyncTrue'
<1>1. \A m \in sync.destroyed : m \in Emails
  BY DEF IInv, Types, TypeOK
<1> QED BY <1>1 DEF IInv, SyncTrue, ServerGrows

\* An operation is as true as before when its row is, or is gone for good.
LEMMA OpStands ==
  ASSUME IInv, ServerGrows, now' \in Nat, now <= now',
         NEW op \in ops, NEW new \in Op,
         new.email = op.email, new.want = op.want, new.sentAt = op.sentAt,
         \A other \in ops' : other.email = new.email => other = new,
         rows[op.email] = NULL => rows'[op.email] = NULL,
         rows'[op.email] = NULL => ~server[op.email].alive /\ op.email \notin DOMAIN sync'.got,
         rows[op.email] # NULL /\ now <= op.sentAt + MaxAge => rows'[op.email] \in {NULL, rows[op.email]}
  PROVE  OpTrue(new)'
<1>1. op.email \in Emails /\ op.sentAt \in Nat /\ now \in Nat
  BY ConstantFacts DEF IInv, Types, TypeOK, Op
<1>2. OpTrue(op)
  BY DEF IInv
<1>3. rows'[new.email] = NULL => ~server'[new.email].alive /\ new.email \notin DOMAIN sync'.got
  BY <1>1 DEF ServerGrows
<1>4. now' <= new.sentAt + MaxAge => now <= op.sentAt + MaxAge
  BY <1>1, ConstantFacts
<1>5. ASSUME rows'[new.email] # NULL, now' <= new.sentAt + MaxAge
      PROVE  rows'[new.email].pending /\ rows'[new.email].flags_local = new.want
             /\ rows'[new.email].pending_op_at = new.sentAt
  BY <1>2, <1>4, <1>5 DEF OpTrue
<1> QED BY <1>3, <1>5 DEF OpTrue

\* The operations as they were: rows, sync and clock decide.
LEMMA OpsStand ==
  ASSUME IInv, UNCHANGED <<server, sstate, ops>>, now' \in Nat, now <= now',
         \A op \in ops :
           /\ rows[op.email] = NULL => rows'[op.email] = NULL
           /\ rows'[op.email] = NULL => ~server[op.email].alive /\ op.email \notin DOMAIN sync'.got
           /\ rows[op.email] # NULL /\ now <= op.sentAt + MaxAge => rows'[op.email] \in {NULL, rows[op.email]}
  PROVE  \A op \in ops' : OpTrue(op)'
<1> SUFFICES ASSUME NEW op \in ops' PROVE OpTrue(op)'
  OBVIOUS
<1>1. op \in ops /\ op \in Op /\ ServerGrows
  BY ServerSame DEF IInv, Types, TypeOK
<1>2. \A other \in ops' : other.email = op.email => other = op
  BY <1>1 DEF IInv, OpTrue
<1> QED BY <1>1, <1>2, OpStands

LEMMA Facts ==
  ASSUME IInv
  PROVE  /\ now \in Nat /\ ops \subseteq Op /\ sync \in Syncs
         /\ \A op \in ops :
              /\ op.email \in Emails /\ op.sentAt \in Nat
              /\ \A other \in ops : other.email = op.email => other = op
              /\ rows[op.email] = NULL => ~server[op.email].alive /\ op.email \notin DOMAIN sync.got
BY ConstantFacts DEF IInv, Types, TypeOK, Op, OpTrue

LEMMA OtherClientKeeps ==
  ASSUME IInv, NEW m \in Emails, OtherClient(m)
  PROVE  SyncTrue' /\ \A op \in ops' : OpTrue(op)'
<1>1. ServerGrows /\ UNCHANGED <<rows, cursor, now, ops, sync>>
  BY OtherClientEffect DEF OtherClient, IInv
<1>2. ASSUME NEW op \in ops' PROVE OpTrue(op)'
  <2>1. op \in ops /\ op \in Op
    BY <1>1, Facts
  <2> QED BY <1>1, <2>1, Facts, OpStands
<1> QED BY <1>1, <1>2, ServerStepSync

LEMMA AnswerKeeps ==
  ASSUME IInv, NEW op \in ops, Applied(op) \/ Refused(op)
  PROVE  SyncTrue' /\ \A o \in ops' : OpTrue(o)'
<1>1. ServerGrows /\ UNCHANGED <<rows, cursor, now, sync, spent>>
  BY AnswerEffect DEF IInv
<1>2. PICK r \in {"ok", "notFound", "error"} : ops' = (ops \ {op}) \cup {[op EXCEPT !.reply = r]}
  BY AnswerEffect DEF IInv
<1>3. PICK new : new = [op EXCEPT !.reply = r]
  OBVIOUS
<1>4. /\ new \in Op /\ new.email = op.email /\ new.want = op.want /\ new.sentAt = op.sentAt
  <2>1. op \in Op /\ r \in {"none", "ok", "notFound", "error"}
    BY Facts
  <2> QED BY <1>3, <2>1 DEF Op
<1>5. ops' = (ops \ {op}) \cup {new}
  BY <1>2, <1>3
<1>6. \A o, other \in ops' : other.email = o.email => other = o
  BY <1>4, <1>5, Facts
<1>7. OpTrue(new)'
  BY <1>1, <1>4, <1>5, <1>6, Facts, OpStands
<1>8. ASSUME NEW o \in ops', o # new PROVE OpTrue(o)'
  <2>1. o \in ops /\ o \in Op
    BY <1>5, <1>8, Facts
  <2> QED BY <1>1, <1>6, <2>1, Facts, OpStands
<1> QED BY <1>1, <1>7, <1>8, ServerStepSync

LEMMA ToggleKeeps ==
  ASSUME IInv, Serial, NEW m \in Emails, NEW b \in Bits, Toggle(m, b)
  PROVE  SyncTrue' /\ \A op \in ops' : OpTrue(op)'
<1>1. PICK new \in Op :
        /\ new.email = m /\ new.sentAt = now /\ new.n = spent.toggles + 1
        /\ ops' = ops \cup {new}
        /\ rows[m] # NULL
        /\ rows' = [rows EXCEPT ![m] = UpdateFlags(rows[m], new.want, now)]
  BY ToggleEffect DEF IInv
<1>2. UNCHANGED <<cursor, now, server, sstate, sync>> /\ \A op \in ops : op.email # m
  BY DEF Toggle
<1>3. rows \in [Emails -> Row \cup {NULL}] /\ now \in Nat /\ new.want \in Flags
  BY Facts DEF IInv, Types, TypeOK, Op
<1>4. rows[m] \in Row
  BY <1>1, <1>3
<1>5. PICK row : row = UpdateFlags(rows[m], new.want, now)
  OBVIOUS
<1>6. row \in Row /\ row.pending /\ row.flags_local = new.want /\ row.pending_op_at = now
  BY <1>3, <1>4, <1>5, RowTyped
<1>7. rows'[m] = row /\ \A n \in Emails : n # m => rows'[n] = rows[n]
  BY <1>1, <1>3, <1>5
<1>8. \A o, other \in ops' : other.email = o.email => other = o
  BY <1>1, <1>2, Facts
<1>9. OpTrue(new)'
  BY <1>1, <1>6, <1>7, <1>8, ConstantFacts DEF OpTrue
<1>10. ServerGrows /\ SyncTrue'
  BY <1>2, ServerSame, ServerStepSync DEF IInv
<1>11. ASSUME NEW op \in ops', op # new PROVE OpTrue(op)'
  <2>1. op \in ops /\ op \in Op /\ op.email \in Emails /\ op.email # m
    BY <1>1, <1>2, <1>11, Facts
  <2>2. rows'[op.email] = rows[op.email]
    BY <1>7, <2>1
  <2> QED BY <1>2, <1>8, <1>10, <2>1, <2>2, Facts, OpStands
<1> QED BY <1>9, <1>10, <1>11

LEMMA ConcludeKeeps ==
  ASSUME IInv, NEW op \in ops, Conclude(op)
  PROVE  SyncTrue' /\ \A o \in ops' : OpTrue(o)'
<1>1. /\ UNCHANGED <<cursor, now, server, sstate, sync, spent>>
      /\ ops' = ops \ {op}
      /\ \A m \in Emails : m # op.email => rows'[m] = rows[m]
  BY ConcludeEffect DEF IInv
<1>2. ServerGrows /\ SyncTrue'
  BY <1>1, ServerSame, ServerStepSync DEF IInv
<1>3. ASSUME NEW o \in ops' PROVE OpTrue(o)'
  <2>1. o \in ops /\ o \in Op /\ o.email \in Emails /\ o.email # op.email
    BY <1>1, Facts
  <2>2. rows'[o.email] = rows[o.email]
    BY <1>1, <2>1
  <2>3. \A other \in ops' : other.email = o.email => other = o
    BY <1>1, <2>1, Facts
  <2> QED BY <1>1, <1>2, <2>1, <2>2, <2>3, Facts, OpStands
<1> QED BY <1>2, <1>3

LEMMA SyncStartKeeps ==
  ASSUME IInv, SyncStart
  PROVE  SyncTrue' /\ \A op \in ops' : OpTrue(op)'
<1>1. /\ UNCHANGED <<cursor, now, server, sstate, ops, spent>>
      /\ sync'.pc = "changes"
      /\ sync'.destroyed = sync.destroyed /\ sync'.wanted = sync.wanted /\ sync'.got = sync.got
      /\ \A m \in Emails : IF rows[m] # NULL /\ IsExpired(rows[m], now, MaxAge)
                           THEN rows'[m] \in Row ELSE rows'[m] = rows[m]
  BY SyncStartEffect DEF IInv
<1>2. SyncTrue'
  BY <1>1 DEF IInv, SyncTrue, SyncStart
<1>3. ASSUME NEW op \in ops
      PROVE  /\ rows[op.email] = NULL => rows'[op.email] = NULL
             /\ rows'[op.email] = NULL => ~server[op.email].alive /\ op.email \notin DOMAIN sync'.got
             /\ rows[op.email] # NULL /\ now <= op.sentAt + MaxAge => rows'[op.email] \in {NULL, rows[op.email]}
  <2>1. op.email \in Emails /\ op.sentAt \in Nat /\ now \in Nat
        /\ (rows[op.email] = NULL => ~server[op.email].alive /\ op.email \notin DOMAIN sync.got)
    BY Facts
  <2>2. rows'[op.email] = NULL => rows[op.email] = NULL
    BY <1>1, <2>1, ConstantFacts
  <2>3. rows[op.email] # NULL /\ now <= op.sentAt + MaxAge => rows[op.email].pending_op_at = op.sentAt
    BY DEF IInv, OpTrue
  <2>4. rows[op.email] # NULL /\ now <= op.sentAt + MaxAge => ~IsExpired(rows[op.email], now, MaxAge)
    BY <2>1, <2>3, ConstantFacts DEF IsExpired
  <2> QED BY <1>1, <2>1, <2>2, <2>4
<1> QED BY <1>1, <1>2, <1>3, Facts, OpsStand

LEMMA SyncChangesKeeps ==
  ASSUME IInv, SyncChanges
  PROVE  SyncTrue' /\ \A op \in ops' : OpTrue(op)'
<1>1. /\ UNCHANGED <<rows, cursor, now, server, sstate, ops, spent>>
      /\ sync'.pc = "get" /\ sync'.got = sync.got
      /\ \A m \in sync'.destroyed : m \in Emails /\ ~server[m].alive
      /\ \A m \in sync'.wanted : m \in Emails /\ server[m].alive
  BY SyncChangesEffect DEF IInv
<1>2. sync.got = <<>>
  BY DEF IInv, SyncTrue, SyncChanges
<1>3. SyncTrue'
  BY <1>1, <1>2, NoCopies DEF SyncTrue
<1> QED BY <1>1, <1>3, Facts, OpsStand

LEMMA SyncGetKeeps ==
  ASSUME IInv, SyncGet
  PROVE  SyncTrue' /\ \A op \in ops' : OpTrue(op)'
<1>1. /\ UNCHANGED <<rows, cursor, now, server, sstate, ops, spent>>
      /\ sync'.pc = "save"
      /\ sync'.destroyed = sync.destroyed /\ sync'.wanted = sync.wanted
      /\ \A m \in DOMAIN sync'.got : m \in sync.wanted /\ server[m].alive
  BY SyncGetEffect DEF IInv
<1>2. SyncTrue'
  BY <1>1 DEF IInv, SyncTrue
<1> QED BY <1>1, <1>2, Facts, OpsStand

LEMMA IdleTrue ==
  ASSUME sync' = IdleSync
  PROVE  SyncTrue' /\ DOMAIN sync'.got = {}
BY NoCopies DEF SyncTrue, IdleSync

LEMMA SyncSaveKeeps ==
  ASSUME IInv, SyncSave
  PROVE  SyncTrue' /\ \A op \in ops' : OpTrue(op)'
<1>1. /\ UNCHANGED <<now, server, sstate, ops, spent>>
      /\ sync' = IdleSync
      /\ \A m \in Emails :
           /\ m \notin sync.destroyed /\ rows[m] # NULL /\ rows[m].pending => rows'[m] = rows[m]
           /\ rows'[m] = NULL => rows[m] = NULL \/ m \in sync.destroyed
           /\ (rows[m] = NULL \/ m \in sync.destroyed) /\ m \notin DOMAIN sync.got => rows'[m] = NULL
  BY SyncSaveEffect DEF IInv
<1>2. \A m \in sync.destroyed : ~server[m].alive /\ m \notin DOMAIN sync.got
  BY DEF IInv, SyncTrue
<1>3. SyncTrue' /\ DOMAIN sync'.got = {}
  BY <1>1, IdleTrue
<1>4. ASSUME NEW op \in ops
      PROVE  /\ rows[op.email] = NULL => rows'[op.email] = NULL
             /\ rows'[op.email] = NULL => ~server[op.email].alive /\ op.email \notin DOMAIN sync'.got
             /\ rows[op.email] # NULL /\ now <= op.sentAt + MaxAge => rows'[op.email] \in {NULL, rows[op.email]}
  <2>1. op.email \in Emails
        /\ (rows[op.email] = NULL => ~server[op.email].alive /\ op.email \notin DOMAIN sync.got)
    BY Facts
  <2>2. rows[op.email] # NULL /\ now <= op.sentAt + MaxAge => rows[op.email].pending
    BY DEF IInv, OpTrue
  <2>3. CASE op.email \in sync.destroyed
    BY <1>1, <1>2, <1>3, <2>1, <2>3
  <2>4. CASE op.email \notin sync.destroyed
    BY <1>1, <1>3, <2>1, <2>2, <2>4
  <2> QED BY <2>3, <2>4
<1> QED BY <1>1, <1>3, <1>4, Facts, OpsStand

\* Nothing but the sync or the clock moves.
LEMMA QuietKeeps ==
  ASSUME IInv, UNCHANGED <<rows, server, sstate, ops>>, now' \in Nat, now <= now',
         sync' = IdleSync \/ sync' = sync
  PROVE  SyncTrue' /\ \A op \in ops' : OpTrue(op)'
<1>1. SyncTrue' /\ DOMAIN sync'.got \subseteq DOMAIN sync.got
  <2>1. CASE sync' = IdleSync
    BY <2>1, IdleTrue
  <2>2. CASE sync' = sync
    BY <2>2, ServerSame, ServerStepSync DEF IInv
  <2> QED BY <2>1, <2>2
<1> QED BY <1>1, Facts, OpsStand

LEMMA StepTrue == Serial /\ IInv /\ [Next]_vars => IInv'
<1> SUFFICES ASSUME Serial, IInv, [Next]_vars PROVE SyncTrue' /\ \A op \in ops' : OpTrue(op)'
  BY StepTypes DEF IInv
<1>1. now \in Nat
  BY Facts
<1>2. ASSUME NEW m \in Emails, OtherClient(m) PROVE SyncTrue' /\ \A op \in ops' : OpTrue(op)'
  BY <1>2, OtherClientKeeps
<1>3. ASSUME NEW op \in ops, Applied(op) \/ Refused(op)
      PROVE  SyncTrue' /\ \A o \in ops' : OpTrue(o)'
  BY <1>3, AnswerKeeps
<1>4. ASSUME NEW m \in Emails, NEW b \in Bits, Toggle(m, b)
      PROVE  SyncTrue' /\ \A op \in ops' : OpTrue(op)'
  BY <1>4, ToggleKeeps
<1>5. ASSUME NEW op \in ops, Conclude(op) PROVE SyncTrue' /\ \A o \in ops' : OpTrue(o)'
  BY <1>5, ConcludeKeeps
<1>6. CASE SyncFail
  BY <1>1, <1>6, QuietKeeps DEF SyncFail
<1>7. CASE Crash
  <2>1. sync' = IdleSync /\ ops' = {}
    BY <1>7 DEF Crash
  <2> QED BY <2>1, IdleTrue
<1>8. CASE Tick
  <2>1. now' \in Nat /\ now <= now'
    BY <1>1, <1>8 DEF Tick
  <2> QED BY <1>8, <2>1, QuietKeeps DEF Tick
<1>9. CASE UNCHANGED vars
  BY <1>1, <1>9, QuietKeeps DEF vars
<1> QED BY <1>2, <1>3, <1>4, <1>5, <1>6, <1>7, <1>8, <1>9, SyncStartKeeps, SyncChangesKeeps,
           SyncGetKeeps, SyncSaveKeeps DEF Next

\* OptimismHonoured, for a front end that has one operation per message in flight:
\* until it is MaxAge old the row, if the message exists, shows what the user asked
\* for, whatever syncs, lost replies, other clients and restarts do meanwhile.
THEOREM OptimismIsHonoured == Serial => (Spec => []OptimismHonoured)
<1> SUFFICES ASSUME Serial PROVE Spec => []OptimismHonoured
  OBVIOUS
<1>1. IInv => OptimismHonoured
  BY DEF IInv, OpTrue, OptimismHonoured, Effective
<1>2. IInv /\ [Next]_vars => IInv'
  BY StepTrue
<1> QED BY <1>1, <1>2, InitTrue, PTL DEF Spec

-----------------------------------------------------------------------------
\* The store under the flow, with what DualTruth_proofs proves about it.
Proved == INSTANCE DualTruth_proofs

\* The instance's columns are these columns.
LEMMA SameRow ==
  /\ Proved!Flags = Flags /\ Store!Flags = Flags
  /\ Proved!Row = Row
  /\ NULL \notin Nat /\ NULL \notin Proved!Row
BY NullAssumption DEF Proved!Flags, Store!Flags, Flags, Proved!Row, Row

\* And its statements these statements.
LEMMA SameStatements ==
  /\ \A f : Proved!Settled(f) = Settled(f)
  /\ \A r, f : Proved!Upsert(r, f) = Upsert(r, f)
  /\ \A r, f, t : Proved!UpdateFlags(r, f, t) = UpdateFlags(r, f, t)
  /\ \A f : Proved!ClearPendingOp(f) = ClearPendingOp(f)
  /\ \A r : Proved!RevertPendingOp(r) = RevertPendingOp(r)
  /\ \A r, t, a : Proved!IsExpired(r, t, a) = IsExpired(r, t, a)
<1>1. \A f : Proved!Settled(f) = Settled(f)
  BY DEF Proved!Settled, Settled, Proved!IsRead, IsRead, Proved!IsStarred, IsStarred
<1>2. \A r, f : Proved!Upsert(r, f) = Upsert(r, f)
  BY <1>1 DEF Proved!Upsert, Upsert
<1>3. \A r, f, t : Proved!UpdateFlags(r, f, t) = UpdateFlags(r, f, t)
  BY DEF Proved!UpdateFlags, UpdateFlags, Proved!IsRead, IsRead, Proved!IsStarred, IsStarred
<1>4. \A f : Proved!ClearPendingOp(f) = ClearPendingOp(f)
  BY <1>1 DEF Proved!ClearPendingOp, ClearPendingOp
<1>5. \A r : Proved!RevertPendingOp(r) = RevertPendingOp(r)
  BY <1>1 DEF Proved!RevertPendingOp, RevertPendingOp
<1>6. \A r, t, a : Proved!IsExpired(r, t, a) = IsExpired(r, t, a)
  BY DEF Proved!IsExpired, IsExpired
<1> QED BY <1>1, <1>2, <1>3, <1>4, <1>5, <1>6

\* The flow begins with a settled table.
LEMMA FlowInit == Init => Proved!Init
<1> SUFFICES ASSUME Init PROVE Proved!Init
  OBVIOUS
<1>1. PICK f \in [Emails -> Flags] : rows = [m \in Emails |-> Settled(f[m])]
  BY DEF Init
<1>2. rows \in [Emails -> {Proved!Settled(g) : g \in Proved!Flags} \cup {NULL}]
  BY <1>1, SameRow, SameStatements
<1> QED BY <1>2 DEF Init, Proved!Init

\* Each step of the flow sends the store one command, or none.
LEMMA FlowStep == Types /\ [Next]_vars => [Proved!Next]_(Proved!vars)
<1> SUFFICES ASSUME Types, [Next]_vars PROVE [Proved!Next]_(Proved!vars)
  OBVIOUS
<1>1. /\ rows \in [Emails -> Row \cup {NULL}] /\ now \in 0..MaxTime /\ ops \subseteq Op
      /\ sync \in Syncs
  BY DEF Types, TypeOK
<1>2. ASSUME UNCHANGED <<rows, now>> PROVE UNCHANGED Proved!vars
  BY <1>2 DEF Proved!vars
<1>3. ASSUME NEW m \in Emails, OtherClient(m) PROVE UNCHANGED <<rows, now>>
  BY <1>3 DEF OtherClient
<1>4. ASSUME NEW op \in ops, Applied(op) \/ Refused(op) PROVE UNCHANGED <<rows, now>>
  BY <1>4 DEF Applied, Refused, Answer
<1>5. ASSUME NEW m \in Emails, NEW b \in Bits, Toggle(m, b)
      PROVE  \E f \in Proved!Flags : Proved!UpdateFlagsCmd(m, f)
  <2>1. PICK new \in Op :
          rows[m] # NULL /\ rows' = [rows EXCEPT ![m] = UpdateFlags(rows[m], new.want, now)]
    BY <1>5, ToggleEffect
  <2>2. new.want \in Flags /\ now' = now
    BY <1>5 DEF Op, Toggle
  <2>3. Proved!UpdateFlagsCmd(m, new.want)
    BY <2>1, <2>2, SameStatements DEF Proved!UpdateFlagsCmd, Proved!Present
  <2> QED BY <2>2, <2>3, SameRow
<1>6. ASSUME NEW op \in ops, Conclude(op)
      PROVE  [Proved!Next]_(Proved!vars)
  <2>1. op.email \in Emails /\ op.want \in Flags
    BY <1>1 DEF Op
  <2> DEFINE m == op.email
  <2>2. now' = now
    BY <1>6 DEF Conclude
  <2>3. CASE rows[m] = NULL
    <3>1. rows' = rows
      BY <1>1, <1>6, <2>1, <2>3 DEF Conclude
    <3> QED BY <1>2, <2>2, <3>1
  <2>4. CASE rows[m] # NULL /\ op.reply = "notFound"
    <3>1. rows' = [n \in Emails |-> IF n \in {m} THEN NULL ELSE rows[n]]
      BY <1>1, <1>6, <2>1, <2>4 DEF Conclude
    <3>2. Proved!RemoveMessages({m})
      BY <2>2, <3>1 DEF Proved!RemoveMessages
    <3>3. {m} \in SUBSET Emails
      BY <2>1
    <3> QED BY <3>2, <3>3 DEF Proved!Next
  <2>5. CASE rows[m] # NULL /\ op.reply = "ok"
    <3>1. rows' = [rows EXCEPT ![m] = ClearPendingOp(op.want)]
      BY <1>6, <2>5 DEF Conclude
    <3>2. Proved!ClearPendingOpCmd(m, op.want)
      BY <2>1, <2>2, <2>5, <3>1, SameStatements DEF Proved!ClearPendingOpCmd, Proved!Present
    <3> QED BY <2>1, <3>2, SameRow DEF Proved!Next
  <2>6. CASE rows[m] # NULL /\ op.reply \notin {"ok", "notFound"}
    <3>1. rows' = [rows EXCEPT ![m] = RevertPendingOp(rows[m])]
      BY <1>6, <2>6 DEF Conclude
    <3>2. Proved!RevertPendingOpCmd(m)
      BY <2>1, <2>2, <2>6, <3>1, SameStatements DEF Proved!RevertPendingOpCmd, Proved!Present
    <3> QED BY <2>1, <3>2 DEF Proved!Next
  <2> QED BY <2>3, <2>4, <2>5, <2>6
<1>7. ASSUME SyncStart PROVE Proved!ExpirePendingOps
  BY <1>7, SameStatements DEF SyncStart, Proved!ExpirePendingOps, Proved!Present
<1>8. ASSUME SyncSave
      PROVE  \E gone \in SUBSET Emails, batch \in Proved!Batches : Proved!DeltaEmailBatch(gone, batch)
  <2>1. sync.got \in Proved!Batches /\ sync.destroyed \in SUBSET Emails
    BY <1>1, SameRow DEF Syncs, Copies, Proved!Batches
  <2>2. DOMAIN sync.got \subseteq Emails
    BY <1>1, CopyFacts DEF Syncs
  <2>3. Proved!DeltaEmailBatch(sync.destroyed, sync.got)
    BY <1>8, <2>2, SameStatements DEF SyncSave, Proved!DeltaEmailBatch
  <2> QED BY <2>1, <2>3
<1>9. ASSUME Tick PROVE Proved!Tick
  BY <1>9 DEF Tick, Proved!Tick
<1>10. ASSUME SyncChanges \/ SyncGet \/ SyncFail \/ Crash \/ UNCHANGED vars
       PROVE  UNCHANGED <<rows, now>>
  BY <1>10 DEF SyncChanges, SyncGet, SyncFail, Crash, vars
<1> QED
  <2>1. CASE \E m \in Emails, b \in Bits : Toggle(m, b)
    BY <2>1, <1>5 DEF Proved!Next
  <2>2. CASE SyncStart \/ SyncSave \/ Tick
    BY <2>2, <1>7, <1>8, <1>9 DEF Proved!Next
  <2>3. CASE \/ \E m \in Emails : OtherClient(m)
             \/ \E op \in ops : Applied(op) \/ Refused(op)
             \/ SyncChanges \/ SyncGet \/ SyncFail \/ Crash \/ UNCHANGED vars
    BY <2>3, <1>2, <1>3, <1>4, <1>10
  <2> QED BY <2>1, <2>2, <2>3, <1>6 DEF Next

\* So what is proved of the store alone holds under the flow.
LEMMA StoreKept == Spec => []Proved!DualTruthInv
<1>1. Init => Proved!DualTruthInv
  BY FlowInit, Proved!InitInv, SameRow, ConstantFacts
<1>2. Types /\ Proved!DualTruthInv /\ [Next]_vars => Proved!DualTruthInv'
  BY FlowStep, Proved!StepInv, SameRow, ConstantFacts
<1> QED BY <1>1, <1>2, TypesAlways, PTL DEF Spec

\* The promise is the same in both instances.
LEMMA SamePromise ==
  /\ Proved!Abstract!AInit => Store!Abstract!AInit
  /\ [Proved!Abstract!ANext]_(Proved!Abstract!avars) => [Store!Abstract!ANext]_(Store!Abstract!avars)
<1>1. \A r : Proved!Shown(r) = Store!Shown(r)
  BY DEF Proved!Shown, Store!Shown, Proved!flags_to_u8, Store!flags_to_u8
<1>2. Proved!Abstract!AInit => Store!Abstract!AInit
  BY <1>1, SameRow DEF Proved!Abstract!AInit, Store!Abstract!AInit
<1>3. Proved!Abstract!avars = Store!Abstract!avars
  BY <1>1 DEF Proved!Abstract!avars, Store!Abstract!avars
<1>4. Proved!Abstract!avars' = Store!Abstract!avars'
  BY <1>1 DEF Proved!Abstract!avars, Store!Abstract!avars
<1>5. ASSUME NEW m, NEW f, Proved!Abstract!Toggle(m, f) PROVE Store!Abstract!Toggle(m, f)
  BY <1>5
  DEF Proved!Shown, Store!Shown, Proved!flags_to_u8, Store!flags_to_u8,
      Proved!Abstract!Toggle, Store!Abstract!Toggle,
      Proved!Abstract!Cached, Store!Abstract!Cached
<1>6. ASSUME NEW m, NEW f, Proved!Abstract!Confirm(m, f) PROVE Store!Abstract!Confirm(m, f)
  BY <1>6
  DEF Proved!Shown, Store!Shown, Proved!flags_to_u8, Store!flags_to_u8,
      Proved!Abstract!Confirm, Store!Abstract!Confirm,
      Proved!Abstract!Settle, Store!Abstract!Settle,
      Proved!Abstract!Cached, Store!Abstract!Cached
<1>7. ASSUME NEW S, Proved!Abstract!GiveUp(S) PROVE Store!Abstract!GiveUp(S)
  BY <1>7
  DEF Proved!Shown, Store!Shown, Proved!flags_to_u8, Store!flags_to_u8,
      Proved!Abstract!GiveUp, Store!Abstract!GiveUp,
      Proved!Abstract!Cached, Store!Abstract!Cached
<1>8. ASSUME NEW gone, NEW news, Proved!Abstract!Learn(gone, news)
      PROVE  Store!Abstract!Learn(gone, news)
  BY <1>8, SameRow
  DEF Proved!Shown, Store!Shown, Proved!flags_to_u8, Store!flags_to_u8,
      Proved!Abstract!Learn, Store!Abstract!Learn
<1>9. Proved!Abstract!News = Store!Abstract!News
  BY SameRow DEF Proved!Abstract!News, Store!Abstract!News
<1>10. Proved!Abstract!ANext => Store!Abstract!ANext
  BY <1>5, <1>6, <1>7, <1>8, <1>9, SameRow DEF Proved!Abstract!ANext, Store!Abstract!ANext
<1> QED BY <1>2, <1>3, <1>4, <1>10

\* The state machine of OptimisticFlags, over the whole round trip of a flag change:
\* the flow's requests, replies, syncs and restarts never take a message out of it.
\* It is the code's: a reversal returns to the flags_server that the upsert kept,
\* not to what docs/cache.md:93 has it updated to.
THEOREM FlagFlowRefines == Spec => FlowImplementsOptimisticFlags
<1>1. Init => Store!Abstract!AInit
  BY FlowInit, Proved!RefinesInit, SamePromise, SameRow, ConstantFacts
<1>2. Types /\ Proved!DualTruthInv /\ [Next]_vars => [Store!Abstract!ANext]_(Store!Abstract!avars)
  BY FlowStep, Proved!RefinesStep, SamePromise, SameRow, ConstantFacts
<1> QED
  BY <1>1, <1>2, TypesAlways, StoreKept, PTL
  DEF Spec, FlowImplementsOptimisticFlags, Store!ImplementsOptimisticFlags, Store!Abstract!ASpec
=============================================================================
