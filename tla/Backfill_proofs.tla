-------------------------- MODULE Backfill_proofs --------------------------
(***************************************************************************)
(* Proofs about email sync, in two parts.                                  *)
(*                                                                         *)
(* sync_emails: its types, for any number of calls at once; and, for one   *)
(* call at a time, that nothing behind the cursor is stale or missing, be  *)
(* it in the folders of an account whose log the server keeps or in one    *)
(* folder whose head sync comes again when the log is forgotten.           *)
(*                                                                         *)
(* backfill_batch: its types, whatever runs at once; that a row stays true *)
(* while Email/changes answers; and that what the progress row says is     *)
(* behind the walk is in the cache, while batches and syncs take turns,    *)
(* for any history, page size and limit.                                   *)
(***************************************************************************)
EXTENDS Backfill, FiniteSetTheorems, WellFoundedInduction, TLAPS

-----------------------------------------------------------------------------
\* sync_emails.

\* What an Email/get may have answered.
Answers == UNION {[S -> Content] : S \in SUBSET Emails}

\* What a call may be at.
Calls ==
  [pc : {"idle"}]
    \cup [pc : {"query"}, box : Mailboxes]
    \cup [pc : {"populated"}, box : Mailboxes, since : Nat]
    \cup [pc : {"changes"}, box : Mailboxes, since : Nat, round : Nat]
    \cup [pc : {"get"}, box : Mailboxes, round : Nat, since : Nat, more : BOOLEAN,
          destroyed : SUBSET Emails, ids : SUBSET Emails]
    \cup [pc : {"save"}, box : Mailboxes, round : Nat, since : Nat, more : BOOLEAN,
          destroyed : SUBSET Emails, got : Answers]
    \cup [pc : {"saveHead", "progress", "prune"}, box : Mailboxes, since : Nat, got : Answers]

Holding == {"populated", "changes", "get", "save", "saveHead", "progress", "prune"}

Environments ==
  [fresh : BOOLEAN, open : SUBSET Mailboxes, crashes : Nat, fails : Nat, forgets : Nat]

\* TypeOK, the calls, and that no call holds a token the server has not reached.
Types ==
  /\ TypeOK
  /\ task \in [Tasks -> Calls]
  /\ env \in Environments
  /\ \A t \in Tasks : task[t].pc \in Holding => task[t].since <= Token

-----------------------------------------------------------------------------
\* Types.
LEMMA CallFacts ==
  ASSUME NEW s \in Calls
  PROVE  /\ s.pc \in {"idle", "query"} \cup Holding
         /\ s.pc # "idle" => s.box \in Mailboxes
         /\ s.pc \in Holding => s.since \in Nat
         /\ s.pc \in {"changes", "get", "save"} => s.round \in Nat
         /\ s.pc \in {"get", "save"} => s.more \in BOOLEAN /\ s.destroyed \in SUBSET Emails
         /\ s.pc = "get" => s.ids \in SUBSET Emails
         /\ s.pc \in {"save", "saveHead", "progress", "prune"} => s.got \in Answers
BY DEF Calls, Holding

LEMMA AnswerFacts ==
  ASSUME NEW got \in Answers
  PROVE  DOMAIN got \subseteq Emails /\ \A m \in DOMAIN got : got[m] \in Content
BY DEF Answers

LEMMA GetTyped ==
  ASSUME ServerTypeOK, NEW ids \in SUBSET Emails
  PROVE  /\ Get(ids) \in Answers
         /\ DOMAIN Get(ids) = {m \in ids : mail[m] # NULL}
         /\ \A m \in DOMAIN Get(ids) : Get(ids)[m] = mail[m]
<1> DEFINE S == ids \cap Alive
<1>1. S \in SUBSET Emails /\ S = {m \in ids : mail[m] # NULL}
  BY DEF Alive
<1>2. \A m \in S : mail[m] \in Content
  BY <1>1 DEF ServerTypeOK
<1>3. Get(ids) = [m \in S |-> mail[m]]
  BY DEF Get
<1> QED BY <1>1, <1>2, <1>3 DEF Answers

LEMMA PageInBox ==
  ASSUME NEW b, NEW p, NEW k
  PROVE  Page(b, p, k) \in SUBSET Emails /\ Page(b, p, k) \subseteq InBox(b)
BY DEF Page, InBox, Alive

LEMMA TableTyped ==
  ASSUME NEW tab \in [Emails -> Content \cup {NULL}]
  PROVE  /\ \A got \in Answers : Save(tab, got) \in [Emails -> Content \cup {NULL}]
         /\ \A ids : Delete(tab, ids) \in [Emails -> Content \cup {NULL}]
         /\ \A b, live : Prune(tab, b, live) \in [Emails -> Content \cup {NULL}]
<1>1. \A got \in Answers : Save(tab, got) \in [Emails -> Content \cup {NULL}]
  BY AnswerFacts DEF Save
<1>2. \A ids : Delete(tab, ids) \in [Emails -> Content \cup {NULL}]
  BY DEF Delete
<1>3. ASSUME NEW b, NEW c \in Content, b \in c.boxes
      PROVE  LeaveBox(c, b) \in Content \cup {NULL}
  BY <1>3 DEF LeaveBox, Content
<1>4. ASSUME NEW b, NEW live, NEW m \in Emails, tab[m] # NULL, b \in tab[m].boxes
      PROVE  LeaveBox(tab[m], b) \in Content \cup {NULL}
  BY <1>3, <1>4
<1>5. \A b, live : Prune(tab, b, live) \in [Emails -> Content \cup {NULL}]
  BY <1>4 DEF Prune
<1> QED BY <1>1, <1>2, <1>5

\* The server's log grows.
LEMMA RecordTyped ==
  ASSUME ServerTypeOK, NEW m \in Emails, NEW k \in {"created", "updated", "destroyed"},
         NEW c \in Content \cup {NULL}, Record(m, k, c)
  PROVE  ServerTypeOK' /\ Token' = Token + 1 /\ Token \in Nat
<1>1. [id |-> m, kind |-> k] \in Change
  BY DEF Change
<1>2. log' \in Seq(Change) /\ Len(log') = Len(log) + 1 /\ Len(log) \in Nat
  BY <1>1 DEF Record, ServerTypeOK
<1>3. mail' \in [Emails -> Content \cup {NULL}]
  BY DEF Record, ServerTypeOK
<1> QED BY <1>2, <1>3 DEF ServerTypeOK, Record, Token

LEMMA ServerTyped ==
  ASSUME ServerTypeOK, ServerChange
  PROVE  ServerTypeOK' /\ Token' = Token + 1 /\ Token \in Nat
<1>1. CASE \E m \in Emails, c \in Content : ServerCreate(m, c) \/ ServerUpdate(m, c)
  BY <1>1, RecordTyped DEF ServerCreate, ServerUpdate
<1>2. CASE \E m \in Emails : ServerDestroy(m)
  BY <1>2, RecordTyped DEF ServerDestroy
<1> QED BY <1>1, <1>2 DEF ServerChange

\* The records of a call's states.
LEMMA CallRecords ==
  ASSUME NEW b \in Mailboxes, NEW n \in Nat, NEW r \in Nat, NEW more \in BOOLEAN,
         NEW ids \in SUBSET Emails, NEW destroyed \in SUBSET Emails, NEW got \in Answers
  PROVE  /\ Idle \in Calls
         /\ [pc |-> "query", box |-> b] \in Calls
         /\ [pc |-> "populated", box |-> b, since |-> n] \in Calls
         /\ [pc |-> "changes", box |-> b, since |-> n, round |-> r] \in Calls
         /\ [pc |-> "get", box |-> b, round |-> r, since |-> n, more |-> more,
             destroyed |-> destroyed, ids |-> ids] \in Calls
         /\ [pc |-> "save", box |-> b, round |-> r, since |-> n, more |-> more,
             destroyed |-> destroyed, got |-> got] \in Calls
         /\ [pc |-> "saveHead", box |-> b, since |-> n, got |-> got] \in Calls
<1>1. Idle \in Calls
  BY DEF Calls, Idle
<1>2. [pc |-> "query", box |-> b] \in Calls
  BY DEF Calls
<1>3. [pc |-> "populated", box |-> b, since |-> n] \in Calls
  BY DEF Calls
<1>4. [pc |-> "changes", box |-> b, since |-> n, round |-> r] \in Calls
  BY DEF Calls
<1>5. [pc |-> "get", box |-> b, round |-> r, since |-> n, more |-> more,
       destroyed |-> destroyed, ids |-> ids] \in Calls
  BY DEF Calls
<1>6. [pc |-> "save", box |-> b, round |-> r, since |-> n, more |-> more,
       destroyed |-> destroyed, got |-> got] \in Calls
  BY DEF Calls
<1>7. [pc |-> "saveHead", box |-> b, since |-> n, got |-> got] \in Calls
  BY DEF Calls
<1> QED BY <1>1, <1>2, <1>3, <1>4, <1>5, <1>6, <1>7

\* A head sync moves on to its prune with what it has.
LEMMA HeadMovesOn ==
  ASSUME NEW s \in Calls, s.pc \in {"saveHead", "progress", "prune"}, NEW pc \in {"progress", "prune"}
  PROVE  LET n == [s EXCEPT !.pc = pc]
         IN  n \in Calls /\ n.pc = pc /\ n.box = s.box /\ n.since = s.since /\ n.got = s.got
<1>1. s \in [pc : {"saveHead", "progress", "prune"}, box : Mailboxes, since : Nat, got : Answers]
  BY DEF Calls
<1> QED BY <1>1 DEF Calls

\* One call goes on, the others stay as they are.
LEMMA GoTyped ==
  ASSUME Types, NEW t \in Tasks, NEW s \in Calls, Go(t, s), UNCHANGED serverVars,
         s.pc \in Holding => s.since <= Token
  PROVE  /\ task' \in [Tasks -> Calls]
         /\ \A u \in Tasks : task'[u].pc \in Holding => task'[u].since <= Token'
         /\ task'[t] = s /\ \A u \in Tasks : u # t => task'[u] = task[u]
<1>1. task' = [task EXCEPT ![t] = s] /\ task \in [Tasks -> Calls]
  BY DEF Go, Types
<1>2. Token' = Token
  BY DEF serverVars, Token
<1> QED BY <1>1, <1>2 DEF Types

LEMMA SameServer == UNCHANGED serverVars /\ ServerTypeOK => ServerTypeOK' /\ Token' = Token
BY DEF serverVars, ServerTypeOK, Token

\* A step that changes no table.
LEMMA TablesKept ==
  ASSUME TypeOK, UNCHANGED <<serverVars, cacheVars>>
  PROVE  TypeOK'
<1>1. ServerTypeOK' /\ Token' = Token
  BY SameServer DEF TypeOK
<1> QED BY <1>1 DEF TypeOK, cacheVars

LEMMA TokenNat == ServerTypeOK => Token \in Nat /\ horizon \in 0..Token
BY DEF ServerTypeOK, Token

LEMMA InitTypes == Init => Types
<1> SUFFICES ASSUME Init PROVE Types
  OBVIOUS
<1>1. ServerTypeOK /\ Token = 0
  BY SyncAssumption DEF Init, ServerTypeOK, Token
<1>2. TypeOK
  BY <1>1, SyncAssumption DEF Init, TypeOK, ServerTypeOK
<1>3. env \in Environments
  BY SyncAssumption DEF Init, Environments
<1>4. task \in [Tasks -> Calls] /\ \A t \in Tasks : task[t].pc = "idle"
  BY DEF Init, Calls, Idle
<1> QED BY <1>2, <1>3, <1>4 DEF Types, Holding

-----------------------------------------------------------------------------
\* Every step keeps the types.
LEMMA LogTyped ==
  ASSUME ServerTypeOK
  PROVE  /\ Token \in Nat
         /\ \A i \in 1..Token : /\ log[i].id \in Emails
                               /\ log[i].kind \in {"created", "updated", "destroyed"}
<1>1. Len(log) \in Nat /\ \A i \in 1..Len(log) : log[i] \in Change
  BY DEF ServerTypeOK
<1> QED BY <1>1 DEF Token, Change

LEMMA WindowTyped ==
  ASSUME ServerTypeOK, NEW since \in Nat, NEW upto \in NextTokens(since), since <= Token
  PROVE  /\ upto \in Nat /\ since <= upto /\ upto <= Token
         /\ Touched(since, upto) \in SUBSET Emails
         /\ Destroyed(since, upto) \in SUBSET Emails
<1>1. Token \in Nat /\ \A i \in 1..Token : log[i].id \in Emails
  BY LogTyped
<1>2. upto \in Nat /\ since <= upto /\ upto <= Token
  BY <1>1 DEF NextTokens
<1>3. \A i \in since + 1 .. upto : i \in 1..Token
  BY <1>1, <1>2
<1> QED BY <1>1, <1>2, <1>3 DEF Touched, Destroyed

LEMMA StartTyped ==
  ASSUME Types, NEW t \in Tasks, NEW b \in env.open, Start(t, b)
  PROVE  Types'
<1>1. b \in Mailboxes /\ cursor \in 0..Token \cup {NULL} /\ Token \in Nat
  BY TokenNat DEF Types, TypeOK, Environments
<1> DEFINE n == IF cursor = NULL THEN [pc |-> "query", box |-> b]
                ELSE [pc |-> "populated", box |-> b, since |-> cursor]
<1>2. n \in Calls /\ (n.pc \in Holding => n.since <= Token)
  BY <1>1 DEF Calls, Holding
<1>3. TypeOK'
  BY TablesKept DEF Start, Types
<1>4. UNCHANGED serverVars /\ Go(t, n) /\ env' = env
  BY DEF Start
<1> HIDE DEF n
<1>5. task' \in [Tasks -> Calls] /\ \A u \in Tasks : task'[u].pc \in Holding => task'[u].since <= Token'
  BY <1>2, <1>4, GoTyped
<1> QED BY <1>3, <1>4, <1>5 DEF Types

LEMMA CheckPopulatedTyped ==
  ASSUME Types, NEW t \in Tasks, CheckPopulated(t)
  PROVE  Types'
<1> DEFINE s == task[t]
<1> DEFINE n == IF s.box \in populated
                THEN [pc |-> "changes", box |-> s.box, since |-> s.since, round |-> 1]
                ELSE [pc |-> "query", box |-> s.box]
<1>1. s \in Calls /\ s.pc = "populated" /\ s.since <= Token
  BY DEF Types, CheckPopulated, Holding
<1>2. s.box \in Mailboxes /\ s.since \in Nat
  BY <1>1, CallFacts DEF Holding
<1>3. n \in Calls /\ (n.pc \in Holding => n.since <= Token)
  BY <1>1, <1>2 DEF Calls, Holding
<1>4. TypeOK' /\ UNCHANGED serverVars /\ Go(t, n) /\ env' = env
  BY TablesKept DEF CheckPopulated, Types
<1> HIDE DEF n, s
<1>5. task' \in [Tasks -> Calls] /\ \A u \in Tasks : task'[u].pc \in Holding => task'[u].since <= Token'
  BY <1>3, <1>4, GoTyped
<1> QED BY <1>4, <1>5 DEF Types

LEMMA ChangesTyped ==
  ASSUME Types, NEW t \in Tasks, Changes(t)
  PROVE  Types'
<1> DEFINE s == task[t]
<1>1. s \in Calls /\ s.pc = "changes" /\ s.since <= Token
  BY DEF Types, Changes, Holding
<1>2. s.box \in Mailboxes /\ s.since \in Nat /\ s.round \in Nat
  BY <1>1, CallFacts DEF Holding
<1>3. TypeOK' /\ UNCHANGED serverVars /\ env' = env /\ ServerTypeOK
  BY TablesKept DEF Changes, Types, TypeOK
<1>4. CASE s.since < horizon
  <2>1. Go(t, [pc |-> "query", box |-> s.box])
    BY <1>4 DEF Changes
  <2>2. [pc |-> "query", box |-> s.box] \in Calls
    BY <1>2 DEF Calls
  <2> HIDE DEF s
  <2>3. task' \in [Tasks -> Calls] /\ \A u \in Tasks : task'[u].pc \in Holding => task'[u].since <= Token'
    BY <1>3, <2>1, <2>2, GoTyped DEF Holding
  <2> QED BY <1>3, <2>3 DEF Types
<1>5. CASE ~(s.since < horizon)
  <2>1. PICK upto \in NextTokens(s.since) :
             Go(t, [pc |-> "get", box |-> s.box, round |-> s.round,
                    since |-> upto, more |-> upto < Token,
                    destroyed |-> Destroyed(s.since, upto),
                    ids |-> Touched(s.since, upto) \ Destroyed(s.since, upto)])
    BY <1>5 DEF Changes
  <2> DEFINE n == [pc |-> "get", box |-> s.box, round |-> s.round,
                   since |-> upto, more |-> upto < Token,
                   destroyed |-> Destroyed(s.since, upto),
                   ids |-> Touched(s.since, upto) \ Destroyed(s.since, upto)]
  <2>2. upto \in Nat /\ upto <= Token /\ Touched(s.since, upto) \in SUBSET Emails
        /\ Destroyed(s.since, upto) \in SUBSET Emails
    BY <1>1, <1>2, <1>3, WindowTyped
  <2>3. (upto < Token) \in BOOLEAN
    OBVIOUS
  <2>4. n \in Calls
    BY <1>2, <2>2, <2>3 DEF Calls
  <2>5. n.since <= Token
    BY <2>2
  <2> HIDE DEF n, s
  <2>6. task' \in [Tasks -> Calls] /\ \A u \in Tasks : task'[u].pc \in Holding => task'[u].since <= Token'
    BY <1>3, <2>1, <2>4, <2>5, GoTyped DEF n, s
  <2> QED BY <1>3, <2>6 DEF Types
<1> QED BY <1>4, <1>5

LEMMA GetSummariesTyped ==
  ASSUME Types, NEW t \in Tasks, GetSummaries(t)
  PROVE  Types'
<1> DEFINE s == task[t]
<1> DEFINE n == [pc |-> "save", box |-> s.box, round |-> s.round, since |-> s.since,
                 more |-> s.more, destroyed |-> s.destroyed, got |-> Get(s.ids)]
<1>1. s \in Calls /\ s.pc = "get" /\ s.since <= Token
  BY DEF Types, GetSummaries, Holding
<1>2. s.box \in Mailboxes /\ s.since \in Nat /\ s.round \in Nat /\ s.more \in BOOLEAN
      /\ s.destroyed \in SUBSET Emails /\ s.ids \in SUBSET Emails
  BY <1>1, CallFacts DEF Holding
<1>3. TypeOK' /\ UNCHANGED serverVars /\ env' = env /\ ServerTypeOK /\ Go(t, n)
  BY TablesKept DEF GetSummaries, Types, TypeOK
<1>4. Get(s.ids) \in Answers
  BY <1>2, <1>3, GetTyped
<1>5. n \in Calls /\ n.since <= Token
  BY <1>1, <1>2, <1>4, CallRecords
<1> HIDE DEF n, s
<1>6. task' \in [Tasks -> Calls] /\ \A u \in Tasks : task'[u].pc \in Holding => task'[u].since <= Token'
  BY <1>3, <1>5, GoTyped
<1> QED BY <1>3, <1>6 DEF Types

LEMMA DeltaEmailBatchTyped ==
  ASSUME Types, NEW t \in Tasks, DeltaEmailBatch(t)
  PROVE  Types'
<1> DEFINE s == task[t]
<1> DEFINE n == IF s.more /\ s.round < MaxRounds
                THEN [pc |-> "changes", box |-> s.box, since |-> s.since, round |-> s.round + 1]
                ELSE Idle
<1>1. s \in Calls /\ s.pc = "save" /\ s.since <= Token
  BY DEF Types, DeltaEmailBatch, Holding
<1>2. s.box \in Mailboxes /\ s.since \in Nat /\ s.round \in Nat /\ s.got \in Answers
  BY <1>1, CallFacts DEF Holding
<1>3. UNCHANGED <<serverVars, populated, progress, env>> /\ TypeOK /\ ServerTypeOK
  BY DEF DeltaEmailBatch, Types, TypeOK
<1>4. Go(t, n) /\ cursor' = s.since /\ table' = Save(Delete(table, s.destroyed), s.got)
  BY DEF DeltaEmailBatch
<1>5. table' \in [Emails -> Content \cup {NULL}]
  BY <1>2, <1>3, <1>4, TableTyped DEF TypeOK
<1>6. ServerTypeOK' /\ Token' = Token /\ Token \in Nat
  BY <1>3, SameServer, TokenNat
<1>7. TypeOK'
  BY <1>1, <1>2, <1>3, <1>4, <1>5, <1>6 DEF TypeOK
<1>8. n \in Calls /\ (n.pc \in Holding => n.since <= Token)
  BY <1>1, <1>2 DEF Calls, Holding, Idle
<1> HIDE DEF n, s
<1>9. task' \in [Tasks -> Calls] /\ \A u \in Tasks : task'[u].pc \in Holding => task'[u].since <= Token'
  BY <1>3, <1>4, <1>8, GoTyped
<1> QED BY <1>3, <1>7, <1>9 DEF Types

LEMMA QueryAndGetTyped ==
  ASSUME Types, NEW t \in Tasks, QueryAndGet(t)
  PROVE  Types'
<1> DEFINE b == task[t].box
<1> DEFINE n == [pc |-> "saveHead", box |-> b, since |-> Token, got |-> Get(Page(b, 0, PageSize))]
<1>1. task[t] \in Calls /\ task[t].pc = "query"
  BY DEF Types, QueryAndGet
<1>2. b \in Mailboxes
  BY <1>1, CallFacts DEF Holding
<1>3. TypeOK' /\ UNCHANGED serverVars /\ env' = env /\ ServerTypeOK /\ Go(t, n)
  BY TablesKept DEF QueryAndGet, Types, TypeOK
<1>4. Get(Page(b, 0, PageSize)) \in Answers /\ Token \in Nat
  BY <1>3, GetTyped, PageInBox, TokenNat
<1>5. n \in Calls /\ n.since <= Token
  BY <1>2, <1>4 DEF Calls
<1> HIDE DEF n, b
<1>6. task' \in [Tasks -> Calls] /\ \A u \in Tasks : task'[u].pc \in Holding => task'[u].since <= Token'
  BY <1>3, <1>5, GoTyped
<1> QED BY <1>3, <1>6 DEF Types

LEMMA SaveHeadTyped ==
  ASSUME Types, NEW t \in Tasks, SaveHead(t)
  PROVE  Types'
<1> DEFINE s == task[t]
<1> DEFINE n == [s EXCEPT !.pc = "progress"]
<1>1. s \in Calls /\ s.pc = "saveHead" /\ s.since <= Token
  BY DEF Types, SaveHead, Holding
<1>2. s.box \in Mailboxes /\ s.since \in Nat /\ s.got \in Answers
  BY <1>1, CallFacts DEF Holding
<1>3. UNCHANGED <<serverVars, progress, env>> /\ TypeOK /\ ServerTypeOK
  BY DEF SaveHead, Types, TypeOK
<1>4. /\ Go(t, n) /\ cursor' = s.since
      /\ table' = Save(table, s.got) /\ populated' = populated \cup {s.box}
  BY DEF SaveHead, Step
<1>5. table' \in [Emails -> Content \cup {NULL}]
  BY <1>2, <1>3, <1>4, TableTyped DEF TypeOK
<1>6. ServerTypeOK' /\ Token' = Token /\ Token \in Nat
  BY <1>3, SameServer, TokenNat
<1>7. TypeOK'
  BY <1>1, <1>2, <1>3, <1>4, <1>5, <1>6 DEF TypeOK
<1>8. n \in Calls /\ n.since = s.since
  BY <1>1, HeadMovesOn
<1> HIDE DEF n, s
<1>9. task' \in [Tasks -> Calls] /\ \A u \in Tasks : task'[u].pc \in Holding => task'[u].since <= Token'
  BY <1>1, <1>3, <1>4, <1>8, GoTyped
<1> QED BY <1>3, <1>7, <1>9 DEF Types

LEMMA ReadProgressTyped ==
  ASSUME Types, NEW t \in Tasks, ReadProgress(t)
  PROVE  Types'
<1> DEFINE s == task[t]
<1>1. s \in Calls /\ s.pc = "progress" /\ s.since <= Token
  BY DEF Types, ReadProgress, Holding
<1>2. TypeOK' /\ UNCHANGED serverVars /\ env' = env
  BY TablesKept DEF ReadProgress, Types
<1>3. PICK n \in {Idle, [s EXCEPT !.pc = "prune"]} : Go(t, n)
  BY DEF ReadProgress, Step
<1>4. Idle \in Calls /\ Idle.pc = "idle"
  BY DEF Calls, Idle
<1>5. n \in Calls /\ (n.pc \in Holding => n.since <= Token)
  BY <1>1, <1>3, <1>4, HeadMovesOn DEF Holding
<1> HIDE DEF s
<1>6. task' \in [Tasks -> Calls] /\ \A u \in Tasks : task'[u].pc \in Holding => task'[u].since <= Token'
  BY <1>2, <1>3, <1>5, GoTyped
<1> QED BY <1>2, <1>6 DEF Types

LEMMA PruneHeadTyped ==
  ASSUME Types, NEW t \in Tasks, PruneHead(t)
  PROVE  Types'
<1>1. UNCHANGED <<serverVars, cursor, populated, progress, env>> /\ TypeOK /\ ServerTypeOK
  BY DEF PruneHead, Types, TypeOK
<1>2. table' = Prune(table, task[t].box, DOMAIN task[t].got) /\ Go(t, Idle)
  BY DEF PruneHead
<1>3. table' \in [Emails -> Content \cup {NULL}]
  BY <1>1, <1>2, TableTyped DEF TypeOK
<1>4. ServerTypeOK' /\ Token' = Token
  BY <1>1, SameServer
<1>5. TypeOK'
  BY <1>1, <1>3, <1>4 DEF TypeOK
<1>6. Idle \in Calls /\ Idle.pc = "idle"
  BY DEF Calls, Idle
<1>7. task' \in [Tasks -> Calls] /\ \A u \in Tasks : task'[u].pc \in Holding => task'[u].since <= Token'
  BY <1>1, <1>2, <1>6, GoTyped DEF Holding
<1> QED BY <1>1, <1>5, <1>7 DEF Types

LEMMA FailTyped ==
  ASSUME Types, NEW t \in Tasks, Fail(t)
  PROVE  Types'
<1>1. TypeOK' /\ UNCHANGED serverVars /\ Go(t, Idle)
  BY TablesKept DEF Fail, Types
<1>2. env' \in Environments
  BY DEF Fail, Types, Environments
<1>3. Idle \in Calls /\ Idle.pc = "idle"
  BY DEF Calls, Idle
<1>4. task' \in [Tasks -> Calls] /\ \A u \in Tasks : task'[u].pc \in Holding => task'[u].since <= Token'
  BY <1>1, <1>3, GoTyped DEF Holding
<1> QED BY <1>1, <1>2, <1>4 DEF Types

LEMMA CrashTyped ==
  ASSUME Types, Crash
  PROVE  Types'
<1>1. TypeOK'
  BY TablesKept DEF Crash, Types
<1>2. env' \in Environments
  BY DEF Crash, Types, Environments
<1>3. task' \in [Tasks -> Calls] /\ \A u \in Tasks : task'[u].pc = "idle"
  BY DEF Crash, Calls, Idle
<1> QED BY <1>1, <1>2, <1>3 DEF Types, Holding

\* The server's own steps.
LEMMA ServerTablesTyped ==
  ASSUME Types, ServerTypeOK', Token' >= Token, Token' \in Nat, UNCHANGED <<cacheVars, task>>
  PROVE  TypeOK' /\ \A u \in Tasks : task'[u].pc \in Holding => task'[u].since <= Token'
<1>1. Token \in Nat /\ \A u \in Tasks : task[u].pc \in Holding => task[u].since \in Nat
  BY TokenNat, CallFacts DEF Types, TypeOK
<1>2. \A u \in Tasks : task'[u].pc \in Holding => task'[u].since <= Token'
  BY <1>1 DEF Types
<1>3. cursor' \in 0..Token' \cup {NULL}
  BY <1>1 DEF Types, TypeOK, cacheVars
<1> QED BY <1>2, <1>3 DEF Types, TypeOK, cacheVars

LEMMA ForgetTyped ==
  ASSUME Types, Forget
  PROVE  Types'
<1>1. ServerTypeOK' /\ Token' = Token /\ Token \in Nat
  BY TokenNat DEF Forget, ServerForget, Types, TypeOK, ServerTypeOK, Token
<1>2. env' \in Environments
  BY DEF Forget, Types, Environments
<1>3. TypeOK' /\ \A u \in Tasks : task'[u].pc \in Holding => task'[u].since <= Token'
  BY <1>1, ServerTablesTyped DEF Forget
<1> QED BY <1>2, <1>3 DEF Types, Forget

LEMMA ServerStepTyped ==
  ASSUME Types, Server
  PROVE  Types'
<1>1. ServerTypeOK' /\ Token' = Token + 1 /\ Token \in Nat
  BY ServerTyped DEF Server, Types, TypeOK
<1>2. TypeOK' /\ \A u \in Tasks : task'[u].pc \in Holding => task'[u].since <= Token'
  BY <1>1, ServerTablesTyped DEF Server
<1> QED BY <1>2 DEF Types, Server

LEMMA StepTypes == Types /\ [Next]_vars => Types'
<1> SUFFICES ASSUME Types, [Next]_vars PROVE Types'
  OBVIOUS
<1>1. ASSUME NEW t \in Tasks, NEW b \in env.open, Start(t, b) PROVE Types'
  BY <1>1, StartTyped
<1>2. ASSUME NEW t \in Tasks, Work(t) PROVE Types'
  BY <1>2, CheckPopulatedTyped, ChangesTyped, GetSummariesTyped, DeltaEmailBatchTyped,
     QueryAndGetTyped, SaveHeadTyped, ReadProgressTyped, PruneHeadTyped DEF Work
<1>3. ASSUME NEW t \in Tasks, Fail(t) PROVE Types'
  BY <1>3, FailTyped
<1>4. CASE Crash
  BY <1>4, CrashTyped
<1>5. CASE Forget
  BY <1>5, ForgetTyped
<1>6. CASE Server
  BY <1>6, ServerStepTyped
<1>7. CASE UNCHANGED vars
  <2>1. TypeOK'
    BY <1>7, TablesKept DEF vars, serverVars, cacheVars, Types
  <2> QED BY <1>7, <2>1 DEF vars, Types, Token
<1> QED BY <1>1, <1>2, <1>3, <1>4, <1>5, <1>6, <1>7 DEF Next, Ordinary, Work

LEMMA TypesAlways == Spec => []Types
BY InitTypes, StepTypes, PTL DEF Spec

\* The tables and the tokens they hold have their types, however many calls of
\* sync_emails run at once, are cut short or fail (src/sync.rs).
THEOREM EmailSyncTyped == Spec => []TypeOK
<1>1. Types => TypeOK
  BY DEF Types
<1> QED BY <1>1, TypesAlways, PTL

-----------------------------------------------------------------------------
\* The log and what was read from it.

\* The account of the theorems below: one call of sync_emails at a time, and one
\* folder that the user of a new cache opens.  With two such folders NothingMissing
\* fails (SecondMailbox.cfg).
OneCall ==
  /\ \A t, u \in Tasks : t = u
  /\ \A s \in Scenarios : s.fresh => \E b \in Mailboxes : s.open \subseteq {b}

\* The server answers Email/changes from every token it gave, or else no restart comes
\* between a head sync and its prune and the folder is the only one there is in the cache.
LogOrFolder ==
  \A s \in Scenarios :
    s.forgets = 0 \/ (s.crashes = 0 /\ (s.fresh \/ \E b \in Mailboxes : Mailboxes = {b}))

LastAt(m, i) == i \in 1..Token /\ log[i].id = m /\ \A j \in i + 1 .. Token : log[j].id # m

Logged(m) == \E i \in 1..Token : log[i].id = m
Gone(m)   == mail[m] = NULL /\ Logged(m)

\* Every message in the log has a last change there, which tells whether it is gone.
LogTrue ==
  /\ \A m \in Emails : Logged(m) => \E i \in 1..Token : LastAt(m, i)
  /\ \A i \in 1..Token : log[i].kind = "destroyed" => mail[log[i].id] = NULL
  /\ \A m \in Emails : Gone(m) => log[LastChange(m)].kind = "destroyed"

\* A copy of m that is as the server has it, unless m has changed since.
Right(m, copy, since) == LastChange(m) <= since => copy = mail[m]

\* A row is right as of the cursor; the first page of an account that fits it is all.
TableTrue ==
  cursor # NULL => \A m \in Emails : table[m] # NULL => Right(m, table[m], cursor)

TableFull ==
  PageSize >= Cardinality(Emails) =>
    \A b \in populated : \A m \in Emails :
      mail[m] # NULL /\ b \in mail[m].boxes /\ LastChange(m) <= cursor => table[m] # NULL

\* The log reaches back to the start; the head sync of a new cache starts from nothing.
Account ==
  /\ horizon = 0
  /\ env.fresh => \E b \in Mailboxes : env.open \subseteq {b}
  /\ cursor = NULL => env.fresh /\ populated = {} /\ \A m \in Emails : table[m] = NULL
  /\ cursor # NULL => env.open \subseteq populated

\* What the delta has yet to fetch: everything else has not changed since the cursor.
WindowTrue(s) ==
  /\ cursor # NULL /\ cursor <= s.since
  /\ \A m \in s.destroyed : Gone(m)

HeldTrue(s) == \A m \in DOMAIN s.got : s.got[m] # NULL /\ Right(m, s.got[m], s.since)

\* The page of an account that fits it has every message of the folder.
HeldFull(s) ==
  PageSize >= Cardinality(Emails) =>
    \A m \in Emails : mail[m] # NULL /\ s.box \in mail[m].boxes /\ LastChange(m) <= s.since
                      => m \in DOMAIN s.got

CallTrue(s) ==
  /\ s.pc # "idle" => s.box \in env.open
  /\ s.pc \in {"populated", "changes"} => cursor # NULL /\ s.since = cursor
  /\ s.pc = "get" =>
       /\ WindowTrue(s)
       /\ \A m \in Emails \ (s.destroyed \cup s.ids) : LastChange(m) <= s.since => LastChange(m) <= cursor
       /\ \A m \in s.ids : mail[m] = NULL => LastChange(m) > s.since
  /\ s.pc = "save" =>
       /\ WindowTrue(s) /\ HeldTrue(s)
       /\ \A m \in Emails \ (s.destroyed \cup DOMAIN s.got) :
            LastChange(m) <= s.since => LastChange(m) <= cursor
  /\ s.pc \in {"query", "saveHead"} => cursor = NULL
  /\ s.pc = "saveHead" => HeldTrue(s) /\ HeldFull(s)
  /\ s.pc \in {"progress", "prune"} =>
       cursor # NULL /\ \A m \in Emails : table[m] # NULL => m \in DOMAIN s.got

IInv ==
  /\ Types /\ LogTrue /\ TableTrue /\ TableFull /\ Account
  /\ \A t \in Tasks : CallTrue(task[t])

\* The last change of a message is the one CHOOSE finds.
LEMMA LastIs ==
  ASSUME LogTrue, NEW m \in Emails
  PROVE  /\ Logged(m) => LastAt(m, LastChange(m))
         /\ ~Logged(m) => LastChange(m) = 0
<1>1. Logged(m) => \E i \in 1..Token : LastAt(m, i)
  BY DEF LogTrue
<1>2. CASE Logged(m)
  <2>1. LastChange(m) = CHOOSE i \in 1..Token : log[i].id = m /\ \A j \in i+1..Token : log[j].id # m
    BY <1>2 DEF LastChange, Logged
  <2> QED BY <1>1, <1>2, <2>1 DEF LastAt
<1>3. CASE ~Logged(m)
  BY <1>3 DEF LastChange, Logged
<1> QED BY <1>2, <1>3

LEMMA LastIsOne ==
  ASSUME LogTrue, Token \in Nat, NEW m \in Emails, NEW i, LastAt(m, i)
  PROVE  LastChange(m) = i
<1>1. Logged(m)
  BY DEF LastAt, Logged
<1>2. LastAt(m, LastChange(m))
  BY <1>1, LastIs
<1> QED BY <1>2 DEF LastAt

LEMMA LastTyped ==
  ASSUME LogTrue, ServerTypeOK, NEW m \in Emails
  PROVE  LastChange(m) \in 0..Token /\ (LastChange(m) = 0 <=> ~Logged(m))
<1>1. Token \in Nat
  BY TokenNat
<1> QED BY <1>1, LastIs DEF LastAt, Logged

\* One change of the server, of message m.
Changed(m) ==
  /\ Token' = Token + 1 /\ LastChange(m)' = Token + 1
  /\ ~Gone(m)
  /\ \A n \in Emails : n # m => LastChange(n)' = LastChange(n) /\ mail'[n] = mail[n]
  /\ \A n \in Emails : Gone(n) => Gone(n)'

LEMMA RecordEffect ==
  ASSUME ServerTypeOK, LogTrue, NEW m \in Emails, NEW k \in {"created", "updated", "destroyed"},
         NEW c \in Content \cup {NULL}, Record(m, k, c), ~Gone(m),
         k = "destroyed" <=> c = NULL
  PROVE  LogTrue' /\ Changed(m)
<1>1. ServerTypeOK' /\ Token' = Token + 1 /\ Token \in Nat
  BY RecordTyped
<1>2. /\ \A i \in 1..Token : log'[i] = log[i]
      /\ log'[Token + 1].id = m /\ log'[Token + 1].kind = k
  BY <1>1 DEF Record, ServerTypeOK, Token
<1>3. mail' = [mail EXCEPT ![m] = c] /\ mail \in [Emails -> Content \cup {NULL}]
  BY DEF Record, ServerTypeOK
<1>0. PICK last \in Nat : last = Token + 1
  BY <1>1
<1>4. LastAt(m, last)' /\ last \in 1..Token'
  BY <1>0, <1>1, <1>2 DEF LastAt
<1>5. ASSUME NEW n \in Emails, n # m, NEW i, LastAt(n, i)
      PROVE  LastAt(n, i)'
  BY <1>1, <1>2, <1>5 DEF LastAt
<1>6. \A n \in Emails : n # m => (Logged(n)' <=> Logged(n))
  BY <1>1, <1>2 DEF Logged
<1>7. \A n \in Emails : Logged(n)' => \E i \in 1..Token' : LastAt(n, i)'
  <2> TAKE n \in Emails
  <2> HAVE Logged(n)'
  <2>1. CASE n = m
    BY <1>1, <1>4, <2>1
  <2>2. CASE n # m
    <3>1. PICK i \in 1..Token : LastAt(n, i)
      BY <1>6, <2>2 DEF LogTrue
    <3>2. i \in 1..Token' /\ LastAt(n, i)'
      BY <1>1, <1>5, <2>2, <3>1
    <3> QED BY <3>2
  <2> QED BY <2>1, <2>2
<1>8. \A i \in 1..Token' : log'[i].kind = "destroyed" => mail'[log'[i].id] = NULL
  <2> TAKE i \in 1..Token'
  <2> HAVE log'[i].kind = "destroyed"
  <2>1. CASE i = Token + 1
    BY <1>2, <1>3, <2>1
  <2>2. CASE i # Token + 1
    <3>1. i \in 1..Token /\ log'[i] = log[i]
      BY <1>1, <1>2, <2>2
    <3>2. mail[log[i].id] = NULL /\ log[i].id \in Emails
      BY <3>1, LogTyped DEF LogTrue
    <3>3. log[i].id # m
      BY <3>1, <3>2 DEF Gone, Logged
    <3> QED BY <1>3, <3>1, <3>2, <3>3
  <2> QED BY <2>1, <2>2
<1>9. LogTrue' /\ LastChange(m)' = Token + 1 /\ \A n \in Emails : n # m => LastChange(n)' = LastChange(n)
  <2>1. ASSUME NEW n \in Emails, NEW i, LastAt(n, i)' PROVE LastChange(n)' = i
    <3>1. \E j \in 1..Token' : log'[j].id = n /\ \A l \in j+1..Token' : log'[l].id # n
      BY <2>1 DEF LastAt
    <3>2. LastChange(n)' = CHOOSE j \in 1..Token' : log'[j].id = n /\ \A l \in j+1..Token' : log'[l].id # n
      BY <3>1 DEF LastChange
    <3>3. /\ LastChange(n)' \in 1..Token' /\ log'[LastChange(n)'].id = n
          /\ \A l \in LastChange(n)' + 1..Token' : log'[l].id # n
      BY <3>1, <3>2
    <3> QED BY <1>1, <2>1, <3>3 DEF LastAt
  <2>2. LastChange(m)' = Token + 1
    BY <1>0, <1>4, <2>1
  <2>3. ASSUME NEW n \in Emails, n # m PROVE LastChange(n)' = LastChange(n)
    <3>1. CASE Logged(n)
      <4>1. LastAt(n, LastChange(n))
        BY <3>1, LastIs
      <4>2. PICK i \in Nat : i = LastChange(n)
        BY <1>1, <4>1 DEF LastAt
      <4>3. LastAt(n, i)'
        BY <1>5, <2>3, <4>1, <4>2
      <4> QED BY <2>1, <4>2, <4>3
    <3>2. CASE ~Logged(n)
      <4>1. ~Logged(n)'
        BY <1>6, <2>3, <3>2
      <4>2. LastChange(n)' = 0
        BY <4>1 DEF LastChange, Logged
      <4> QED BY <3>2, <4>2, LastIs
    <3> QED BY <3>1, <3>2
  <2>4. ASSUME NEW n \in Emails, Gone(n)' PROVE log'[LastChange(n)'].kind = "destroyed"
    <3>1. CASE n = m
      BY <1>0, <1>2, <1>3, <2>2, <2>4, <3>1 DEF Gone
    <3>2. CASE n # m
      <4>1. Logged(n) /\ Gone(n)
        BY <1>3, <1>6, <2>4, <3>2 DEF Gone
      <4>2. LastChange(n) \in 1..Token /\ log[LastChange(n)].kind = "destroyed"
        BY <4>1, LastIs DEF LogTrue, LastAt
      <4> QED BY <1>2, <2>3, <3>2, <4>2
    <3> QED BY <3>1, <3>2
  <2> QED BY <1>7, <1>8, <2>2, <2>3, <2>4 DEF LogTrue
<1>10. ASSUME NEW n \in Emails, Gone(n) PROVE Gone(n)'
  BY <1>3, <1>6, <1>10 DEF Gone
<1> QED BY <1>1, <1>3, <1>9, <1>10 DEF Changed

LEMMA ServerEffect ==
  ASSUME ServerTypeOK, LogTrue, ServerChange
  PROVE  LogTrue' /\ \E m \in Emails : Changed(m)
<1>1. ASSUME NEW m \in Emails, NEW c \in Content, ServerCreate(m, c)
      PROVE  LogTrue' /\ Changed(m)
  <2>1. ~Gone(m) /\ Record(m, "created", c) /\ c # NULL
    BY <1>1, ContentAssumption DEF ServerCreate, Gone, Logged
  <2> QED BY <2>1, RecordEffect
<1>2. ASSUME NEW m \in Emails, NEW c \in Content, ServerUpdate(m, c)
      PROVE  LogTrue' /\ Changed(m)
  <2>1. ~Gone(m) /\ Record(m, "updated", c) /\ c # NULL
    BY <1>2, ContentAssumption DEF ServerUpdate, Gone
  <2> QED BY <2>1, RecordEffect
<1>3. ASSUME NEW m \in Emails, ServerDestroy(m)
      PROVE  LogTrue' /\ Changed(m)
  <2>1. ~Gone(m) /\ Record(m, "destroyed", NULL)
    BY <1>3 DEF ServerDestroy, Gone
  <2> QED BY <2>1, RecordEffect
<1> QED BY <1>1, <1>2, <1>3 DEF ServerChange

\* What is right or gone as of a token stays so while the server changes.
LEMMA ServerKeeps ==
  ASSUME Types, LogTrue, NEW m \in Emails, Changed(m), NEW since \in Nat, since <= Token
  PROVE  \A n \in Emails :
           /\ \A copy : Right(n, copy, since) =>
                (LastChange(n)' <= since => copy = mail'[n])
           /\ LastChange(n)' <= since => LastChange(n) <= since /\ mail'[n] = mail[n]
           /\ LastChange(n) > since => LastChange(n)' > since
           /\ mail'[n] = NULL => mail[n] = NULL \/ LastChange(n)' > since
           /\ Gone(n) => Gone(n)'
<1>1. Token \in Nat
  BY TokenNat DEF Types, TypeOK
<1>2. \A n \in Emails : LastChange(n) \in Nat
  BY <1>1, LastTyped DEF Types, TypeOK
<1> QED BY <1>1, <1>2 DEF Changed, Right

LEMMA LogKept == LogTrue /\ UNCHANGED serverVars => LogTrue'
BY DEF serverVars, LogTrue, Gone, Logged, LastAt, LastChange, Token

\* A step that leaves server, tables and environment alone.
LEMMA RestKept ==
  ASSUME IInv, UNCHANGED <<serverVars, cacheVars, env>>
  PROVE  LogTrue' /\ TableTrue' /\ TableFull' /\ Account'
<1>1. LogTrue'
  BY LogKept DEF IInv
<1>2. TableTrue'
  BY DEF IInv, TableTrue, Right, LastChange, Token, serverVars, cacheVars
<1>3. TableFull'
  BY DEF IInv, TableFull, LastChange, Token, serverVars, cacheVars
<1>4. Account'
  BY DEF IInv, Account, serverVars, cacheVars
<1> QED BY <1>1, <1>2, <1>3, <1>4

-----------------------------------------------------------------------------
\* The steps of the one call.
LEMMA SameLog ==
  ASSUME UNCHANGED serverVars
  PROVE  Token' = Token /\ \A m : LastChange(m)' = LastChange(m) /\ (Gone(m)' <=> Gone(m))
BY DEF serverVars, Token, LastChange, Gone, Logged

\* The call is at n after the step.
LEMMA CallIs ==
  ASSUME NEW t \in Tasks, NEW n, task'[t] = n, CallTrue(n)'
  PROVE  CallTrue(task[t])'
BY DEF CallTrue, WindowTrue, HeldTrue, HeldFull, Right

\* A step of the call that changes no table.
LEMMA CallStep ==
  ASSUME IInv, OneCall, NEW t \in Tasks, NEW n \in Calls, Go(t, n), Types',
         UNCHANGED <<serverVars, cacheVars, env>>, CallTrue(n)
  PROVE  IInv'
<1>1. LogTrue' /\ TableTrue' /\ TableFull' /\ Account'
  BY RestKept
<1>2. CallTrue(n)'
  <2>1. \A m : LastChange(m)' = LastChange(m) /\ (Gone(m)' <=> Gone(m))
    BY SameLog
  <2> QED BY <2>1 DEF CallTrue, WindowTrue, HeldTrue, HeldFull, Right, serverVars, cacheVars
<1>3. task'[t] = n
  BY DEF Go, IInv, Types
<1>4. CallTrue(task[t])'
  BY <1>2, <1>3, CallIs
<1>5. \A u \in Tasks : CallTrue(task[u])'
  BY <1>4 DEF OneCall
<1> QED BY <1>1, <1>5 DEF IInv

LEMMA StartTrue ==
  ASSUME IInv, OneCall, NEW t \in Tasks, NEW b \in env.open, Start(t, b)
  PROVE  IInv'
<1>1. PICK n : n = IF cursor = NULL THEN [pc |-> "query", box |-> b]
                   ELSE [pc |-> "populated", box |-> b, since |-> cursor]
  OBVIOUS
<1>2. Types' /\ Go(t, n) /\ UNCHANGED <<serverVars, cacheVars, env>>
  BY <1>1, StartTyped DEF IInv, Start
<1>3. b \in Mailboxes /\ cursor \in Nat \cup {NULL} /\ Token \in Nat
  BY TokenNat DEF IInv, Types, TypeOK, Environments
<1>4. n \in Calls
  BY <1>1, <1>3 DEF Calls
<1>5. CallTrue(n)
  BY <1>1 DEF CallTrue
<1> QED BY <1>2, <1>4, <1>5, CallStep

LEMMA CheckPopulatedTrue ==
  ASSUME IInv, OneCall, NEW t \in Tasks, CheckPopulated(t)
  PROVE  IInv'
<1>1. PICK s : s = task[t]
  OBVIOUS
<1>2. s \in Calls /\ s.pc = "populated" /\ CallTrue(s)
  BY <1>1 DEF CheckPopulated, IInv, Types
<1>3. s.box \in env.open /\ cursor # NULL /\ s.since = cursor /\ s.box \in populated
  BY <1>2 DEF CallTrue, IInv, Account
<1>4. s.box \in Mailboxes /\ s.since \in Nat
  BY <1>2, CallFacts DEF Holding
<1>5. PICK n : n = [pc |-> "changes", box |-> s.box, since |-> s.since, round |-> 1]
  OBVIOUS
<1>6. Types' /\ Go(t, n) /\ UNCHANGED <<serverVars, cacheVars, env>>
  BY <1>1, <1>3, <1>5, CheckPopulatedTyped DEF IInv, CheckPopulated
<1>7. n \in Calls
  BY <1>4, <1>5 DEF Calls
<1>8. CallTrue(n)
  BY <1>3, <1>5 DEF CallTrue
<1> QED BY <1>6, <1>7, <1>8, CallStep

\* What a window of the log says of the messages.
LEMMA WindowRight ==
  ASSUME ServerTypeOK, LogTrue, NEW since \in Nat, NEW upto \in Nat, since <= upto, upto <= Token
  PROVE  /\ \A m \in Destroyed(since, upto) : Gone(m)
         /\ \A m \in Emails \ Touched(since, upto) : LastChange(m) <= upto => LastChange(m) <= since
         /\ \A m \in Touched(since, upto) \ Destroyed(since, upto) :
              mail[m] = NULL => LastChange(m) > upto
<1>1. Token \in Nat /\ \A i \in since + 1 .. upto : i \in 1..Token
  BY TokenNat
<1>2. ASSUME NEW m \in Destroyed(since, upto) PROVE Gone(m)
  <2>1. PICK i \in since + 1 .. upto : log[i].id = m /\ log[i].kind = "destroyed"
    BY DEF Destroyed
  <2> QED BY <1>1, <2>1 DEF LogTrue, Gone, Logged
<1>3. ASSUME NEW m \in Emails, m \notin Touched(since, upto), LastChange(m) <= upto
      PROVE  LastChange(m) <= since
  <2>1. LastChange(m) \in 0..Token
    BY LastTyped
  <2>2. CASE Logged(m)
    <3>1. log[LastChange(m)].id = m
      BY <2>2, LastIs DEF LastAt
    <3>2. LastChange(m) \notin since + 1 .. upto
      BY <1>3, <3>1 DEF Touched
    <3> QED BY <1>1, <1>3, <2>1, <3>2
  <2>3. CASE ~Logged(m)
    BY <2>3, LastIs
  <2> QED BY <2>2, <2>3
<1>4. ASSUME NEW m \in Touched(since, upto), m \notin Destroyed(since, upto), mail[m] = NULL
      PROVE  LastChange(m) > upto
  <2>1. PICK i \in since + 1 .. upto : log[i].id = m
    BY DEF Touched
  <2>2. m \in Emails /\ Logged(m) /\ Gone(m)
    BY <1>1, <1>4, <2>1, LogTyped DEF Logged, Gone
  <2>3. LastAt(m, LastChange(m)) /\ log[LastChange(m)].kind = "destroyed" /\ log[LastChange(m)].id = m
    BY <2>2, LastIs DEF LogTrue, LastAt
  <2>4. LastChange(m) \notin since + 1 .. upto
    BY <1>4, <2>3 DEF Destroyed
  <2>5. LastChange(m) \in 1..Token /\ i <= LastChange(m)
    BY <1>1, <2>1, <2>3 DEF LastAt
  <2> QED BY <1>1, <2>1, <2>4, <2>5
<1> QED BY <1>2, <1>3, <1>4

\* Email/changes answers with a window.
LEMMA ChangesCall ==
  ASSUME Types, LogTrue, NEW t \in Tasks, Changes(t), CallTrue(task[t]), ~(task[t].since < horizon)
  PROVE  \E n \in Calls : n.pc = "get" /\ n.box = task[t].box /\ Go(t, n) /\ CallTrue(n)
<1>1. PICK s : s = task[t]
  OBVIOUS
<1>2. /\ s \in Calls /\ s.pc = "changes" /\ CallTrue(s) /\ s.since <= Token
      /\ ServerTypeOK /\ LogTrue /\ Token \in Nat
  BY <1>1, TokenNat DEF Changes, Types, TypeOK, Holding
<1>3. s.box \in env.open /\ cursor # NULL /\ s.since = cursor
  BY <1>2 DEF CallTrue
<1>4. s.box \in Mailboxes /\ s.since \in Nat /\ s.round \in Nat
  BY <1>2, CallFacts DEF Holding
<1>5. PICK upto \in NextTokens(s.since) :
           Go(t, [pc |-> "get", box |-> s.box, round |-> s.round,
                  since |-> upto, more |-> upto < Token,
                  destroyed |-> Destroyed(s.since, upto),
                  ids |-> Touched(s.since, upto) \ Destroyed(s.since, upto)])
  BY <1>1 DEF Changes
<1>6. PICK n : n = [pc |-> "get", box |-> s.box, round |-> s.round,
                    since |-> upto, more |-> upto < Token,
                    destroyed |-> Destroyed(s.since, upto),
                    ids |-> Touched(s.since, upto) \ Destroyed(s.since, upto)]
  OBVIOUS
<1>7. /\ upto \in Nat /\ s.since <= upto /\ upto <= Token
      /\ Touched(s.since, upto) \in SUBSET Emails /\ Destroyed(s.since, upto) \in SUBSET Emails
  BY <1>2, <1>4, WindowTyped
<1>8. n \in Calls
  BY <1>4, <1>6, <1>7 DEF Calls
<1>9. CallTrue(n)
  <2>1. /\ n.pc = "get" /\ n.box = s.box /\ n.since = upto
        /\ n.destroyed = Destroyed(s.since, upto)
        /\ n.ids = Touched(s.since, upto) \ Destroyed(s.since, upto)
    BY <1>6
  <2>2. WindowTrue(n)
    BY <1>2, <1>3, <1>4, <1>7, <2>1, WindowRight DEF WindowTrue
  <2>3. \A m \in Emails \ (n.destroyed \cup n.ids) : LastChange(m) <= n.since => LastChange(m) <= cursor
    BY <1>2, <1>3, <1>4, <1>7, <2>1, WindowRight
  <2>4. \A m \in n.ids : mail[m] = NULL => LastChange(m) > n.since
    BY <1>2, <1>4, <1>7, <2>1, WindowRight
  <2> QED BY <1>3, <2>1, <2>2, <2>3, <2>4 DEF CallTrue
<1>10. n.pc = "get" /\ n.box = s.box
  BY <1>6
<1> QED BY <1>1, <1>5, <1>6, <1>8, <1>9, <1>10

LEMMA ChangesTrue ==
  ASSUME IInv, OneCall, NEW t \in Tasks, Changes(t)
  PROVE  IInv'
<1>1. CallTrue(task[t]) /\ task[t].pc = "changes" /\ task[t] \in Calls
  BY DEF Changes, IInv, Types
<1>2. ~(task[t].since < horizon)
  <2>1. task[t].since \in Nat
    BY <1>1, CallFacts DEF Holding
  <2> QED BY <2>1 DEF IInv, Account
<1>3. PICK n \in Calls : Go(t, n) /\ CallTrue(n)
  BY <1>1, <1>2, ChangesCall DEF IInv
<1>4. Types' /\ UNCHANGED <<serverVars, cacheVars, env>>
  BY ChangesTyped DEF IInv, Changes
<1> QED BY <1>3, <1>4, CallStep

LEMMA GetSummariesCall ==
  ASSUME Types, LogTrue, NEW t \in Tasks, GetSummaries(t), CallTrue(task[t])
  PROVE  \E n \in Calls : n.pc = "save" /\ n.box = task[t].box /\ Go(t, n) /\ CallTrue(n)
<1>1. PICK s : s = task[t]
  OBVIOUS
<1>2. s \in Calls /\ s.pc = "get" /\ CallTrue(s) /\ ServerTypeOK
  BY <1>1 DEF GetSummaries, Types, TypeOK
<1>3. /\ s.box \in Mailboxes /\ s.since \in Nat /\ s.round \in Nat /\ s.more \in BOOLEAN
      /\ s.destroyed \in SUBSET Emails /\ s.ids \in SUBSET Emails
  BY <1>2, CallFacts DEF Holding
<1>4. PICK n : n = [pc |-> "save", box |-> s.box, round |-> s.round, since |-> s.since,
                    more |-> s.more, destroyed |-> s.destroyed, got |-> Get(s.ids)]
  OBVIOUS
<1>5. /\ Get(s.ids) \in Answers /\ DOMAIN Get(s.ids) = {m \in s.ids : mail[m] # NULL}
      /\ \A m \in DOMAIN Get(s.ids) : Get(s.ids)[m] = mail[m]
  BY <1>2, <1>3, GetTyped
<1>6. n \in Calls
  BY <1>3, <1>4, <1>5 DEF Calls
<1>7. CallTrue(n)
  <2>1. /\ n.pc = "save" /\ n.box = s.box /\ n.since = s.since /\ n.destroyed = s.destroyed
        /\ n.got = Get(s.ids)
    BY <1>4
  <2>2. \A m \in Emails : LastChange(m) \in Nat
    BY TokenNat, LastTyped DEF Types, TypeOK
  <2>3. \A m \in Emails \ (n.destroyed \cup DOMAIN n.got) :
          LastChange(m) <= n.since => LastChange(m) <= cursor
    BY <1>2, <1>3, <1>5, <2>1, <2>2 DEF CallTrue
  <2>4. HeldTrue(n)
    BY <1>5, <2>1 DEF HeldTrue, Right
  <2> QED BY <1>2, <2>1, <2>3, <2>4 DEF CallTrue, WindowTrue
<1>8. n.pc = "save" /\ n.box = s.box /\ Go(t, n)
  BY <1>1, <1>4 DEF GetSummaries
<1> QED BY <1>1, <1>6, <1>7, <1>8

LEMMA GetSummariesTrue ==
  ASSUME IInv, OneCall, NEW t \in Tasks, GetSummaries(t)
  PROVE  IInv'
<1>1. PICK n \in Calls : Go(t, n) /\ CallTrue(n)
  BY GetSummariesCall DEF IInv
<1>2. Types' /\ UNCHANGED <<serverVars, cacheVars, env>>
  BY GetSummariesTyped DEF IInv, GetSummaries
<1> QED BY <1>1, <1>2, CallStep

\* The first page of a folder that fits it.
LEMMA WholePage ==
  ASSUME ServerTypeOK, PageSize >= Cardinality(Emails), NEW b
  PROVE  InBox(b) \subseteq Page(b, 0, PageSize)
<1> SUFFICES ASSUME NEW m \in InBox(b) PROVE m \in Page(b, 0, PageSize)
  OBVIOUS
<1> DEFINE newer == {n \in InBox(b) : n > m}
<1>1. m \in Emails /\ Emails \subseteq Nat /\ IsFiniteSet(Emails)
  BY ServerAssumption DEF InBox, Alive
<1>2. newer \subseteq Emails \ {m}
  BY <1>1 DEF InBox, Alive
<1>3. /\ IsFiniteSet(Emails \ {m}) /\ Cardinality(Emails \ {m}) = Cardinality(Emails) - 1
      /\ Cardinality(Emails) \in Nat
  BY <1>1, FS_RemoveElement, FS_CardinalityType
<1>4. IsFiniteSet(newer) /\ Cardinality(newer) <= Cardinality(Emails \ {m})
  BY <1>2, <1>3, FS_Subset
<1>5. Cardinality(newer) \in Nat
  BY <1>4, FS_CardinalityType
<1>6. PageSize \in Nat
  BY SyncAssumption
<1>7. Cardinality(newer) \in 0 .. 0 + PageSize - 1
  BY <1>3, <1>4, <1>5, <1>6
<1> QED BY <1>7 DEF Page

LEMMA QueryAndGetCall ==
  ASSUME Types, NEW t \in Tasks, QueryAndGet(t)
  PROVE  \E n \in Calls : /\ n.pc = "saveHead" /\ n.box = task[t].box /\ Go(t, n)
                          /\ HeldTrue(n) /\ HeldFull(n)
<1>1. PICK s : s = task[t]
  OBVIOUS
<1>2. s \in Calls /\ s.pc = "query" /\ ServerTypeOK /\ Token \in Nat
  BY <1>1, TokenNat DEF QueryAndGet, Types, TypeOK
<1>3. s.box \in Mailboxes
  BY <1>2, CallFacts DEF Holding
<1>4. PICK page : page = Page(s.box, 0, PageSize)
  OBVIOUS
<1>5. PICK n : n = [pc |-> "saveHead", box |-> s.box, since |-> Token, got |-> Get(page)]
  OBVIOUS
<1>6. /\ Get(page) \in Answers /\ DOMAIN Get(page) = {m \in page : mail[m] # NULL}
      /\ \A m \in DOMAIN Get(page) : Get(page)[m] = mail[m]
  BY <1>2, <1>4, GetTyped, PageInBox
<1>7. n \in Calls
  BY <1>2, <1>3, <1>5, <1>6 DEF Calls
<1>8. n.pc = "saveHead" /\ n.box = s.box /\ n.since = Token /\ n.got = Get(page)
  BY <1>5
<1>9. HeldTrue(n)
  BY <1>6, <1>8, ContentAssumption, AnswerFacts DEF HeldTrue, Right
<1>10. HeldFull(n)
  <2>1. ASSUME PageSize >= Cardinality(Emails), NEW m \in Emails, mail[m] # NULL, s.box \in mail[m].boxes
        PROVE  m \in DOMAIN n.got
    <3>1. m \in InBox(s.box)
      BY <2>1 DEF InBox, Alive
    <3> QED BY <1>2, <1>4, <1>6, <1>8, <2>1, <3>1, WholePage
  <2> QED BY <1>8, <2>1 DEF HeldFull
<1>11. Go(t, n)
  BY <1>1, <1>4, <1>5 DEF QueryAndGet
<1> QED BY <1>1, <1>7, <1>8, <1>9, <1>10, <1>11

LEMMA QueryAndGetTrue ==
  ASSUME IInv, OneCall, NEW t \in Tasks, QueryAndGet(t)
  PROVE  IInv'
<1>1. CallTrue(task[t]) /\ task[t].pc = "query"
  BY DEF QueryAndGet, IInv
<1>2. PICK n \in Calls : /\ n.pc = "saveHead" /\ n.box = task[t].box /\ Go(t, n)
                        /\ HeldTrue(n) /\ HeldFull(n)
  BY QueryAndGetCall DEF IInv
<1>3. CallTrue(n)
  BY <1>1, <1>2 DEF CallTrue
<1>4. Types' /\ UNCHANGED <<serverVars, cacheVars, env>>
  BY QueryAndGetTyped DEF IInv, QueryAndGet
<1> QED BY <1>2, <1>3, <1>4, CallStep

\* A call that has ended.
LEMMA IdleTrue == Idle \in Calls /\ CallTrue(Idle)
BY DEF Idle, Calls, CallTrue

LEMMA ReadProgressTrue ==
  ASSUME IInv, OneCall, NEW t \in Tasks, ReadProgress(t)
  PROVE  IInv'
<1>1. PICK s : s = task[t]
  OBVIOUS
<1>2. s \in Calls /\ s.pc = "progress" /\ CallTrue(s)
  BY <1>1 DEF ReadProgress, IInv, Types
<1>3. PICK n : n = [s EXCEPT !.pc = "prune"]
  OBVIOUS
<1>4. n \in Calls /\ n.pc = "prune" /\ n.box = s.box /\ n.since = s.since /\ n.got = s.got
  BY <1>2, <1>3, HeadMovesOn
<1>5. CallTrue(n)
  BY <1>2, <1>4 DEF CallTrue
<1>6. Types' /\ (Go(t, Idle) \/ Go(t, n)) /\ UNCHANGED <<serverVars, cacheVars, env>>
  BY <1>1, <1>3, ReadProgressTyped DEF IInv, ReadProgress, Step
<1> QED BY <1>4, <1>5, <1>6, IdleTrue, CallStep

\* The prune finds nothing to drop: the cache was new, and what it holds came with
\* the page.
LEMMA PruneHeadTrue ==
  ASSUME IInv, OneCall, NEW t \in Tasks, PruneHead(t)
  PROVE  IInv'
<1>1. CallTrue(task[t]) /\ task[t].pc = "prune"
  BY DEF PruneHead, IInv
<1>2. \A m \in Emails : table[m] # NULL => m \in DOMAIN task[t].got
  BY <1>1 DEF CallTrue
<1>3. table' = Prune(table, task[t].box, DOMAIN task[t].got)
  BY DEF PruneHead
<1>4. table' = table
  <2>1. table \in [Emails -> Content \cup {NULL}]
    BY DEF IInv, Types, TypeOK
  <2> QED BY <1>2, <1>3, <2>1 DEF Prune
<1>5. Types' /\ Go(t, Idle) /\ UNCHANGED <<serverVars, cacheVars, env>>
  BY <1>4, PruneHeadTyped DEF PruneHead, IInv, cacheVars
<1> QED BY <1>5, IdleTrue, CallStep

\* The head sync of a new cache.
LEMMA SaveHeadTrue ==
  ASSUME IInv, OneCall, NEW t \in Tasks, SaveHead(t)
  PROVE  IInv'
<1>1. PICK s : s = task[t]
  OBVIOUS
<1>2. s \in Calls /\ s.pc = "saveHead" /\ CallTrue(s)
  BY <1>1 DEF SaveHead, IInv, Types
<1>3. s.box \in Mailboxes /\ s.since \in Nat /\ s.got \in Answers
  BY <1>2, CallFacts DEF Holding
<1>4. /\ cursor = NULL /\ s.box \in env.open /\ env.fresh /\ populated = {}
      /\ \A m \in Emails : table[m] = NULL
  BY <1>2 DEF CallTrue, IInv, Account
<1>5. PICK n : n = [s EXCEPT !.pc = "progress"]
  OBVIOUS
<1>6. n \in Calls /\ n.pc = "progress" /\ n.box = s.box /\ n.since = s.since /\ n.got = s.got
  BY <1>2, <1>5, HeadMovesOn
<1>7. /\ Types' /\ Go(t, n) /\ UNCHANGED <<serverVars, progress, env>>
      /\ table' = Save(table, s.got) /\ cursor' = s.since /\ populated' = {s.box}
  BY <1>1, <1>4, <1>5, SaveHeadTyped DEF IInv, SaveHead, Step
<1>8. cursor' # NULL
  BY <1>3, <1>7, ServerAssumption
<1>9. \A m \in Emails : IF m \in DOMAIN s.got THEN table'[m] = s.got[m] /\ table'[m] # NULL
                        ELSE table'[m] = NULL
  BY <1>2, <1>4, <1>7 DEF Save, CallTrue, HeldTrue
<1>10. \A m : LastChange(m)' = LastChange(m) /\ (Gone(m)' <=> Gone(m))
  BY <1>7, SameLog
<1>11. LogTrue' /\ mail' = mail
  BY <1>7, LogKept DEF IInv, serverVars
<1>12. TableTrue'
  BY <1>2, <1>7, <1>9, <1>10, <1>11 DEF TableTrue, Right, CallTrue, HeldTrue
<1>13. TableFull'
  BY <1>2, <1>7, <1>9, <1>10, <1>11 DEF TableFull, CallTrue, HeldFull
<1>14. Account'
  BY <1>4, <1>7, <1>8 DEF IInv, Account, serverVars
<1>15. CallTrue(n)'
  BY <1>4, <1>6, <1>7, <1>8, <1>9 DEF CallTrue
<1>16. \A u \in Tasks : CallTrue(task[u])'
  <2>1. task'[t] = n
    BY <1>7 DEF Go, IInv, Types
  <2>2. CallTrue(task[t])'
    BY <1>15, <2>1, CallIs
  <2> QED BY <2>2 DEF OneCall
<1> QED BY <1>7, <1>11, <1>12, <1>13, <1>14, <1>16 DEF IInv

\* The delta: what it did not name has not changed since the cursor.
LEMMA DeltaEmailBatchTrue ==
  ASSUME IInv, OneCall, NEW t \in Tasks, DeltaEmailBatch(t)
  PROVE  IInv'
<1>1. PICK s : s = task[t]
  OBVIOUS
<1>2. s \in Calls /\ s.pc = "save" /\ CallTrue(s)
  BY <1>1 DEF DeltaEmailBatch, IInv, Types
<1>3. s.box \in Mailboxes /\ s.since \in Nat /\ s.round \in Nat /\ s.got \in Answers
  BY <1>2, CallFacts DEF Holding
<1>4. s.box \in env.open /\ cursor # NULL /\ WindowTrue(s) /\ HeldTrue(s)
  BY <1>2 DEF CallTrue, WindowTrue
<1>5. PICK n : n = IF s.more /\ s.round < MaxRounds
                   THEN [pc |-> "changes", box |-> s.box, since |-> s.since, round |-> s.round + 1]
                   ELSE Idle
  OBVIOUS
<1>6. /\ Types' /\ Go(t, n) /\ UNCHANGED <<serverVars, populated, progress, env>>
      /\ table' = Save(Delete(table, s.destroyed), s.got) /\ cursor' = s.since
  BY <1>1, <1>5, DeltaEmailBatchTyped DEF IInv, DeltaEmailBatch
<1>7. cursor' # NULL
  BY <1>3, <1>6, ServerAssumption
<1>8. \A m \in Emails : table'[m] = IF m \in DOMAIN s.got THEN s.got[m]
                                    ELSE IF m \in s.destroyed THEN NULL ELSE table[m]
  BY <1>6 DEF Save, Delete
<1>9. \A m : LastChange(m)' = LastChange(m) /\ (Gone(m)' <=> Gone(m))
  BY <1>6, SameLog
<1>10. LogTrue' /\ mail' = mail
  BY <1>6, LogKept DEF IInv, serverVars
<1>11. \A m \in Emails \ (s.destroyed \cup DOMAIN s.got) :
         LastChange(m) <= s.since => LastChange(m) <= cursor
  BY <1>2 DEF CallTrue
<1>12. TableTrue'
  <2>1. ASSUME NEW m \in Emails, table'[m] # NULL, LastChange(m) <= s.since
        PROVE  table'[m] = mail[m]
    BY <1>4, <1>8, <1>11, <2>1 DEF HeldTrue, Right, IInv, TableTrue
  <2> QED BY <1>6, <1>9, <1>10, <2>1 DEF TableTrue, Right
<1>13. TableFull'
  <2>1. ASSUME PageSize >= Cardinality(Emails), NEW b \in populated, NEW m \in Emails,
               mail[m] # NULL, b \in mail[m].boxes, LastChange(m) <= s.since
        PROVE  table'[m] # NULL
    <3>1. m \notin s.destroyed
      BY <1>4, <2>1 DEF WindowTrue, Gone
    <3>2. CASE m \in DOMAIN s.got
      BY <1>4, <1>8, <3>2 DEF HeldTrue
    <3>3. CASE m \notin DOMAIN s.got
      BY <1>8, <1>11, <2>1, <3>1, <3>3 DEF IInv, TableFull
    <3> QED BY <3>2, <3>3
  <2> QED BY <1>6, <1>9, <1>10, <2>1 DEF TableFull
<1>14. Account'
  BY <1>4, <1>6, <1>7 DEF IInv, Account, serverVars
<1>15. CallTrue(n)'
  BY <1>4, <1>5, <1>6, <1>7 DEF CallTrue, Idle
<1>16. \A u \in Tasks : CallTrue(task[u])'
  <2>1. task'[t] = n
    BY <1>6 DEF Go, IInv, Types
  <2>2. CallTrue(task[t])'
    BY <1>15, <2>1, CallIs
  <2> QED BY <2>2 DEF OneCall
<1> QED BY <1>6, <1>10, <1>12, <1>13, <1>14, <1>16 DEF IInv

\* The call is cut short: by a request that fails, or with the process.
LEMMA EndedTrue ==
  ASSUME IInv, Types', UNCHANGED <<serverVars, cacheVars>>,
         env'.fresh = env.fresh, env'.open = env.open,
         \A u \in Tasks : task'[u] = Idle \/ (OneCall /\ \E t \in Tasks : task'[t] = Idle)
  PROVE  IInv'
<1>1. LogTrue' /\ TableTrue' /\ TableFull'
  <2>1. LogTrue'
    BY LogKept DEF IInv
  <2>2. TableTrue'
    BY SameLog DEF IInv, TableTrue, Right, serverVars, cacheVars
  <2>3. TableFull'
    BY SameLog DEF IInv, TableFull, serverVars, cacheVars
  <2> QED BY <2>1, <2>2, <2>3
<1>2. Account'
  BY DEF IInv, Account, serverVars, cacheVars
<1>3. ASSUME NEW u \in Tasks PROVE CallTrue(task[u])'
  <2>1. task'[u] = Idle
    BY DEF OneCall
  <2>2. CallTrue(Idle)'
    BY DEF CallTrue, Idle
  <2> QED BY <2>1, <2>2, CallIs
<1> QED BY <1>1, <1>2, <1>3 DEF IInv

LEMMA FailTrue ==
  ASSUME IInv, OneCall, NEW t \in Tasks, Fail(t)
  PROVE  IInv'
<1>1. Types' /\ UNCHANGED <<serverVars, cacheVars>> /\ task'[t] = Idle
  BY FailTyped DEF IInv, Types, Fail, Go
<1>2. env'.fresh = env.fresh /\ env'.open = env.open
  BY DEF Fail, IInv, Types, Environments
<1> QED BY <1>1, <1>2, EndedTrue

LEMMA CrashTrue ==
  ASSUME IInv, OneCall, Crash
  PROVE  IInv'
<1>1. Types' /\ UNCHANGED <<serverVars, cacheVars>> /\ \A u \in Tasks : task'[u] = Idle
  BY CrashTyped DEF IInv, Crash
<1>2. env'.fresh = env.fresh /\ env'.open = env.open
  BY DEF Crash, IInv, Types, Environments
<1> QED BY <1>1, <1>2, EndedTrue

\* The server changes a message, whatever the call holds.
LEMMA ServerCall ==
  ASSUME Types, LogTrue, NEW m \in Emails, Changed(m), UNCHANGED <<cacheVars, env>>, NEW s \in Calls,
         s.pc \in Holding => s.since <= Token
  PROVE  /\ CallTrue(s) => CallTrue(s)'
         /\ s.pc \in {"saveHead", "progress", "prune"} /\ HeldTrue(s) => HeldTrue(s)'
         /\ s.pc \in {"saveHead", "progress", "prune"} /\ HeldFull(s) => HeldFull(s)'
<1> DEFINE Keeps(since) ==
      \A n \in Emails :
        /\ \A copy : Right(n, copy, since) => (LastChange(n)' <= since => copy = mail'[n])
        /\ LastChange(n)' <= since => LastChange(n) <= since /\ mail'[n] = mail[n]
        /\ LastChange(n) > since => LastChange(n)' > since
        /\ mail'[n] = NULL => mail[n] = NULL \/ LastChange(n)' > since
        /\ Gone(n) => Gone(n)'
<1>0. Token \in Nat /\ (s.pc \in Holding => s.since \in Nat)
  BY TokenNat, CallFacts DEF Types, TypeOK
<1>1. s.pc \in Holding => Keeps(s.since)
  BY ServerKeeps, CallFacts
<1>2. s.pc \in {"save", "saveHead", "progress", "prune"} => DOMAIN s.got \subseteq Emails
  BY CallFacts, AnswerFacts
<1>3. s.pc \in {"get", "save"} => s.destroyed \subseteq Emails
  BY CallFacts
<1>4. s.pc = "get" => s.ids \subseteq Emails
  BY CallFacts
<1> HIDE DEF Keeps
<1>5. s.pc \in {"save", "saveHead", "progress", "prune"} /\ HeldTrue(s) => HeldTrue(s)'
  BY <1>1, <1>2 DEF HeldTrue, Keeps, Holding, Right
<1>6. s.pc \in {"saveHead", "progress", "prune"} /\ HeldFull(s) => HeldFull(s)'
  <2> SUFFICES ASSUME s.pc \in {"saveHead", "progress", "prune"}, HeldFull(s),
                      PageSize >= Cardinality(Emails), NEW n \in Emails, mail'[n] # NULL,
                      s.box \in mail'[n].boxes, LastChange(n)' <= s.since
               PROVE  n \in DOMAIN s.got
    BY DEF HeldFull
  <2> QED BY <1>1 DEF HeldFull, Keeps, Holding
<1>7. s.pc = "get" /\ CallTrue(s) => CallTrue(s)'
  <2> SUFFICES ASSUME s.pc = "get", CallTrue(s) PROVE CallTrue(s)'
    OBVIOUS
  <2>1. WindowTrue(s)'
    BY <1>1, <1>3 DEF CallTrue, WindowTrue, Keeps, Holding, cacheVars
  <2>2. \A n \in Emails \ (s.destroyed \cup s.ids) :
          LastChange(n)' <= s.since => LastChange(n)' <= cursor
    BY <1>0 DEF CallTrue, Changed, Holding
  <2>3. \A n \in s.ids : mail'[n] = NULL => LastChange(n)' > s.since
    BY <1>1, <1>4 DEF CallTrue, Keeps, Holding
  <2> QED BY <2>1, <2>2, <2>3 DEF CallTrue, cacheVars
<1>8. s.pc = "save" /\ CallTrue(s) => CallTrue(s)'
  <2> SUFFICES ASSUME s.pc = "save", CallTrue(s) PROVE CallTrue(s)'
    OBVIOUS
  <2>1. WindowTrue(s)'
    BY <1>1, <1>3 DEF CallTrue, WindowTrue, Keeps, Holding, cacheVars
  <2>2. HeldTrue(s)'
    BY <1>5 DEF CallTrue
  <2>3. \A n \in Emails \ (s.destroyed \cup DOMAIN s.got) :
          LastChange(n)' <= s.since => LastChange(n)' <= cursor
    BY <1>0 DEF CallTrue, Changed, Holding
  <2> QED BY <2>1, <2>2, <2>3 DEF CallTrue, cacheVars
<1>9. s.pc = "saveHead" /\ CallTrue(s) => CallTrue(s)'
  <2> SUFFICES ASSUME s.pc = "saveHead", CallTrue(s) PROVE CallTrue(s)'
    OBVIOUS
  <2>1. HeldTrue(s)' /\ HeldFull(s)'
    BY <1>5, <1>6 DEF CallTrue
  <2> QED BY <2>1 DEF CallTrue, cacheVars
<1>10. s.pc \notin {"get", "save", "saveHead"} /\ CallTrue(s) => CallTrue(s)'
  BY DEF CallTrue, cacheVars
<1> QED BY <1>5, <1>6, <1>7, <1>8, <1>9, <1>10

LEMMA ServerTrue ==
  ASSUME IInv, Server
  PROVE  IInv'
<1>1. Types' /\ UNCHANGED <<cacheVars, task, env>> /\ ServerTypeOK /\ LogTrue /\ Types /\ Token \in Nat
  BY ServerStepTyped, TokenNat DEF IInv, Server, Types, TypeOK
<1>2. LogTrue' /\ \E m \in Emails : Changed(m)
  BY <1>1, ServerEffect DEF Server
<1>3. PICK m \in Emails : Changed(m)
  BY <1>2
<1>4. cursor # NULL => /\ cursor \in Nat
                       /\ \A n \in Emails : /\ \A copy : Right(n, copy, cursor) =>
                                                  (LastChange(n)' <= cursor => copy = mail'[n])
                                            /\ LastChange(n)' <= cursor =>
                                                 LastChange(n) <= cursor /\ mail'[n] = mail[n]
  BY <1>1, <1>3, ServerKeeps DEF Types, TypeOK
<1>5. TableTrue'
  BY <1>1, <1>4 DEF IInv, TableTrue, cacheVars, Right
<1>6. TableFull'
  <2>1. CASE cursor = NULL
    BY <1>1, <2>1 DEF IInv, Account, TableFull, cacheVars
  <2>2. CASE cursor # NULL
    BY <1>1, <1>4, <2>2 DEF IInv, TableFull, cacheVars
  <2> QED BY <2>1, <2>2
<1>7. Account'
  <2>1. horizon' = horizon
    BY DEF Server, ServerChange, ServerCreate, ServerUpdate, ServerDestroy, Record
  <2> QED BY <1>1, <2>1 DEF IInv, Account, cacheVars
<1>8. ASSUME NEW t \in Tasks PROVE CallTrue(task[t])'
  <2>1. PICK s : s = task[t]
    OBVIOUS
  <2>2. s \in Calls /\ CallTrue(s) /\ (s.pc \in Holding => s.since <= Token) /\ task'[t] = s
    BY <1>1, <2>1 DEF IInv, Types
  <2>3. CallTrue(s)'
    BY <1>1, <1>3, <2>2, ServerCall
  <2> QED BY <2>2, <2>3, CallIs
<1> QED BY <1>1, <1>2, <1>5, <1>6, <1>7, <1>8 DEF IInv

-----------------------------------------------------------------------------
\* The invariant and what follows from it.
LEMMA InitTrue == OneCall /\ Init => IInv
<1> SUFFICES ASSUME OneCall, Init PROVE IInv
  OBVIOUS
<1>1. Types
  BY InitTypes
<1>2. Token = 0 /\ \A m : LastChange(m) = 0 /\ ~Logged(m)
  BY DEF Init, Token, LastChange, Logged
<1>3. LogTrue
  BY <1>2 DEF LogTrue, Gone
<1>4. \A m \in Emails : table[m] = IF env.fresh THEN NULL ELSE mail[m]
  BY DEF Init
<1>5. TableTrue
  BY <1>4 DEF Init, TableTrue, Right
<1>6. TableFull
  BY <1>4 DEF Init, TableFull
<1>7. Account
  <2>1. env.fresh => \E b \in Mailboxes : env.open \subseteq {b}
    BY DEF OneCall, Init
  <2>2. env.fresh \in BOOLEAN /\ env.open \subseteq Mailboxes
    BY <1>1 DEF Types, Environments
  <2>3. ~env.fresh => cursor # NULL /\ populated = Mailboxes
    BY <2>2, ServerAssumption DEF Init
  <2>4. env.fresh => cursor = NULL /\ populated = {}
    BY DEF Init
  <2> QED BY <1>4, <2>1, <2>2, <2>3, <2>4 DEF Account, Init
<1>8. \A t \in Tasks : CallTrue(task[t])
  BY DEF Init, CallTrue, Idle
<1> QED BY <1>1, <1>3, <1>5, <1>6, <1>7, <1>8 DEF IInv

\* Every step but the one with which the server drops the start of its log.
LEMMA StepTrue == OneCall /\ IInv /\ [Next]_vars /\ horizon' = 0 => IInv'
<1> SUFFICES ASSUME OneCall, IInv, [Next]_vars, horizon' = 0 PROVE IInv'
  OBVIOUS
<1>1. ASSUME NEW t \in Tasks, NEW b \in env.open, Start(t, b) PROVE IInv'
  BY <1>1, StartTrue
<1>2. ASSUME NEW t \in Tasks, Work(t) PROVE IInv'
  BY <1>2, CheckPopulatedTrue, ChangesTrue, GetSummariesTrue, DeltaEmailBatchTrue,
     QueryAndGetTrue, SaveHeadTrue, ReadProgressTrue, PruneHeadTrue DEF Work
<1>3. ASSUME NEW t \in Tasks, Fail(t) PROVE IInv'
  BY <1>3, FailTrue
<1>4. CASE Crash
  BY <1>4, CrashTrue
<1>5. ~Forget
  <2>1. horizon = 0 /\ Token \in Nat
    BY TokenNat DEF IInv, Account, Types, TypeOK
  <2> QED BY <2>1 DEF Forget, ServerForget
<1>6. CASE Server
  BY <1>6, ServerTrue
<1>7. CASE UNCHANGED vars
  <2>1. UNCHANGED <<serverVars, cacheVars, env, task>>
    BY <1>7 DEF vars, serverVars, cacheVars
  <2>2. Types'
    BY StepTypes DEF IInv
  <2>3. LogTrue' /\ TableTrue' /\ TableFull' /\ Account'
    BY <2>1, RestKept
  <2>4. ASSUME NEW t \in Tasks PROVE CallTrue(task[t])'
    <3>1. CallTrue(task[t])
      BY DEF IInv
    <3>2. \A m : LastChange(m)' = LastChange(m) /\ (Gone(m)' <=> Gone(m))
      BY <2>1, SameLog
    <3> QED BY <2>1, <3>1, <3>2
            DEF CallTrue, WindowTrue, HeldTrue, HeldFull, Right, serverVars, cacheVars
  <2> QED BY <2>2, <2>3, <2>4 DEF IInv
<1> QED BY <1>1, <1>2, <1>3, <1>4, <1>5, <1>6, <1>7 DEF Next, Ordinary, Work

LEMMA IInvStale == IInv => NothingStale
<1> SUFFICES ASSUME IInv PROVE NothingStale
  OBVIOUS
<1>1. ASSUME NEW b \in populated, NEW m \in View(b), LastChange(m) <= cursor
      PROVE  table[m] = mail[m]
  <2>1. m \in Emails /\ table[m] # NULL
    BY DEF View
  <2>2. cursor # NULL
    BY DEF IInv, Account
  <2> QED BY <1>1, <2>1, <2>2 DEF IInv, TableTrue, Right
<1> QED BY <1>1 DEF NothingStale

LEMMA IInvMissing == IInv => NothingMissing
<1> SUFFICES ASSUME IInv, PageSize >= Cardinality(Emails),
                    NEW b \in populated, NEW m \in InBox(b), LastChange(m) <= cursor
             PROVE  m \in View(b)
  BY DEF NothingMissing
<1>1. m \in Emails /\ mail[m] # NULL /\ b \in mail[m].boxes
  BY DEF InBox, Alive
<1>2. table[m] # NULL
  BY <1>1 DEF IInv, TableFull
<1>3. cursor # NULL
  BY DEF IInv, Account
<1>4. table[m] = mail[m]
  BY <1>1, <1>2, <1>3 DEF IInv, TableTrue, Right
<1> QED BY <1>1, <1>2, <1>4 DEF View

-----------------------------------------------------------------------------
\* One folder whose head sync may come again.

\* When Email/changes gives up, the head sync starts over on rows of any age: what it
\* does not save and prune stays in the cache, but not in the folder.
Folder(b) ==
  /\ env.crashes = 0 /\ env.open \subseteq {b} /\ populated \subseteq {b}
  /\ populated # {} => cursor # NULL
  /\ progress[b] = NULL

RowsTrue(b) ==
  cursor # NULL /\ ~Pruning(b) => \A m \in View(b) : Right(m, table[m], cursor)

RowsFull(b) ==
  PageSize >= Cardinality(Emails) /\ b \in populated =>
    \A m \in InBox(b) : Right(m, table[m], cursor)

FolderCall(s, b) ==
  /\ s.pc # "idle" => s.box = b /\ b \in env.open
  /\ s.pc \in {"populated", "changes", "get", "save"} => CallTrue(s)
  /\ s.pc \in {"saveHead", "progress", "prune"} => HeldTrue(s) /\ HeldFull(s)
  /\ s.pc \in {"progress", "prune"} =>
       s.since = cursor /\ \A m \in DOMAIN s.got : table[m] = s.got[m]

FolderInv(b) ==
  /\ Types /\ LogTrue /\ Folder(b) /\ RowsTrue(b) /\ RowsFull(b)
  /\ \A t \in Tasks : FolderCall(task[t], b)

\* The call is at n after the step.
LEMMA FolderCallIs ==
  ASSUME NEW b, NEW t \in Tasks, NEW n, task'[t] = n, FolderCall(n, b)'
  PROVE  FolderCall(task[t], b)'
BY DEF FolderCall, CallTrue, WindowTrue, HeldTrue, HeldFull, Right

\* A call's state means the same after a step that leaves server and tables alone.
LEMMA SameCall ==
  ASSUME UNCHANGED <<serverVars, cacheVars>>, env'.open = env.open, NEW b, NEW n
  PROVE  FolderCall(n, b) => FolderCall(n, b)'
<1>1. \A m : LastChange(m)' = LastChange(m) /\ (Gone(m)' <=> Gone(m))
  BY SameLog
<1> QED BY <1>1 DEF FolderCall, CallTrue, WindowTrue, HeldTrue, HeldFull, Right, serverVars, cacheVars

\* A step that changes no table and does not end a prune.
LEMMA RowsKept ==
  ASSUME NEW b, RowsTrue(b), RowsFull(b), UNCHANGED <<serverVars, cacheVars>>,
         Pruning(b) => Pruning(b)'
  PROVE  RowsTrue(b)' /\ RowsFull(b)'
<1>1. \A m : LastChange(m)' = LastChange(m)
  BY SameLog
<1>2. View(b)' = View(b) /\ InBox(b)' = InBox(b)
  BY DEF View, InBox, Alive, serverVars, cacheVars
<1> QED BY <1>1, <1>2 DEF RowsTrue, RowsFull, Right, serverVars, cacheVars

\* Such a step of the call.
LEMMA FolderStep ==
  ASSUME OneCall, NEW b \in Mailboxes, FolderInv(b), NEW t \in Tasks, NEW n \in Calls, Go(t, n),
         Types', UNCHANGED <<serverVars, cacheVars, env>>, FolderCall(n, b),
         task[t].pc \in {"progress", "prune"} => n.pc \in {"progress", "prune"}
  PROVE  FolderInv(b)'
<1>1. task'[t] = n /\ \A u \in Tasks : u = t
  BY DEF Go, FolderInv, Types, OneCall
<1>2. Pruning(b) => Pruning(b)'
  BY <1>1 DEF Pruning, FolderCall
<1>3. LogTrue' /\ RowsTrue(b)' /\ RowsFull(b)'
  BY <1>2, LogKept, RowsKept DEF FolderInv
<1>4. Folder(b)'
  BY DEF FolderInv, Folder, cacheVars
<1>5. FolderCall(task[t], b)'
  BY <1>1, SameCall, FolderCallIs
<1> QED BY <1>1, <1>3, <1>4, <1>5 DEF FolderInv

LEMMA FolderStart ==
  ASSUME OneCall, NEW b \in Mailboxes, FolderInv(b), NEW t \in Tasks, NEW c \in env.open, Start(t, c)
  PROVE  FolderInv(b)'
<1>1. PICK n : n = IF cursor = NULL THEN [pc |-> "query", box |-> c]
                   ELSE [pc |-> "populated", box |-> c, since |-> cursor]
  OBVIOUS
<1>2. Types' /\ Go(t, n) /\ UNCHANGED <<serverVars, cacheVars, env>> /\ task[t].pc = "idle"
  BY <1>1, StartTyped DEF FolderInv, Start
<1>3. c = b /\ cursor \in Nat \cup {NULL} /\ Token \in Nat
  BY TokenNat DEF FolderInv, Folder, Types, TypeOK
<1>4. n \in Calls
  BY <1>1, <1>3 DEF Calls
<1>5. FolderCall(n, b)
  BY <1>1, <1>3 DEF FolderCall, CallTrue
<1> QED BY <1>2, <1>4, <1>5, FolderStep

LEMMA FolderCheckPopulated ==
  ASSUME OneCall, NEW b \in Mailboxes, FolderInv(b), NEW t \in Tasks, CheckPopulated(t)
  PROVE  FolderInv(b)'
<1>1. PICK s : s = task[t]
  OBVIOUS
<1>2. s \in Calls /\ s.pc = "populated" /\ FolderCall(s, b)
  BY <1>1 DEF CheckPopulated, FolderInv, Types
<1>3. s.box = b /\ b \in env.open /\ cursor # NULL /\ s.since = cursor /\ s.since \in Nat
  BY <1>2, CallFacts DEF FolderCall, CallTrue, Holding
<1>4. PICK n : n = IF s.box \in populated
                   THEN [pc |-> "changes", box |-> s.box, since |-> s.since, round |-> 1]
                   ELSE [pc |-> "query", box |-> s.box]
  OBVIOUS
<1>5. Types' /\ Go(t, n) /\ UNCHANGED <<serverVars, cacheVars, env>>
  BY <1>1, <1>4, CheckPopulatedTyped DEF FolderInv, CheckPopulated
<1>6. n \in Calls
  BY <1>3, <1>4 DEF Calls
<1>7. FolderCall(n, b)
  BY <1>3, <1>4 DEF FolderCall, CallTrue
<1> QED BY <1>1, <1>2, <1>5, <1>6, <1>7, FolderStep

\* A window of the log, or a head sync again.
LEMMA FolderChanges ==
  ASSUME OneCall, NEW b \in Mailboxes, FolderInv(b), NEW t \in Tasks, Changes(t)
  PROVE  FolderInv(b)'
<1>1. /\ task[t].pc = "changes" /\ FolderCall(task[t], b) /\ CallTrue(task[t])
      /\ task[t].box = b /\ b \in env.open
  BY DEF Changes, FolderInv, FolderCall
<1>2. Types' /\ UNCHANGED <<serverVars, cacheVars, env>>
  BY ChangesTyped DEF FolderInv, Changes
<1>3. CASE task[t].since < horizon
  <2>1. PICK n : n = [pc |-> "query", box |-> b]
    OBVIOUS
  <2>2. n \in Calls /\ FolderCall(n, b) /\ Go(t, n)
    BY <1>1, <1>3, <2>1 DEF Calls, FolderCall, Changes
  <2> QED BY <1>1, <1>2, <2>2, FolderStep
<1>4. CASE ~(task[t].since < horizon)
  <2>1. PICK n \in Calls : n.pc = "get" /\ n.box = task[t].box /\ Go(t, n) /\ CallTrue(n)
    BY <1>1, <1>4, ChangesCall DEF FolderInv
  <2>2. FolderCall(n, b)
    BY <1>1, <2>1 DEF FolderCall
  <2> QED BY <1>1, <1>2, <2>1, <2>2, FolderStep
<1> QED BY <1>3, <1>4

LEMMA FolderGetSummaries ==
  ASSUME OneCall, NEW b \in Mailboxes, FolderInv(b), NEW t \in Tasks, GetSummaries(t)
  PROVE  FolderInv(b)'
<1>1. task[t].pc = "get" /\ CallTrue(task[t]) /\ task[t].box = b /\ b \in env.open
  BY DEF GetSummaries, FolderInv, FolderCall
<1>2. PICK n \in Calls : n.pc = "save" /\ n.box = task[t].box /\ Go(t, n) /\ CallTrue(n)
  BY <1>1, GetSummariesCall DEF FolderInv
<1>3. FolderCall(n, b)
  BY <1>1, <1>2 DEF FolderCall
<1>4. Types' /\ UNCHANGED <<serverVars, cacheVars, env>>
  BY GetSummariesTyped DEF FolderInv, GetSummaries
<1> QED BY <1>1, <1>2, <1>3, <1>4, FolderStep

LEMMA FolderQueryAndGet ==
  ASSUME OneCall, NEW b \in Mailboxes, FolderInv(b), NEW t \in Tasks, QueryAndGet(t)
  PROVE  FolderInv(b)'
<1>1. task[t].pc = "query" /\ task[t].box = b /\ b \in env.open
  BY DEF QueryAndGet, FolderInv, FolderCall
<1>2. PICK n \in Calls : /\ n.pc = "saveHead" /\ n.box = task[t].box /\ Go(t, n)
                        /\ HeldTrue(n) /\ HeldFull(n)
  BY QueryAndGetCall DEF FolderInv
<1>3. FolderCall(n, b)
  BY <1>1, <1>2 DEF FolderCall
<1>4. Types' /\ UNCHANGED <<serverVars, cacheVars, env>>
  BY QueryAndGetTyped DEF FolderInv, QueryAndGet
<1> QED BY <1>1, <1>2, <1>3, <1>4, FolderStep

\* No progress row, so the head sync prunes.
LEMMA FolderReadProgress ==
  ASSUME OneCall, NEW b \in Mailboxes, FolderInv(b), NEW t \in Tasks, ReadProgress(t)
  PROVE  FolderInv(b)'
<1>1. PICK s : s = task[t]
  OBVIOUS
<1>2. s \in Calls /\ s.pc = "progress" /\ FolderCall(s, b) /\ s.box = b
  BY <1>1 DEF ReadProgress, FolderInv, FolderCall, Types
<1>3. PICK n : n = [s EXCEPT !.pc = "prune"]
  OBVIOUS
<1>4. n \in Calls /\ n.pc = "prune" /\ n.box = s.box /\ n.since = s.since /\ n.got = s.got
  BY <1>2, <1>3, HeadMovesOn
<1>5. FolderCall(n, b)
  BY <1>2, <1>4 DEF FolderCall, HeldTrue, HeldFull
<1>6. Types' /\ Go(t, n) /\ UNCHANGED <<serverVars, cacheVars, env>>
  BY <1>1, <1>2, <1>3, ReadProgressTyped DEF FolderInv, Folder, ReadProgress, Step
<1> QED BY <1>4, <1>5, <1>6, FolderStep

\* The page is saved: the folder has its messages, and perhaps others until the prune.
LEMMA FolderSaveHead ==
  ASSUME OneCall, NEW b \in Mailboxes, FolderInv(b), NEW t \in Tasks, SaveHead(t)
  PROVE  FolderInv(b)'
<1>1. PICK s : s = task[t]
  OBVIOUS
<1>2. /\ s \in Calls /\ s.pc = "saveHead" /\ s.box = b /\ b \in env.open
      /\ HeldTrue(s) /\ HeldFull(s) /\ s.since \in Nat /\ s.got \in Answers
  BY <1>1, CallFacts DEF SaveHead, FolderInv, FolderCall, Types, Holding
<1>3. PICK n : n = [s EXCEPT !.pc = "progress"]
  OBVIOUS
<1>4. n \in Calls /\ n.pc = "progress" /\ n.box = s.box /\ n.since = s.since /\ n.got = s.got
  BY <1>2, <1>3, HeadMovesOn
<1>5. /\ Types' /\ Go(t, n) /\ UNCHANGED <<serverVars, progress, env>>
      /\ table' = Save(table, s.got) /\ cursor' = s.since /\ populated' = populated \cup {s.box}
  BY <1>1, <1>3, SaveHeadTyped DEF FolderInv, SaveHead, Step
<1>6. task'[t] = n /\ \A u \in Tasks : u = t
  BY <1>5 DEF Go, FolderInv, Types, OneCall
<1>7. cursor' # NULL
  BY <1>2, <1>5, ServerAssumption
<1>8. \A m \in DOMAIN s.got : m \in Emails /\ table'[m] = s.got[m]
  BY <1>2, <1>5, AnswerFacts DEF Save
<1>9. \A m : LastChange(m)' = LastChange(m)
  BY <1>5, SameLog
<1>10. LogTrue' /\ mail' = mail /\ InBox(b)' = InBox(b)
  BY <1>5, LogKept DEF FolderInv, serverVars, InBox, Alive
<1>11. Folder(b)'
  BY <1>2, <1>5, <1>7 DEF FolderInv, Folder
<1>12. RowsTrue(b)'
  <2>1. Pruning(b)'
    BY <1>2, <1>4, <1>6 DEF Pruning
  <2> QED BY <2>1 DEF RowsTrue
<1>13. RowsFull(b)'
  <2>1. ASSUME PageSize >= Cardinality(Emails), NEW m \in InBox(b), LastChange(m) <= s.since
        PROVE  table'[m] = mail[m]
    <3>1. m \in DOMAIN s.got
      BY <1>2, <2>1 DEF HeldFull, InBox, Alive
    <3> QED BY <1>2, <1>8, <2>1, <3>1 DEF HeldTrue, Right
  <2> QED BY <1>5, <1>9, <1>10, <2>1 DEF RowsFull, Right
<1>14. FolderCall(n, b)'
  BY <1>2, <1>4, <1>5, <1>8, <1>9, <1>10 DEF FolderCall, HeldTrue, HeldFull, Right
<1>15. FolderCall(task[t], b)'
  BY <1>6, <1>14, FolderCallIs
<1> QED BY <1>5, <1>6, <1>10, <1>11, <1>12, <1>13, <1>15 DEF FolderInv

\* Whatever age it has, a row the page does not have leaves the folder.
LEMMA FolderPruneHead ==
  ASSUME OneCall, NEW b \in Mailboxes, FolderInv(b), NEW t \in Tasks, PruneHead(t)
  PROVE  FolderInv(b)'
<1>1. PICK s : s = task[t]
  OBVIOUS
<1>2. /\ s \in Calls /\ s.pc = "prune" /\ s.box = b /\ HeldTrue(s) /\ HeldFull(s) /\ s.since = cursor
      /\ \A m \in DOMAIN s.got : table[m] = s.got[m]
  BY <1>1 DEF PruneHead, FolderInv, FolderCall, Types
<1>3. /\ Types' /\ Go(t, Idle) /\ UNCHANGED <<serverVars, cursor, populated, progress, env>>
      /\ table' = Prune(table, b, DOMAIN s.got)
  BY <1>1, <1>2, PruneHeadTyped DEF FolderInv, PruneHead
<1>4. task'[t] = Idle /\ \A u \in Tasks : u = t
  BY <1>3 DEF Go, FolderInv, Types, OneCall
<1>5. \A m : LastChange(m)' = LastChange(m)
  BY <1>3, SameLog
<1>6. LogTrue' /\ mail' = mail /\ InBox(b)' = InBox(b)
  BY <1>3, LogKept DEF FolderInv, serverVars, InBox, Alive
<1>7. /\ \A m \in Emails : m \in DOMAIN s.got => table'[m] = table[m]
      /\ \A m \in Emails : m \notin DOMAIN s.got /\ table'[m] # NULL => b \notin table'[m].boxes
  <2>1. table \in [Emails -> Content \cup {NULL}]
    BY DEF FolderInv, Types, TypeOK
  <2>2. \A m \in Emails : table'[m] = IF table[m] # NULL /\ b \in table[m].boxes /\ m \notin DOMAIN s.got
                                      THEN LeaveBox(table[m], b) ELSE table[m]
    BY <1>3 DEF Prune
  <2>3. ASSUME NEW c \in Content, LeaveBox(c, b) # NULL PROVE b \notin LeaveBox(c, b).boxes
    BY <2>3 DEF LeaveBox, Content
  <2> QED BY <2>1, <2>2, <2>3
<1>8. Folder(b)'
  BY <1>3 DEF FolderInv, Folder
<1>9. RowsTrue(b)'
  <2>1. ASSUME NEW m \in View(b)', LastChange(m) <= cursor PROVE table'[m] = mail[m]
    <3>1. m \in Emails /\ m \in DOMAIN s.got
      BY <1>7, <2>1 DEF View
    <3> QED BY <1>2, <1>7, <2>1, <3>1 DEF HeldTrue, Right
  <2> QED BY <1>3, <1>5, <1>6, <2>1 DEF RowsTrue, Right
<1>10. RowsFull(b)'
  <2>1. ASSUME PageSize >= Cardinality(Emails), NEW m \in InBox(b), LastChange(m) <= cursor
        PROVE  table'[m] = mail[m]
    <3>1. m \in Emails /\ m \in DOMAIN s.got
      BY <1>2, <2>1 DEF HeldFull, InBox, Alive
    <3> QED BY <1>2, <1>7, <2>1, <3>1 DEF HeldTrue, Right
  <2> QED BY <1>3, <1>5, <1>6, <2>1 DEF RowsFull, Right
<1>11. FolderCall(task[t], b)'
  <2>1. FolderCall(Idle, b)'
    BY DEF FolderCall, Idle
  <2> QED BY <1>4, <2>1, FolderCallIs
<1> QED BY <1>3, <1>4, <1>6, <1>8, <1>9, <1>10, <1>11 DEF FolderInv

LEMMA FolderDeltaEmailBatch ==
  ASSUME OneCall, NEW b \in Mailboxes, FolderInv(b), NEW t \in Tasks, DeltaEmailBatch(t)
  PROVE  FolderInv(b)'
<1>1. PICK s : s = task[t]
  OBVIOUS
<1>2. s \in Calls /\ s.pc = "save" /\ CallTrue(s) /\ s.box = b /\ b \in env.open
  BY <1>1 DEF DeltaEmailBatch, FolderInv, FolderCall, Types
<1>3. s.since \in Nat /\ s.round \in Nat /\ s.got \in Answers
  BY <1>2, CallFacts DEF Holding
<1>4. cursor # NULL /\ WindowTrue(s) /\ HeldTrue(s)
  BY <1>2 DEF CallTrue, WindowTrue
<1>5. PICK n : n = IF s.more /\ s.round < MaxRounds
                   THEN [pc |-> "changes", box |-> s.box, since |-> s.since, round |-> s.round + 1]
                   ELSE Idle
  OBVIOUS
<1>6. /\ Types' /\ Go(t, n) /\ UNCHANGED <<serverVars, populated, progress, env>>
      /\ table' = Save(Delete(table, s.destroyed), s.got) /\ cursor' = s.since
  BY <1>1, <1>5, DeltaEmailBatchTyped DEF FolderInv, DeltaEmailBatch
<1>7. task'[t] = n /\ \A u \in Tasks : u = t
  BY <1>6 DEF Go, FolderInv, Types, OneCall
<1>8. cursor' # NULL /\ ~Pruning(b)
  BY <1>1, <1>2, <1>3, <1>6, <1>7, ServerAssumption DEF Pruning
<1>9. \A m \in Emails : table'[m] = IF m \in DOMAIN s.got THEN s.got[m]
                                    ELSE IF m \in s.destroyed THEN NULL ELSE table[m]
  BY <1>6 DEF Save, Delete
<1>10. \A m : LastChange(m)' = LastChange(m)
  BY <1>6, SameLog
<1>11. LogTrue' /\ mail' = mail /\ InBox(b)' = InBox(b)
  BY <1>6, LogKept DEF FolderInv, serverVars, InBox, Alive
<1>12. \A m \in Emails \ (s.destroyed \cup DOMAIN s.got) :
         LastChange(m) <= s.since => LastChange(m) <= cursor
  BY <1>2 DEF CallTrue
<1>13. RowsTrue(b)'
  <2>1. ASSUME NEW m \in View(b)', LastChange(m) <= s.since PROVE table'[m] = mail[m]
    <3>1. m \in Emails /\ table'[m] # NULL /\ b \in table'[m].boxes
      BY DEF View
    <3>2. CASE m \in DOMAIN s.got
      BY <1>4, <1>9, <2>1, <3>1, <3>2 DEF HeldTrue, Right
    <3>3. CASE m \notin DOMAIN s.got
      <4>1. table'[m] = table[m] /\ m \notin s.destroyed
        BY <1>9, <3>1, <3>3
      <4>2. m \in View(b) /\ LastChange(m) <= cursor
        BY <1>12, <2>1, <3>1, <3>3, <4>1 DEF View
      <4> QED BY <1>4, <1>8, <4>1, <4>2 DEF FolderInv, RowsTrue, Right
    <3> QED BY <3>2, <3>3
  <2> QED BY <1>6, <1>10, <1>11, <2>1 DEF RowsTrue, Right
<1>14. RowsFull(b)'
  <2>1. ASSUME PageSize >= Cardinality(Emails), b \in populated, NEW m \in InBox(b), LastChange(m) <= s.since
        PROVE  table'[m] = mail[m]
    <3>1. m \in Emails /\ mail[m] # NULL
      BY DEF InBox, Alive
    <3>2. m \notin s.destroyed
      BY <1>4, <3>1 DEF WindowTrue, Gone
    <3>3. CASE m \in DOMAIN s.got
      BY <1>4, <1>9, <2>1, <3>1, <3>3 DEF HeldTrue, Right
    <3>4. CASE m \notin DOMAIN s.got
      BY <1>9, <1>12, <2>1, <3>1, <3>2, <3>4 DEF FolderInv, RowsFull, Right
    <3> QED BY <3>3, <3>4
  <2> QED BY <1>6, <1>10, <1>11, <2>1 DEF RowsFull, Right
<1>15. Folder(b)'
  BY <1>6, <1>8 DEF FolderInv, Folder
<1>16. FolderCall(n, b)'
  BY <1>2, <1>5, <1>6, <1>8 DEF FolderCall, CallTrue, Idle
<1>17. FolderCall(task[t], b)'
  BY <1>7, <1>16, FolderCallIs
<1> QED BY <1>6, <1>7, <1>11, <1>13, <1>14, <1>15, <1>17 DEF FolderInv

\* No request is made between a head sync and its prune.
LEMMA FolderFail ==
  ASSUME OneCall, NEW b \in Mailboxes, FolderInv(b), NEW t \in Tasks, Fail(t)
  PROVE  FolderInv(b)'
<1>1. /\ Types' /\ UNCHANGED <<serverVars, cacheVars>> /\ task'[t] = Idle
      /\ task[t].pc \notin {"progress", "prune"} /\ \A u \in Tasks : u = t
  BY FailTyped DEF FolderInv, Types, Fail, Go, OneCall
<1>2. env'.open = env.open /\ env'.crashes = env.crashes
  BY DEF Fail, FolderInv, Types, Environments
<1>3. ~Pruning(b)
  BY <1>1 DEF Pruning
<1>4. LogTrue' /\ RowsTrue(b)' /\ RowsFull(b)'
  BY <1>1, <1>3, LogKept, RowsKept DEF FolderInv
<1>5. Folder(b)'
  BY <1>1, <1>2 DEF FolderInv, Folder, cacheVars
<1>6. FolderCall(task[t], b)'
  <2>1. FolderCall(Idle, b)'
    BY DEF FolderCall, Idle
  <2> QED BY <1>1, <2>1, FolderCallIs
<1> QED BY <1>1, <1>4, <1>5, <1>6 DEF FolderInv

\* The log loses its start; the call will hear of it at its next Email/changes.
LEMMA FolderForget ==
  ASSUME NEW b \in Mailboxes, FolderInv(b), Forget
  PROVE  FolderInv(b)'
<1>1. /\ Types' /\ UNCHANGED <<mail, log, cacheVars, task>>
      /\ env'.open = env.open /\ env'.crashes = env.crashes
  BY ForgetTyped DEF FolderInv, Forget, ServerForget, Types, Environments
<1>2. \A m : LastChange(m)' = LastChange(m) /\ (Gone(m)' <=> Gone(m))
  BY <1>1 DEF LastChange, Gone, Logged, Token
<1>3. LogTrue'
  BY DEF Forget, ServerForget, FolderInv, LogTrue, Gone, Logged, LastAt, LastChange, Token
<1>4. Folder(b)'
  BY <1>1 DEF FolderInv, Folder, cacheVars
<1>5. View(b)' = View(b) /\ InBox(b)' = InBox(b) /\ (Pruning(b)' <=> Pruning(b))
  BY <1>1 DEF View, InBox, Alive, Pruning, cacheVars
<1>6. RowsTrue(b)' /\ RowsFull(b)'
  BY <1>1, <1>2, <1>5 DEF FolderInv, RowsTrue, RowsFull, Right, cacheVars
<1>7. ASSUME NEW t \in Tasks PROVE FolderCall(task[t], b)'
  <2>1. FolderCall(task[t], b)
    BY DEF FolderInv
  <2> QED BY <1>1, <1>2, <2>1 DEF FolderCall, CallTrue, WindowTrue, HeldTrue, HeldFull, Right, cacheVars
<1> QED BY <1>1, <1>3, <1>4, <1>6, <1>7 DEF FolderInv

LEMMA FolderServer ==
  ASSUME NEW b \in Mailboxes, FolderInv(b), Server
  PROVE  FolderInv(b)'
<1>1. Types' /\ UNCHANGED <<cacheVars, task, env>> /\ ServerTypeOK /\ LogTrue /\ Types /\ Token \in Nat
  BY ServerStepTyped, TokenNat DEF FolderInv, Server, Types, TypeOK
<1>2. LogTrue' /\ \E m \in Emails : Changed(m)
  BY <1>1, ServerEffect DEF Server
<1>3. PICK m \in Emails : Changed(m)
  BY <1>2
<1>4. cursor # NULL => /\ cursor \in Nat
                       /\ \A n \in Emails : LastChange(n)' <= cursor =>
                            LastChange(n) <= cursor /\ mail'[n] = mail[n]
  BY <1>1, <1>3, ServerKeeps DEF Types, TypeOK
<1>5. Folder(b)'
  BY <1>1 DEF FolderInv, Folder, cacheVars
<1>6. RowsTrue(b)'
  <2>1. View(b)' = View(b) /\ View(b) \subseteq Emails /\ (Pruning(b)' <=> Pruning(b))
    BY <1>1 DEF View, Pruning, cacheVars
  <2> QED BY <1>1, <1>4, <2>1 DEF FolderInv, RowsTrue, Right, cacheVars
<1>7. RowsFull(b)'
  <2> SUFFICES ASSUME PageSize >= Cardinality(Emails), b \in populated, NEW n \in InBox(b)',
                      LastChange(n)' <= cursor
               PROVE  table[n] = mail'[n]
    BY <1>1 DEF RowsFull, Right, cacheVars
  <2>1. n \in Emails /\ mail'[n] # NULL /\ b \in mail'[n].boxes /\ cursor # NULL
    BY DEF InBox, Alive, FolderInv, Folder
  <2>2. LastChange(n) <= cursor /\ mail'[n] = mail[n]
    BY <1>4, <2>1
  <2> QED BY <2>1, <2>2 DEF FolderInv, RowsFull, Right, InBox, Alive
<1>8. ASSUME NEW t \in Tasks PROVE FolderCall(task[t], b)'
  <2>1. PICK s : s = task[t]
    OBVIOUS
  <2>2. s \in Calls /\ FolderCall(s, b) /\ (s.pc \in Holding => s.since <= Token) /\ task'[t] = s
    BY <1>1, <2>1 DEF FolderInv, Types
  <2>3. /\ CallTrue(s) => CallTrue(s)'
        /\ s.pc \in {"saveHead", "progress", "prune"} /\ HeldTrue(s) => HeldTrue(s)'
        /\ s.pc \in {"saveHead", "progress", "prune"} /\ HeldFull(s) => HeldFull(s)'
    BY <1>1, <1>3, <2>2, ServerCall
  <2>4. FolderCall(s, b)'
    BY <1>1, <2>2, <2>3 DEF FolderCall, cacheVars
  <2> QED BY <2>2, <2>4, FolderCallIs
<1> QED BY <1>1, <1>2, <1>5, <1>6, <1>7, <1>8 DEF FolderInv

LEMMA FolderInit ==
  ASSUME NEW b \in Mailboxes, Init, env.crashes = 0, env.open \subseteq {b},
         env.fresh \/ Mailboxes = {b}
  PROVE  FolderInv(b)
<1>1. Types
  BY InitTypes
<1>2. Token = 0 /\ \A m : ~Logged(m)
  BY DEF Init, Token, Logged
<1>3. LogTrue
  BY <1>2 DEF LogTrue, Gone
<1>4. /\ env.fresh => cursor = NULL /\ populated = {}
      /\ ~env.fresh => cursor # NULL /\ populated = {b} /\ table = mail
  BY ServerAssumption DEF Init
<1>5. Folder(b)
  BY <1>4 DEF Init, Folder
<1>6. RowsTrue(b) /\ RowsFull(b)
  BY <1>4 DEF RowsTrue, RowsFull, Right
<1>7. \A t \in Tasks : FolderCall(task[t], b)
  BY DEF Init, FolderCall, Idle
<1> QED BY <1>1, <1>3, <1>5, <1>6, <1>7 DEF FolderInv

LEMMA FolderNext ==
  ASSUME OneCall, NEW b \in Mailboxes, FolderInv(b), [Next]_vars
  PROVE  FolderInv(b)'
<1>1. ASSUME NEW t \in Tasks, NEW c \in env.open, Start(t, c) PROVE FolderInv(b)'
  BY <1>1, FolderStart
<1>2. ASSUME NEW t \in Tasks, Work(t) PROVE FolderInv(b)'
  BY <1>2, FolderCheckPopulated, FolderChanges, FolderGetSummaries, FolderDeltaEmailBatch,
     FolderQueryAndGet, FolderSaveHead, FolderReadProgress, FolderPruneHead DEF Work
<1>3. ASSUME NEW t \in Tasks, Fail(t) PROVE FolderInv(b)'
  BY <1>3, FolderFail
<1>4. ~Crash
  BY DEF Crash, FolderInv, Folder
<1>5. CASE Forget
  BY <1>5, FolderForget
<1>6. CASE Server
  BY <1>6, FolderServer
<1>7. CASE UNCHANGED vars
  <2>1. UNCHANGED <<serverVars, cacheVars, env, task>>
    BY <1>7 DEF vars, serverVars, cacheVars
  <2>2. Types'
    BY StepTypes DEF FolderInv
  <2>3. Pruning(b) => Pruning(b)'
    BY <2>1 DEF Pruning
  <2>4. LogTrue' /\ RowsTrue(b)' /\ RowsFull(b)'
    BY <2>1, <2>3, LogKept, RowsKept DEF FolderInv
  <2>5. Folder(b)'
    BY <2>1 DEF FolderInv, Folder, cacheVars
  <2>6. ASSUME NEW t \in Tasks PROVE FolderCall(task[t], b)'
    <3>1. FolderCall(task[t], b) /\ task'[t] = task[t]
      BY <2>1 DEF FolderInv
    <3>2. PICK n : n = task[t]
      OBVIOUS
    <3>3. FolderCall(n, b)'
      BY <2>1, <3>1, <3>2, SameCall
    <3> QED BY <3>1, <3>2, <3>3, FolderCallIs
  <2> QED BY <2>2, <2>4, <2>5, <2>6 DEF FolderInv
<1> QED BY <1>1, <1>2, <1>3, <1>4, <1>5, <1>6, <1>7 DEF Next, Ordinary, Work

LEMMA FolderFacts ==
  ASSUME NEW b \in Mailboxes, FolderInv(b)
  PROVE  NothingStale /\ NothingMissing
<1>1. NothingStale
  BY DEF NothingStale, FolderInv, Folder, RowsTrue, Right
<1>2. NothingMissing
  <2> SUFFICES ASSUME PageSize >= Cardinality(Emails), NEW c \in populated, NEW m \in InBox(c),
                      LastChange(m) <= cursor
               PROVE  m \in View(c)
    BY DEF NothingMissing
  <2>1. c = b /\ m \in Emails /\ mail[m] # NULL /\ b \in mail[m].boxes
    BY DEF InBox, Alive, FolderInv, Folder
  <2>2. table[m] = mail[m]
    BY <2>1 DEF FolderInv, RowsFull, Right
  <2> QED BY <2>1, <2>2 DEF View
<1> QED BY <1>1, <1>2

-----------------------------------------------------------------------------
\* Either account.
LogKeeps == IInv /\ env.forgets = 0

Either == LogKeeps \/ \E b \in Mailboxes : FolderInv(b)

LEMMA LogKeepsStep ==
  ASSUME OneCall, LogKeeps, [Next]_vars
  PROVE  LogKeeps'
<1>1. ~Forget /\ horizon = 0
  BY DEF Forget, LogKeeps, IInv, Account
<1>2. env \in Environments
  BY DEF LogKeeps, IInv, Types
<1>3. horizon' = horizon /\ env'.forgets = env.forgets
  <2>1. CASE \E t \in Tasks : Fail(t)
    BY <1>2, <2>1 DEF Fail, serverVars, Environments
  <2>2. CASE Crash
    BY <1>2, <2>2 DEF Crash, serverVars, Environments
  <2>3. CASE Server
    BY <2>3 DEF Server, ServerChange, ServerCreate, ServerUpdate, ServerDestroy, Record
  <2>4. CASE UNCHANGED <<env, horizon>>
    BY <2>4
  <2> QED BY <1>1, <2>1, <2>2, <2>3, <2>4
          DEF Next, Ordinary, Start, CheckPopulated, Changes, GetSummaries, DeltaEmailBatch,
              QueryAndGet, SaveHead, ReadProgress, PruneHead, serverVars, vars
<1> QED BY <1>1, <1>3, StepTrue DEF LogKeeps

LEMMA EitherInit == OneCall /\ LogOrFolder /\ Init => Either
<1> SUFFICES ASSUME OneCall, LogOrFolder, Init PROVE Either
  OBVIOUS
<1>1. env \in Scenarios /\ env.open \subseteq Mailboxes
  BY SyncAssumption DEF Init
<1>2. CASE env.forgets = 0
  BY <1>2, InitTrue DEF Either, LogKeeps
<1>3. CASE env.crashes = 0 /\ (env.fresh \/ \E b \in Mailboxes : Mailboxes = {b})
  <2>1. PICK b \in Mailboxes : env.open \subseteq {b} /\ (env.fresh \/ Mailboxes = {b})
    BY <1>1, <1>3 DEF OneCall
  <2>2. FolderInv(b)
    BY <1>3, <2>1, FolderInit
  <2> QED BY <2>2 DEF Either
<1> QED BY <1>1, <1>2, <1>3 DEF LogOrFolder

LEMMA EitherAlways == OneCall /\ LogOrFolder => (Spec => []Either)
<1> SUFFICES ASSUME OneCall, LogOrFolder PROVE Spec => []Either
  OBVIOUS
<1>1. Init => Either
  BY EitherInit
<1>2. Either /\ [Next]_vars => Either'
  <2> SUFFICES ASSUME Either, [Next]_vars PROVE Either'
    OBVIOUS
  <2>1. CASE LogKeeps
    BY <2>1, LogKeepsStep DEF Either
  <2>2. CASE \E b \in Mailboxes : FolderInv(b)
    <3>1. PICK b \in Mailboxes : FolderInv(b)
      BY <2>2
    <3>2. FolderInv(b)'
      BY <3>1, FolderNext
    <3> QED BY <3>2 DEF Either
  <2> QED BY <2>1, <2>2 DEF Either
<1> QED BY <1>1, <1>2, PTL DEF Spec

\* Nothing a populated folder shows is stale behind the cursor, through every order of
\* the server's changes, the call's requests, its failures, head syncs that come again
\* and restarts (src/sync.rs).
THEOREM NothingIsStale == OneCall /\ LogOrFolder => (Spec => []NothingStale)
<1> SUFFICES ASSUME OneCall, LogOrFolder PROVE Spec => []NothingStale
  OBVIOUS
<1>1. Either => NothingStale
  BY IInvStale, FolderFacts DEF Either, LogKeeps
<1>2. Spec => []Either
  BY EitherAlways
<1> QED BY <1>1, <1>2, PTL

\* Nothing is missing from a populated folder of an account that fits the first page,
\* beyond what the next delta brings (src/sync.rs).
THEOREM NothingIsMissing == OneCall /\ LogOrFolder => (Spec => []NothingMissing)
<1> SUFFICES ASSUME OneCall, LogOrFolder PROVE Spec => []NothingMissing
  OBVIOUS
<1>1. Either => NothingMissing
  BY IInvMissing, FolderFacts DEF Either, LogKeeps
<1>2. Spec => []Either
  BY EitherAlways
<1> QED BY <1>1, <1>2, PTL

-----------------------------------------------------------------------------
\* backfill_batch.

\* What a batch may be at.
Jobs ==
  [pc : {"idle"}]
    \cup [pc : {"fetch"}, position : Nat]
    \cup [pc : {"set"}, position : Nat, total : Nat, completed : BOOLEAN]
    \cup [pc : {"save", "set"}, got : Answers, position : Nat, total : Nat, completed : BOOLEAN]

\* No walk goes further than the end of the largest folder and one page.
Bottom == PageSize + Cardinality(Emails)

BatchTyped(s) == s.pc # "idle" => s.position <= Bottom

BTypes ==
  /\ Types
  /\ job \in [Mailboxes -> Jobs] /\ \A b \in Mailboxes : BatchTyped(job[b])
  /\ limit \in Limits /\ resets \in 0..MaxResets
  /\ \A b \in Mailboxes : progress[b] # NULL => progress[b].position <= Bottom

-----------------------------------------------------------------------------
\* Numbers and pages.
LEMMA LeastNumber ==
  ASSUME NEW S \in SUBSET Nat, S # {}
  PROVE  \E n \in S : \A k \in S : n <= k
<1>1. OpToRel(<, Nat) = {ss \in Nat \X Nat : ss[1] < ss[2]}
  BY Zenon DEF OpToRel
<1>2. IsWellFoundedOn({ss \in Nat \X Nat : ss[1] < ss[2]}, Nat)
  BY <1>1, NatLessThanWellFounded, Zenon
<1>3. PICK R : R = {ss \in Nat \X Nat : ss[1] < ss[2]}
  OBVIOUS
<1>4. PICK n \in S : \A k \in S : <<k, n>> \notin R
  BY <1>2, <1>3, WFMin
<1>5. ASSUME NEW k \in S PROVE n <= k
  <2>1. k \in Nat /\ n \in Nat /\ <<k, n>> \in Nat \X Nat
    OBVIOUS
  <2>2. k < n => <<k, n>> \in R
    BY <1>3, <2>1
  <2> QED BY <1>4, <2>1, <2>2
<1> QED BY <1>5

\* The messages of b that are newer than m.
Newer(b, m) == {n \in InBox(b) : n > m}

LEMMA BoxFinite ==
  ASSUME NEW b
  PROVE  /\ InBox(b) \in SUBSET Emails /\ IsFiniteSet(InBox(b))
         /\ Cardinality(InBox(b)) \in Nat /\ Cardinality(Emails) \in Nat
         /\ Cardinality(InBox(b)) <= Cardinality(Emails)
<1>1. InBox(b) \in SUBSET Emails
  BY DEF InBox, Alive
<1>2. IsFiniteSet(Emails)
  BY ServerAssumption
<1> QED BY <1>1, <1>2, FS_Subset, FS_CardinalityType

LEMMA PlaceTyped ==
  ASSUME NEW b, NEW m
  PROVE  /\ Newer(b, m) \in SUBSET InBox(b) /\ IsFiniteSet(Newer(b, m))
         /\ Place(b, m) = Cardinality(Newer(b, m)) /\ Place(b, m) \in Nat
<1>1. Newer(b, m) \in SUBSET InBox(b) /\ Place(b, m) = Cardinality(Newer(b, m))
  BY DEF Newer, Place
<1> QED BY <1>1, BoxFinite, FS_Subset, FS_CardinalityType

\* Of two messages of a folder the newer one comes first.
LEMMA NewerFirst ==
  ASSUME NEW b, NEW m \in InBox(b), NEW n \in InBox(b), n > m
  PROVE  Place(b, n) < Place(b, m)
<1>1. m \in Nat /\ n \in Nat /\ InBox(b) \subseteq Nat
  BY BoxFinite, ServerAssumption
<1>2. Newer(b, n) \in SUBSET Newer(b, m)
  BY <1>1 DEF Newer
<1>3. n \in Newer(b, m) /\ n \notin Newer(b, n)
  BY <1>1 DEF Newer
<1> QED BY <1>2, <1>3, PlaceTyped, FS_Subset

LEMMA PageFacts ==
  ASSUME NEW b, NEW p \in Nat, NEW page, page = Page(b, p, PageSize)
  PROVE  /\ page \in SUBSET InBox(b) /\ IsFiniteSet(page) /\ Cardinality(page) \in Nat
         /\ Cardinality(page) <= PageSize
         /\ \A m \in InBox(b) : m \in page <=> Place(b, m) \in p .. p + PageSize - 1
         /\ page # {} => p + Cardinality(page) <= Cardinality(InBox(b))
<1>1. /\ page \in SUBSET InBox(b)
      /\ \A m \in InBox(b) : m \in page <=> Place(b, m) \in p .. p + PageSize - 1
  BY DEF Page, Place
<1>2. IsFiniteSet(page) /\ Cardinality(page) \in Nat /\ PageSize \in Nat \ {0}
  BY <1>1, BoxFinite, FS_Subset, FS_CardinalityType, SyncAssumption
<1>3. InBox(b) \subseteq Nat
  BY BoxFinite, ServerAssumption
<1>4. Cardinality(page) <= PageSize
  <2> DEFINE f == [m \in page |-> Place(b, m)]
  <2>1. f \in [page -> p .. p + PageSize - 1]
    BY <1>1
  <2>2. ASSUME NEW m \in page, NEW n \in page, f[m] = f[n] PROVE m = n
    <3>1. m \in Nat /\ n \in Nat /\ Place(b, m) = Place(b, n) /\ Place(b, m) \in Nat
      BY <1>1, <1>3, <2>2, PlaceTyped
    <3>2. ~(n > m) /\ ~(m > n)
      BY <1>1, <3>1, NewerFirst
    <3> QED BY <3>1, <3>2
  <2>3. f \in Injection(page, p .. p + PageSize - 1)
    BY <2>1, <2>2 DEF Injection, IsInjective
  <2>4. IsFiniteSet(p .. p + PageSize - 1) /\ Cardinality(p .. p + PageSize - 1) = PageSize
    <3>1. PICK last \in Int : last = p + PageSize - 1
      BY <1>2
    <3>2. IsFiniteSet(p .. last) /\ Cardinality(p .. last) = IF p > last THEN 0 ELSE last - p + 1
      BY FS_Interval
    <3> QED BY <1>2, <3>1, <3>2
  <2> QED BY <2>3, <2>4, FS_Injection
<1>5. ASSUME page # {} PROVE p + Cardinality(page) <= Cardinality(InBox(b))
  <2>0. PICK places : places = {Place(b, m) : m \in page}
    OBVIOUS
  <2>1. places \in SUBSET Nat /\ places # {}
    BY <1>5, <2>0, PlaceTyped
  <2>2. PICK first \in page : \A m \in page : Place(b, first) <= Place(b, m)
    <3>1. \E n \in places : \A k \in places : n <= k
      BY <2>1, LeastNumber
    <3> QED BY <2>0, <3>1
  <2>3. first \in InBox(b) /\ Place(b, first) >= p /\ Place(b, first) \in Nat
    BY <1>1, PlaceTyped
  <2>4. PICK above : above = Newer(b, first)
    OBVIOUS
  <2>5. /\ above \in SUBSET InBox(b) /\ IsFiniteSet(above)
        /\ Cardinality(above) = Place(b, first)
    BY <2>4, PlaceTyped
  <2>6. above \cap page = {}
    <3> SUFFICES ASSUME NEW m \in above, m \in page PROVE FALSE
      OBVIOUS
    <3>1. m \in InBox(b) /\ m > first
      BY <2>4 DEF Newer
    <3>2. Place(b, m) < Place(b, first) /\ Place(b, m) \in Nat
      BY <2>3, <3>1, NewerFirst, PlaceTyped
    <3> QED BY <2>2, <2>3, <3>2
  <2>7. Cardinality(above \cap page) = 0
    BY <2>6, FS_EmptySet
  <2>8. Cardinality(above \cup page) = Cardinality(above) + Cardinality(page) - 0
    BY <1>2, <2>5, <2>7, FS_Union
  <2>9. above \cup page \in SUBSET InBox(b)
    BY <1>1, <2>5
  <2>10. Cardinality(above \cup page) <= Cardinality(InBox(b))
    BY <2>9, BoxFinite, FS_Subset
  <2> QED BY <1>2, <2>3, <2>5, <2>8, <2>10, BoxFinite
<1> QED BY <1>1, <1>2, <1>4, <1>5

-----------------------------------------------------------------------------
\* Types.
LEMMA JobFacts ==
  ASSUME NEW s \in Jobs
  PROVE  /\ s.pc \in {"idle", "fetch", "save", "set"}
         /\ s.pc = "idle" <=> s = Idle
         /\ s.pc # "idle" => s.position \in Nat
         /\ s.pc \in {"save", "set"} => s.total \in Nat /\ s.completed \in BOOLEAN
         /\ s.pc = "save" => s.got \in Answers
BY DEF Jobs, Idle

\* The records of a batch's states.
LEMMA JobRecords ==
  ASSUME NEW p \in Nat, NEW total \in Nat, NEW c \in BOOLEAN, NEW got \in Answers,
         NEW pc \in {"save", "set"}
  PROVE  /\ Idle \in Jobs /\ BatchTyped(Idle)
         /\ [pc |-> "fetch", position |-> p] \in Jobs
         /\ [pc |-> "set", position |-> p, total |-> total, completed |-> c] \in Jobs
         /\ [pc |-> pc, got |-> got, position |-> p, total |-> total, completed |-> c] \in Jobs
<1>1. Idle \in Jobs /\ BatchTyped(Idle)
  BY DEF Jobs, Idle, BatchTyped
<1>2. [pc |-> "fetch", position |-> p] \in Jobs
  BY DEF Jobs
<1>3. [pc |-> "set", position |-> p, total |-> total, completed |-> c] \in Jobs
  BY DEF Jobs
<1>4. [pc |-> pc, got |-> got, position |-> p, total |-> total, completed |-> c] \in Jobs
  BY DEF Jobs
<1> QED BY <1>1, <1>2, <1>3, <1>4

\* A saved page has its progress row to write.
LEMMA SavedMovesOn ==
  ASSUME NEW s \in Jobs, s.pc = "save"
  PROVE  LET n == [s EXCEPT !.pc = "set"]
         IN  n \in Jobs /\ n.pc = "set" /\ n.position = s.position
             /\ n.total = s.total /\ n.completed = s.completed
<1>1. s \in [pc : {"save", "set"}, got : Answers, position : Nat, total : Nat, completed : BOOLEAN]
  BY DEF Jobs
<1> QED BY <1>1 DEF Jobs

\* One batch goes on.
LEMMA GoBatchTyped ==
  ASSUME BTypes, NEW b \in Mailboxes, NEW n \in Jobs, BatchTyped(n), GoBatch(b, n)
  PROVE  /\ job' \in [Mailboxes -> Jobs] /\ \A c \in Mailboxes : BatchTyped(job'[c])
         /\ job'[b] = n /\ \A c \in Mailboxes : c # b => job'[c] = job[c]
BY DEF BTypes, GoBatch

\* The position a batch reads.
Position(b) == IF progress[b] = NULL THEN PageSize ELSE progress[b].position
Total(b)    == IF progress[b] = NULL THEN 0 ELSE progress[b].total

LEMMA PositionTyped ==
  ASSUME BTypes, NEW b \in Mailboxes
  PROVE  Position(b) \in Nat /\ Position(b) <= Bottom /\ Total(b) \in Nat /\ Bottom \in Nat
<1>1. progress[b] \in Progress \cup {NULL} /\ PageSize \in Nat /\ Cardinality(Emails) \in Nat
  BY BoxFinite, SyncAssumption DEF BTypes, Types, TypeOK
<1>2. progress[b] # NULL => progress[b].position \in Nat /\ progress[b].total \in Nat
  BY <1>1 DEF Progress
<1> QED BY <1>1, <1>2 DEF BTypes, Position, Total, Bottom

\* A step of a batch that leaves the tables alone.
LEMMA BatchOnly ==
  ASSUME BTypes, NEW b \in Mailboxes, NEW n \in Jobs, BatchTyped(n), GoBatch(b, n),
         UNCHANGED <<vars, limit, resets>>
  PROVE  BTypes'
<1>1. Types'
  BY StepTypes DEF BTypes
<1>2. job' \in [Mailboxes -> Jobs] /\ \A c \in Mailboxes : BatchTyped(job'[c])
  BY GoBatchTyped
<1> QED BY <1>1, <1>2 DEF BTypes, vars, BatchTyped

\* What ReadPosition makes of the progress row.
LEMMA ReadPositionIs ==
  ASSUME BTypes, NEW b \in Mailboxes, ReadPosition(b)
  PROVE  \E n \in Jobs :
           /\ GoBatch(b, n) /\ BatchTyped(n)
           /\ n.pc \in {"fetch", "set"} /\ n.position = Position(b)
<1>1. Position(b) \in Nat /\ Position(b) <= Bottom /\ Total(b) \in Nat
  BY PositionTyped
<1>2. PICK set : set = [pc |-> "set", position |-> Position(b), total |-> Total(b), completed |-> TRUE]
  OBVIOUS
<1>3. PICK fetch : fetch = [pc |-> "fetch", position |-> Position(b)]
  OBVIOUS
<1>4. GoBatch(b, IF AtLimit(Position(b)) THEN set ELSE fetch)
  BY <1>2, <1>3 DEF ReadPosition, Position, Total
<1>5. set \in Jobs /\ BatchTyped(set) /\ fetch \in Jobs /\ BatchTyped(fetch)
  BY <1>1, <1>2, <1>3 DEF Jobs, BatchTyped
<1> QED BY <1>2, <1>3, <1>4, <1>5

\* What FetchPage makes of the page at the position.
LEMMA FetchPageIs ==
  ASSUME BTypes, NEW b \in Mailboxes, FetchPage(b)
  PROVE  \E n \in Jobs, got \in Answers :
           /\ GoBatch(b, n) /\ BatchTyped(n) /\ job[b].position \in Nat
           /\ got = Get(Page(b, job[b].position, PageSize))
           /\ DOMAIN got = Page(b, job[b].position, PageSize)
           /\ n.position = job[b].position + Cardinality(DOMAIN got)
           /\ IF DOMAIN got = {} THEN n.pc = "set" ELSE n.pc = "save" /\ n.got = got
<1>1. PICK s : s = job[b]
  OBVIOUS
<1>2. s \in Jobs /\ s.pc = "fetch" /\ s.position \in Nat /\ s.position <= Bottom
  BY <1>1, JobFacts DEF BTypes, FetchPage, BatchTyped
<1>3. PICK page : page = Page(b, s.position, PageSize)
  OBVIOUS
<1>4. PICK got : got = Get(page)
  OBVIOUS
<1>5. /\ page \in SUBSET InBox(b) /\ Cardinality(page) \in Nat /\ Cardinality(page) <= PageSize
      /\ page # {} => s.position + Cardinality(page) <= Cardinality(InBox(b))
  BY <1>2, <1>3, PageFacts
<1>6. got \in Answers /\ DOMAIN got = page
  BY <1>4, <1>5, BoxFinite, GetTyped DEF BTypes, Types, TypeOK, InBox, Alive
<1>7. PICK upto : upto = s.position + Cardinality(page)
  OBVIOUS
<1>8. PICK n : n = [pc |-> IF page = {} THEN "set" ELSE "save",
                    got |-> got, position |-> upto, total |-> Cardinality(InBox(b)),
                    completed |-> page = {} \/ upto >= Cardinality(InBox(b)) \/ AtLimit(upto)]
  OBVIOUS
<1>9. GoBatch(b, n)
  BY <1>1, <1>3, <1>4, <1>6, <1>7, <1>8 DEF FetchPage
<1>10. upto \in Nat /\ upto <= Bottom
  <2>1. PageSize \in Nat /\ Cardinality(InBox(b)) \in Nat /\ Cardinality(Emails) \in Nat
        /\ Cardinality(InBox(b)) <= Cardinality(Emails)
    BY BoxFinite, SyncAssumption
  <2>2. page = {} => Cardinality(page) = 0
    BY FS_EmptySet
  <2> QED BY <1>2, <1>5, <1>7, <2>1, <2>2 DEF Bottom
<1>11. n \in Jobs /\ BatchTyped(n)
  <2>1. (page = {} \/ upto >= Cardinality(InBox(b)) \/ AtLimit(upto)) \in BOOLEAN
    OBVIOUS
  <2>2. Cardinality(InBox(b)) \in Nat
    BY BoxFinite
  <2> QED BY <1>6, <1>8, <1>10, <2>1, <2>2 DEF Jobs, BatchTyped
<1> QED BY <1>1, <1>2, <1>3, <1>4, <1>6, <1>7, <1>8, <1>9, <1>11

-----------------------------------------------------------------------------
\* Every step keeps the types.
LEMMA RestTyped ==
  ASSUME Types, UNCHANGED <<serverVars, cursor, populated, task>>, env' \in Environments,
         table' \in [Emails -> Content \cup {NULL}],
         progress' \in [Mailboxes -> Progress \cup {NULL}]
  PROVE  Types'
<1>1. ServerTypeOK' /\ Token' = Token
  BY SameServer DEF Types, TypeOK
<1> QED BY <1>1 DEF Types, TypeOK

LEMMA SaveBatchTyped ==
  ASSUME BTypes, NEW b \in Mailboxes, SaveBatch(b)
  PROVE  BTypes' /\ Types'
<1>1. PICK s : s = job[b]
  OBVIOUS
<1>2. s \in Jobs /\ s.pc = "save" /\ s.got \in Answers /\ BatchTyped(s)
  BY <1>1, JobFacts DEF BTypes, SaveBatch
<1>3. PICK n : n = [s EXCEPT !.pc = "set"]
  OBVIOUS
<1>4. n \in Jobs /\ n.pc = "set" /\ n.position = s.position
  BY <1>2, <1>3, SavedMovesOn
<1>5. BatchTyped(n)
  BY <1>2, <1>4 DEF BatchTyped
<1>6. GoBatch(b, n) /\ table' = Save(table, s.got)
      /\ UNCHANGED <<serverVars, cursor, populated, progress, task, env, limit, resets>>
  BY <1>1, <1>3 DEF SaveBatch
<1>7. job' \in [Mailboxes -> Jobs] /\ \A c \in Mailboxes : BatchTyped(job'[c])
  BY <1>4, <1>5, <1>6, GoBatchTyped
<1>8. table' \in [Emails -> Content \cup {NULL}]
  BY <1>2, <1>6, TableTyped DEF BTypes, Types, TypeOK
<1>9. Types'
  BY <1>6, <1>8, RestTyped DEF BTypes, Types, TypeOK
<1> QED BY <1>6, <1>7, <1>9 DEF BTypes, BatchTyped

LEMMA SetProgressTyped ==
  ASSUME BTypes, NEW b \in Mailboxes, SetProgress(b)
  PROVE  /\ BTypes' /\ Types' /\ GoBatch(b, Idle)
         /\ progress'[b].position = job[b].position
         /\ \A c \in Mailboxes : c # b => progress'[c] = progress[c]
<1>1. PICK s : s = job[b]
  OBVIOUS
<1>2. /\ s \in Jobs /\ s.pc = "set" /\ BatchTyped(s)
      /\ s.position \in Nat /\ s.total \in Nat /\ s.completed \in BOOLEAN
  BY <1>1, JobFacts DEF BTypes, SetProgress
<1>3. PICK row : row = [position |-> s.position, total |-> s.total, completed |-> s.completed]
  OBVIOUS
<1>4. row \in Progress /\ row.position = s.position /\ row.position <= Bottom
  BY <1>2, <1>3 DEF Progress, BatchTyped
<1>5. progress' = [progress EXCEPT ![b] = row] /\ GoBatch(b, Idle)
      /\ UNCHANGED <<serverVars, table, cursor, populated, task, env, limit, resets>>
  BY <1>1, <1>3 DEF SetProgress
<1>6. job' \in [Mailboxes -> Jobs] /\ \A c \in Mailboxes : BatchTyped(job'[c])
  <2>1. Idle \in Jobs /\ BatchTyped(Idle)
    BY DEF Jobs, Idle, BatchTyped
  <2> QED BY <1>5, <2>1, GoBatchTyped
<1>7. progress \in [Mailboxes -> Progress \cup {NULL}]
  BY DEF BTypes, Types, TypeOK
<1>8. /\ progress' \in [Mailboxes -> Progress \cup {NULL}] /\ progress'[b] = row
      /\ \A c \in Mailboxes : c # b => progress'[c] = progress[c]
  BY <1>4, <1>5, <1>7
<1>9. Types'
  BY <1>5, <1>8, RestTyped DEF BTypes, Types, TypeOK
<1>10. \A c \in Mailboxes : progress'[c] # NULL => progress'[c].position <= Bottom
  BY <1>4, <1>8 DEF BTypes
<1>11. BTypes'
  BY <1>5, <1>6, <1>9, <1>10 DEF BTypes, BatchTyped
<1> QED BY <1>1, <1>4, <1>5, <1>8, <1>9, <1>11

LEMMA FailBatchTyped ==
  ASSUME BTypes, NEW b \in Mailboxes, FailBatch(b)
  PROVE  BTypes' /\ Types' /\ env'.fresh = env.fresh /\ env'.open = env.open
<1>1. UNCHANGED <<serverVars, cacheVars, task, limit, resets>> /\ GoBatch(b, Idle)
  BY DEF FailBatch
<1>2. env' \in Environments /\ env'.fresh = env.fresh /\ env'.open = env.open
  BY DEF FailBatch, BTypes, Types, Environments
<1>3. Types'
  BY <1>1, <1>2, RestTyped DEF cacheVars, BTypes, Types, TypeOK
<1>4. job' \in [Mailboxes -> Jobs] /\ \A c \in Mailboxes : BatchTyped(job'[c])
  <2>1. Idle \in Jobs /\ BatchTyped(Idle)
    BY DEF Jobs, Idle, BatchTyped
  <2> QED BY <1>1, <2>1, GoBatchTyped
<1> QED BY <1>1, <1>2, <1>3, <1>4 DEF cacheVars, BTypes, BatchTyped

LEMMA ResetTyped ==
  ASSUME BTypes, NEW b \in Mailboxes, Reset(b)
  PROVE  BTypes' /\ Types' /\ \A c \in Mailboxes : progress'[c] = NULL \/ progress'[c] = progress[c]
<1>1. progress' = [progress EXCEPT ![b] = NULL] /\ resets < MaxResets /\ resets' = resets + 1
      /\ UNCHANGED <<serverVars, table, cursor, populated, task, env, job, limit>>
  BY DEF Reset
<1>2. progress \in [Mailboxes -> Progress \cup {NULL}]
  BY DEF BTypes, Types, TypeOK
<1>3. /\ progress' \in [Mailboxes -> Progress \cup {NULL}]
      /\ \A c \in Mailboxes : progress'[c] = NULL \/ progress'[c] = progress[c]
  BY <1>1, <1>2
<1>4. Types'
  BY <1>1, <1>3, RestTyped DEF BTypes, Types, TypeOK
<1>5. \A c \in Mailboxes : progress'[c] # NULL => progress'[c].position <= Bottom
  BY <1>3 DEF BTypes
<1>6. resets' \in 0..MaxResets
  BY <1>1, BackfillAssumption DEF BTypes
<1> QED BY <1>1, <1>3, <1>4, <1>5, <1>6 DEF BTypes, BatchTyped

\* sync_emails only reads the progress rows.
LEMMA OrdinaryKeepsProgress == Ordinary => UNCHANGED progress
BY DEF Ordinary, Start, CheckPopulated, Changes, GetSummaries, DeltaEmailBatch, QueryAndGet,
       SaveHead, ReadProgress, PruneHead, Fail, Forget, Server, cacheVars

LEMMA SyncStepTyped ==
  ASSUME BTypes, SyncStep
  PROVE  BTypes' /\ Types'
<1>1. Ordinary /\ UNCHANGED <<job, limit, resets>>
  BY DEF SyncStep, jobVars
<1>2. Types'
  BY <1>1, StepTypes DEF BTypes, Next
<1> QED BY <1>1, <1>2, OrdinaryKeepsProgress DEF BTypes, BatchTyped

LEMMA RestartTyped ==
  ASSUME BTypes, Restart
  PROVE  BTypes' /\ Types' /\ \A b \in Mailboxes : job'[b] = Idle
<1>1. Crash /\ job' = [b \in Mailboxes |-> Idle] /\ UNCHANGED <<progress, limit, resets>>
  BY DEF Restart, Crash, cacheVars
<1>2. Types'
  BY <1>1, StepTypes DEF BTypes, Next
<1>3. Idle \in Jobs /\ BatchTyped(Idle)
  BY DEF Jobs, Idle, BatchTyped
<1> QED BY <1>1, <1>2, <1>3 DEF BTypes, BatchTyped

LEMMA BackfillStepTypes == BTypes /\ [BackfillNext]_allVars => BTypes'
<1> SUFFICES ASSUME BTypes, [BackfillNext]_allVars PROVE BTypes'
  OBVIOUS
<1>1. ASSUME NEW b \in Mailboxes, ReadPosition(b) PROVE BTypes'
  <2>1. UNCHANGED <<vars, limit, resets>>
    BY <1>1 DEF ReadPosition
  <2> QED BY <1>1, <2>1, ReadPositionIs, BatchOnly
<1>2. ASSUME NEW b \in Mailboxes, FetchPage(b) PROVE BTypes'
  <2>1. UNCHANGED <<vars, limit, resets>>
    BY <1>2 DEF FetchPage
  <2> QED BY <1>2, <2>1, FetchPageIs, BatchOnly
<1>3. ASSUME NEW b \in Mailboxes, SaveBatch(b) \/ SetProgress(b) \/ FailBatch(b) \/ Reset(b) PROVE BTypes'
  BY <1>3, SaveBatchTyped, SetProgressTyped, FailBatchTyped, ResetTyped
<1>4. CASE SyncStep \/ Restart
  BY <1>4, SyncStepTyped, RestartTyped
<1>5. CASE UNCHANGED allVars
  <2>1. Types'
    BY <1>5, StepTypes DEF allVars, BTypes
  <2> QED BY <1>5, <2>1 DEF allVars, vars, jobVars, BTypes, BatchTyped
<1> QED BY <1>1, <1>2, <1>3, <1>4, <1>5 DEF BackfillNext

LEMMA BackfillInitTypes == BackfillInit => BTypes
<1> SUFFICES ASSUME BackfillInit PROVE BTypes
  OBVIOUS
<1>1. Types
  BY InitTypes DEF BackfillInit
<1>2. job \in [Mailboxes -> Jobs] /\ \A b \in Mailboxes : BatchTyped(job[b])
  BY DEF BackfillInit, Jobs, Idle, BatchTyped
<1>3. limit \in Limits /\ resets \in 0..MaxResets
  BY BackfillAssumption DEF BackfillInit
<1>4. \A b \in Mailboxes : progress[b] = NULL
  BY DEF BackfillInit, Init
<1> QED BY <1>1, <1>2, <1>3, <1>4 DEF BTypes

LEMMA BTypesAlways == BackfillSpec => []BTypes
BY BackfillInitTypes, BackfillStepTypes, PTL DEF BackfillSpec

\* The tables, the message limit and the resets have their types, and the position of
\* a progress row never exceeds the page size plus the number of all emails, with any
\* number of batches and of sync_emails calls at once (src/backfill.rs, src/sync.rs).
THEOREM BackfillTyped == BackfillSpec => []BackfillTypeOK
<1>1. BTypes => BackfillTypeOK
  BY DEF BTypes, Types, BackfillTypeOK, Bottom
<1> QED BY <1>1, BTypesAlways, PTL

-----------------------------------------------------------------------------
\* The front end runs a batch or a sync, one at a time.  With both at once a head
\* sync may prune what a batch has just saved, and HistoryKept fails.
NoOverlap == Overlap = FALSE

\* Batches and syncs that take turns: no batch while a call runs, and no call
\* while a batch does.
Turns == (\A b \in Mailboxes : job[b] = Idle) \/ (\A t \in Tasks : task[t] = Idle)

Base == BTypes /\ LogTrue /\ Turns

LEMMA CallMoves ==
  ASSUME NEW t \in Tasks, task[t] = Idle
  PROVE  ~Work(t) /\ ~Fail(t)
BY DEF Work, CheckPopulated, Changes, GetSummaries, DeltaEmailBatch, QueryAndGet, SaveHead,
       ReadProgress, PruneHead, Fail, Idle

\* While a batch runs only the server moves beside it.
LEMMA ServerAlone ==
  ASSUME NoOverlap, Base, SyncStep, ~(\A b \in Mailboxes : job[b] = Idle)
  PROVE  Forget \/ Server
<1>1. \A t \in Tasks : task[t] = Idle
  BY DEF Base, Turns
<1>2. task' = task
  BY DEF SyncStep, NoOverlap
<1>3. ASSUME NEW t \in Tasks, NEW b \in env.open, Start(t, b) PROVE FALSE
  <2>1. PICK n : /\ n = IF cursor = NULL THEN [pc |-> "query", box |-> b]
                         ELSE [pc |-> "populated", box |-> b, since |-> cursor]
                 /\ task' = [task EXCEPT ![t] = n]
    BY <1>3 DEF Start, Go
  <2>2. n.pc # "idle"
    BY <2>1
  <2>3. task'[t] = n
    BY <2>1 DEF Base, BTypes, Types
  <2> QED BY <1>1, <1>2, <2>2, <2>3 DEF Idle
<1> QED BY <1>1, <1>3, CallMoves DEF SyncStep, Ordinary, Work

\* A step of a call finds every batch at rest.
LEMMA NoBatch ==
  ASSUME NoOverlap, Base, SyncStep, ~Forget, ~Server
  PROVE  \A b \in Mailboxes : job[b] = Idle /\ job'[b] = Idle
BY ServerAlone DEF SyncStep, jobVars

\* A batch that runs finds every call at rest.
LEMMA NoCall ==
  ASSUME Base, NEW b \in Mailboxes, job[b].pc # "idle"
  PROVE  \A t \in Tasks : task[t] = Idle
BY DEF Base, Turns, Idle

LEMMA SyncStepLog ==
  ASSUME Types, LogTrue, Ordinary
  PROVE  LogTrue'
<1>1. CASE Server
  BY <1>1, ServerEffect DEF Server, Types, TypeOK
<1>2. CASE Forget
  BY <1>2 DEF Forget, ServerForget, LogTrue, Gone, Logged, LastAt, LastChange, Token
<1>3. CASE UNCHANGED serverVars
  BY <1>3, LogKept
<1> QED BY <1>1, <1>2, <1>3
        DEF Ordinary, Start, CheckPopulated, Changes, GetSummaries, DeltaEmailBatch, QueryAndGet,
            SaveHead, ReadProgress, PruneHead, Fail

LEMMA BaseInit == BackfillInit => Base
<1> SUFFICES ASSUME BackfillInit PROVE Base
  OBVIOUS
<1>1. Token = 0 /\ \A m : ~Logged(m)
  BY DEF BackfillInit, Init, Token, Logged
<1>2. LogTrue
  BY <1>1 DEF LogTrue, Gone
<1> QED BY <1>2, BackfillInitTypes DEF Base, Turns, BackfillInit

LEMMA BaseStep == NoOverlap /\ Base /\ [BackfillNext]_allVars => Base'
<1> SUFFICES ASSUME NoOverlap, Base, [BackfillNext]_allVars PROVE Base'
  OBVIOUS
<1>1. BTypes'
  BY BackfillStepTypes DEF Base
<1>2. ASSUME NEW b \in Mailboxes,
             FetchPage(b) \/ SaveBatch(b) \/ SetProgress(b) \/ FailBatch(b)
      PROVE  Base'
  <2>1. UNCHANGED <<serverVars, task>> /\ job[b].pc # "idle"
    BY <1>2 DEF FetchPage, SaveBatch, SetProgress, FailBatch, vars, serverVars
  <2>2. \A t \in Tasks : task[t] = Idle
    BY <2>1, NoCall
  <2> QED BY <1>1, <2>1, <2>2, LogKept DEF Base, Turns
<1>3. ASSUME NEW b \in Mailboxes, ReadPosition(b) PROVE Base'
  <2>1. UNCHANGED <<serverVars, task>> /\ \A t \in Tasks : task[t] = Idle
    BY <1>3 DEF ReadPosition, NoOverlap, vars, serverVars
  <2> QED BY <1>1, <2>1, LogKept DEF Base, Turns
<1>4. ASSUME NEW b \in Mailboxes, Reset(b) PROVE Base'
  BY <1>1, <1>4, LogKept DEF Base, Turns, Reset
<1>5. CASE SyncStep
  <2>1. LogTrue'
    BY <1>5, SyncStepLog DEF SyncStep, Base, BTypes
  <2>2. UNCHANGED job /\ (task' = task \/ \A b \in Mailboxes : job[b] = Idle)
    BY <1>5 DEF SyncStep, jobVars, NoOverlap
  <2>3. CASE \A b \in Mailboxes : job[b] = Idle
    BY <1>1, <2>1, <2>2, <2>3 DEF Base, Turns
  <2>4. CASE task' = task
    BY <1>1, <2>1, <2>2, <2>4 DEF Base, Turns
  <2> QED BY <2>2, <2>3, <2>4
<1>6. CASE Restart
  <2>1. UNCHANGED serverVars /\ \A b \in Mailboxes : job'[b] = Idle
    BY <1>6 DEF Restart, Crash
  <2> QED BY <1>1, <2>1, LogKept DEF Base, Turns
<1>7. CASE UNCHANGED allVars
  BY <1>1, <1>7, LogKept DEF Base, Turns, allVars, vars, jobVars, serverVars
<1> QED BY <1>2, <1>3, <1>4, <1>5, <1>6, <1>7 DEF BackfillNext

LEMMA BaseAlways == NoOverlap => (BackfillSpec => []Base)
<1> SUFFICES ASSUME NoOverlap PROVE BackfillSpec => []Base
  OBVIOUS
<1>1. BackfillInit => Base
  BY BaseInit
<1>2. Base /\ [BackfillNext]_allVars => Base'
  BY BaseStep
<1> QED BY <1>1, <1>2, PTL DEF BackfillSpec

-----------------------------------------------------------------------------
\* The rows a batch holds are as true as those of the table.

\* A page that was right when it was fetched is right as of the cursor, which no
\* call moves while the batch runs.
BatchTrue(s) ==
  /\ s.pc # "idle" => cursor # NULL
  /\ s.pc = "save" =>
       \A m \in DOMAIN s.got : s.got[m] # NULL /\ Right(m, s.got[m], cursor)

TrueInv == horizon = 0 => IInv /\ \A b \in Mailboxes : BatchTrue(job[b])

LEMMA BatchIs ==
  ASSUME NEW b \in Mailboxes, NEW n, job'[b] = n, BatchTrue(n)'
  PROVE  BatchTrue(job[b])'
BY DEF BatchTrue, Right

LEMMA NoBatchTrue ==
  /\ BatchTrue(Idle) /\ BatchTrue(Idle)'
  /\ CallTrue(Idle) /\ CallTrue(Idle)'
BY DEF BatchTrue, CallTrue, Idle

\* The log never gets its start back.
LEMMA HorizonStays ==
  ASSUME Types, [BackfillNext]_allVars, horizon' = 0
  PROVE  horizon = 0 /\ ~Forget
<1>1. horizon \in Nat /\ Token \in Nat
  BY TokenNat DEF Types, TypeOK
<1>2. ~Forget
  BY <1>1 DEF Forget, ServerForget
<1>3. Server => horizon' = horizon
  BY DEF Server, ServerChange, ServerCreate, ServerUpdate, ServerDestroy, Record
<1>4. Ordinary => horizon' = horizon
  BY <1>2, <1>3 DEF Ordinary, Start, CheckPopulated, Changes, GetSummaries, DeltaEmailBatch,
     QueryAndGet, SaveHead, ReadProgress, PruneHead, Fail, serverVars
<1>5. horizon' = horizon
  BY <1>4 DEF BackfillNext, ReadPosition, FetchPage, SaveBatch, SetProgress, FailBatch, Reset,
     SyncStep, Restart, Crash, serverVars, vars, allVars
<1> QED BY <1>2, <1>5

\* A step that leaves log, cursor and calls alone, and the batches but for b.
LEMMA BatchesKept ==
  ASSUME Base, TrueInv, horizon = 0, UNCHANGED <<serverVars, cursor>>,
         NEW b \in Mailboxes, NEW n \in Jobs, GoBatch(b, n), BatchTrue(n)
  PROVE  \A c \in Mailboxes : BatchTrue(job[c])'
<1>1. \A m : LastChange(m)' = LastChange(m)
  BY SameLog
<1>2. mail' = mail
  BY DEF serverVars
<1>3. job' = [job EXCEPT ![b] = n] /\ job \in [Mailboxes -> Jobs]
  BY DEF GoBatch, Base, BTypes
<1>4. BatchTrue(n)'
  BY <1>1, <1>2 DEF BatchTrue, Right
<1>5. BatchTrue(job[b])'
  BY <1>3, <1>4, BatchIs
<1>6. ASSUME NEW c \in Mailboxes, c # b PROVE BatchTrue(job[c])'
  <2>1. PICK k : k = job[c]
    OBVIOUS
  <2>2. BatchTrue(k)
    BY <2>1 DEF TrueInv
  <2>3. BatchTrue(k)'
    BY <1>1, <1>2, <2>2 DEF BatchTrue, Right
  <2>4. job'[c] = k
    BY <1>3, <1>6, <2>1
  <2> QED BY <2>3, <2>4, BatchIs
<1> QED BY <1>5, <1>6

\* A step that leaves server, messages, cursor and calls alone.
LEMMA AccountKept ==
  ASSUME IInv, Types', UNCHANGED <<serverVars, table, cursor, populated, task>>,
         env'.fresh = env.fresh, env'.open = env.open
  PROVE  IInv'
<1>1. \A m : LastChange(m)' = LastChange(m) /\ (Gone(m)' <=> Gone(m))
  BY SameLog
<1>2. LogTrue'
  BY LogKept DEF IInv
<1>3. TableTrue'
  BY <1>1 DEF IInv, TableTrue, Right, serverVars
<1>4. TableFull'
  BY <1>1 DEF IInv, TableFull, serverVars
<1>5. Account'
  BY DEF IInv, Account, serverVars
<1>6. ASSUME NEW t \in Tasks PROVE CallTrue(task[t])'
  <2>1. PICK s : s = task[t]
    OBVIOUS
  <2>2. CallTrue(s)
    BY <2>1 DEF IInv
  <2>3. CallTrue(s)'
    BY <1>1, <2>2 DEF CallTrue, WindowTrue, HeldTrue, HeldFull, Right, serverVars
  <2>4. task'[t] = s
    BY <2>1
  <2> QED BY <2>3, <2>4, CallIs
<1> QED BY <1>2, <1>3, <1>4, <1>5, <1>6 DEF IInv

LEMMA ReadPositionTrue ==
  ASSUME Base, Base', TrueInv, horizon = 0, NEW b \in Mailboxes, ReadPosition(b)
  PROVE  TrueInv'
<1>1. PICK n \in Jobs : GoBatch(b, n) /\ n.pc \in {"fetch", "set"}
  BY ReadPositionIs DEF Base
<1>2. UNCHANGED vars /\ b \in populated
  BY DEF ReadPosition
<1>3. cursor # NULL
  BY <1>2 DEF TrueInv, IInv, Account
<1>4. BatchTrue(n)
  BY <1>1, <1>3 DEF BatchTrue
<1>5. \A c \in Mailboxes : BatchTrue(job[c])'
  BY <1>1, <1>2, <1>4, BatchesKept DEF vars, serverVars
<1>6. IInv'
  BY <1>2, AccountKept DEF TrueInv, vars, serverVars, Base, BTypes
<1> QED BY <1>5, <1>6 DEF TrueInv

\* A page is fetched as the server has it.
LEMMA FetchPageTrue ==
  ASSUME Base, Base', TrueInv, horizon = 0, NEW b \in Mailboxes, FetchPage(b)
  PROVE  TrueInv'
<1>1. PICK n \in Jobs, got \in Answers :
        /\ GoBatch(b, n) /\ got = Get(Page(b, job[b].position, PageSize))
        /\ IF DOMAIN got = {} THEN n.pc = "set" ELSE n.pc = "save" /\ n.got = got
  BY FetchPageIs DEF Base
<1>2. UNCHANGED vars /\ job[b].pc = "fetch"
  BY DEF FetchPage
<1>3. cursor # NULL
  BY <1>2 DEF TrueInv, BatchTrue
<1>4. ASSUME NEW m \in DOMAIN got PROVE got[m] # NULL /\ got[m] = mail[m]
  <2>1. PICK page : page = Page(b, job[b].position, PageSize)
    OBVIOUS
  <2>2. page \in SUBSET Emails /\ got = Get(page)
    BY <1>1, <2>1, PageInBox
  <2>3. ServerTypeOK
    BY DEF Base, BTypes, Types, TypeOK
  <2>4. \A k \in DOMAIN got : got[k] = mail[k] /\ mail[k] # NULL
    BY <2>2, <2>3, GetTyped
  <2> QED BY <2>4
<1>5. BatchTrue(n)
  BY <1>1, <1>3, <1>4 DEF BatchTrue, Right
<1>6. \A c \in Mailboxes : BatchTrue(job[c])'
  BY <1>1, <1>2, <1>5, BatchesKept DEF vars, serverVars
<1>7. IInv'
  BY <1>2, AccountKept DEF TrueInv, vars, serverVars, Base, BTypes
<1> QED BY <1>6, <1>7 DEF TrueInv

\* The rows of a page are right as of the cursor, and none is taken away.
LEMMA SaveBatchTrue ==
  ASSUME Base, Base', TrueInv, horizon = 0, NEW b \in Mailboxes, SaveBatch(b)
  PROVE  TrueInv'
<1>1. PICK s : s = job[b]
  OBVIOUS
<1>2. s \in Jobs /\ s.pc = "save" /\ BatchTrue(s)
  BY <1>1 DEF SaveBatch, Base, BTypes, TrueInv
<1>3. cursor # NULL /\ \A m \in DOMAIN s.got : s.got[m] # NULL /\ Right(m, s.got[m], cursor)
  BY <1>2 DEF BatchTrue
<1>4. PICK n : n = [s EXCEPT !.pc = "set"]
  OBVIOUS
<1>5. n \in Jobs /\ n.pc = "set"
  BY <1>2, <1>4, SavedMovesOn
<1>6. GoBatch(b, n) /\ table' = Save(table, s.got)
      /\ UNCHANGED <<serverVars, cursor, populated, progress, task, env, limit, resets>>
  BY <1>1, <1>4 DEF SaveBatch
<1>7. BatchTrue(n)
  BY <1>3, <1>5 DEF BatchTrue
<1>8. \A c \in Mailboxes : BatchTrue(job[c])'
  BY <1>5, <1>6, <1>7, BatchesKept
<1>9. \A m : LastChange(m)' = LastChange(m)
  BY <1>6, SameLog
<1>10. \A m \in Emails : table'[m] = IF m \in DOMAIN s.got THEN s.got[m] ELSE table[m]
  BY <1>6 DEF Save
<1>11. TableTrue'
  BY <1>3, <1>6, <1>9, <1>10 DEF TrueInv, IInv, TableTrue, Right, serverVars
<1>12. TableFull'
  BY <1>3, <1>6, <1>9, <1>10 DEF TrueInv, IInv, TableFull, serverVars
<1>13. Account'
  BY <1>3, <1>6 DEF TrueInv, IInv, Account, serverVars
<1>14. \A t \in Tasks : task'[t] = Idle
  BY <1>1, <1>2, <1>6, NoCall
<1>15. \A t \in Tasks : CallTrue(task[t])'
  BY <1>14, NoBatchTrue, CallIs
<1> QED BY <1>8, <1>11, <1>12, <1>13, <1>15 DEF TrueInv, IInv, Base, BTypes

\* The progress row says nothing of the rows of the table.
LEMMA SetProgressTrue ==
  ASSUME Base, Base', TrueInv, horizon = 0, NEW b \in Mailboxes, SetProgress(b) \/ FailBatch(b)
  PROVE  TrueInv'
<1>1. UNCHANGED <<serverVars, table, cursor, populated, task>> /\ GoBatch(b, Idle)
  BY DEF SetProgress, FailBatch, cacheVars
<1>2. env'.fresh = env.fresh /\ env'.open = env.open
  BY FailBatchTyped DEF SetProgress, Base
<1>3. IInv'
  BY <1>1, <1>2, AccountKept DEF TrueInv, Base, BTypes
<1>4. Idle \in Jobs
  BY DEF Idle, Jobs
<1>5. \A c \in Mailboxes : BatchTrue(job[c])'
  BY <1>1, <1>4, NoBatchTrue, BatchesKept
<1> QED BY <1>3, <1>5 DEF TrueInv

LEMMA ResetTrue ==
  ASSUME Base, Base', TrueInv, horizon = 0, UNCHANGED <<serverVars, table, cursor, populated, task, env, job>>
  PROVE  TrueInv'
<1>1. IInv'
  BY AccountKept DEF TrueInv, Base, BTypes
<1>2. \A m : LastChange(m)' = LastChange(m)
  BY SameLog
<1>3. \A c \in Mailboxes : BatchTrue(job[c])'
  BY <1>2 DEF TrueInv, BatchTrue, Right, serverVars
<1> QED BY <1>1, <1>3 DEF TrueInv

\* Beside a batch the server changes messages, which the next delta names.
LEMMA SyncStepTrue ==
  ASSUME OneCall, NoOverlap, Base, Base', TrueInv, horizon = 0, horizon' = 0, ~Forget, SyncStep
  PROVE  TrueInv'
<1>1. IInv'
  BY StepTrue DEF SyncStep, Next, TrueInv
<1>2. CASE ~Server
  <2>1. \A b \in Mailboxes : job'[b] = Idle
    BY <1>2, NoBatch
  <2> QED BY <1>1, <2>1, NoBatchTrue, BatchIs DEF TrueInv
<1>3. CASE Server
  <2>1. UNCHANGED <<job, cursor>> /\ ServerTypeOK /\ LogTrue /\ Types /\ Token \in Nat
    BY <1>3, TokenNat DEF Server, cacheVars, SyncStep, jobVars, Base, BTypes, Types, TypeOK
  <2>2. PICK m \in Emails : Changed(m)
    BY <1>3, <2>1, ServerEffect DEF Server
  <2>3. ASSUME NEW b \in Mailboxes PROVE BatchTrue(job[b])'
    <3>1. PICK s : s = job[b]
      OBVIOUS
    <3>2. s \in Jobs /\ BatchTrue(s) /\ (s.pc = "save" => DOMAIN s.got \subseteq Emails)
      BY <3>1, JobFacts, AnswerFacts DEF Base, BTypes, TrueInv
    <3>3. CASE s.pc = "idle"
      BY <2>1, <3>1, <3>2, <3>3, BatchIs DEF BatchTrue
    <3>4. CASE s.pc # "idle"
      <4>1. cursor # NULL /\ cursor \in Nat /\ cursor <= Token
        BY <2>1, <3>2, <3>4 DEF BatchTrue, Types, TypeOK
      <4>2. \A n \in Emails : \A copy :
              Right(n, copy, cursor) => (LastChange(n)' <= cursor => copy = mail'[n])
        BY <2>1, <2>2, <4>1, ServerKeeps
      <4>3. BatchTrue(s)'
        BY <2>1, <3>2, <4>1, <4>2 DEF BatchTrue, Right
      <4>4. job'[b] = s
        BY <2>1, <3>1
      <4> QED BY <4>3, <4>4, BatchIs
    <3> QED BY <3>3, <3>4
  <2> QED BY <1>1, <2>3 DEF TrueInv
<1> QED BY <1>2, <1>3

LEMMA RestartTrue ==
  ASSUME OneCall, Base, Base', TrueInv, horizon = 0, Restart
  PROVE  TrueInv'
<1>1. IInv'
  BY CrashTrue DEF Restart, TrueInv
<1>2. \A b \in Mailboxes : job'[b] = Idle
  BY DEF Restart
<1> QED BY <1>1, <1>2, NoBatchTrue, BatchIs DEF TrueInv

LEMMA TrueStep == OneCall /\ NoOverlap /\ Base /\ Base' /\ TrueInv /\ [BackfillNext]_allVars => TrueInv'
<1> SUFFICES ASSUME OneCall, NoOverlap, Base, Base', TrueInv, [BackfillNext]_allVars, horizon' = 0
             PROVE  TrueInv'
  BY DEF TrueInv
<1>1. horizon = 0 /\ ~Forget
  BY HorizonStays DEF Base, BTypes
<1>2. ASSUME NEW b \in Mailboxes, ReadPosition(b) \/ FetchPage(b) \/ SaveBatch(b) \/ SetProgress(b) \/ FailBatch(b)
      PROVE  TrueInv'
  BY <1>1, <1>2, ReadPositionTrue, FetchPageTrue, SaveBatchTrue, SetProgressTrue
<1>3. ASSUME NEW b \in Mailboxes, Reset(b) PROVE TrueInv'
  BY <1>1, <1>3, ResetTrue DEF Reset
<1>4. CASE SyncStep
  BY <1>1, <1>4, SyncStepTrue
<1>5. CASE Restart
  BY <1>1, <1>5, RestartTrue
<1>6. CASE UNCHANGED allVars
  BY <1>1, <1>6, ResetTrue DEF allVars, vars, jobVars, serverVars
<1> QED BY <1>2, <1>3, <1>4, <1>5, <1>6 DEF BackfillNext

\* One call at a time, no batch beside a call, and as long as Email/changes has never
\* given up (horizon = 0): no row a populated folder shows is stale behind the cursor,
\* the pages that backfill_batch brought as little as the head page (src/backfill.rs,
\* docs/cache.md "Prune-skip rule").  After the log was forgotten it may be: a head
\* sync does not prune what was backfilled.
THEOREM BackfilledIsTrue == OneCall /\ NoOverlap => (BackfillSpec => []BackfilledTrue)
<1> SUFFICES ASSUME OneCall, NoOverlap PROVE BackfillSpec => []BackfilledTrue
  OBVIOUS
<1>1. BackfillInit => TrueInv
  <2> SUFFICES ASSUME BackfillInit PROVE TrueInv
    OBVIOUS
  <2>1. IInv
    BY InitTrue DEF BackfillInit
  <2> QED BY <2>1, NoBatchTrue DEF BackfillInit, TrueInv
<1>2. Base /\ Base' /\ TrueInv /\ [BackfillNext]_allVars => TrueInv'
  BY TrueStep
<1>3. BackfillSpec => []Base
  BY BaseAlways
<1>4. TrueInv => BackfilledTrue
  BY IInvStale DEF TrueInv, BackfilledTrue
<1> QED BY <1>1, <1>2, <1>3, <1>4, PTL DEF BackfillSpec

-----------------------------------------------------------------------------
\* What is behind the walk is in the cache.

\* One mailbox: no message leaves it but by its destruction.
OneBox == \A b, c \in Mailboxes : b = c

NothingGone == Destroyed(0, Token) = {}

\* The first n messages of the folder, but for those that came or changed since the
\* account was opened, are in the cache; with the page a call or a batch holds.
Covered(b, n)      == \A m \in Old(b) : Place(b, m) < n => m \in View(b)
Fetched(b, got, n) == \A m \in Old(b) : Place(b, m) < n => m \in View(b) \/ m \in DOMAIN got

BatchKept(b, s) ==
  /\ s.pc # "idle" => b \in populated
  /\ s.pc \in {"fetch", "set"} => Covered(b, s.position)
  /\ s.pc = "save" => Fetched(b, s.got, s.position)

\* A call that will prune holds the head page and has seen no progress beyond it.
CallKept(s) ==
  /\ s.pc \in {"get", "save"} => s.destroyed \subseteq Destroyed(0, Token)
  /\ s.pc \in {"saveHead", "progress", "prune"} =>
       \A m \in Old(s.box) : Place(s.box, m) < PageSize => m \in DOMAIN s.got
  /\ s.pc = "prune" => progress[s.box] = NULL \/ progress[s.box].position <= PageSize

PagesKept ==
  /\ \A b \in populated : Covered(b, PageSize)
  /\ \A b \in Mailboxes :
       progress[b] # NULL => b \in populated /\ Covered(b, progress[b].position)

Kept ==
  /\ PagesKept
  /\ \A b \in Mailboxes : BatchKept(b, job[b])
  /\ \A t \in Tasks : CallKept(task[t])

KeptInv == NothingGone => Kept

\* The old messages of a folder never move up and never grow in number.
Sinks(b) ==
  /\ Old(b)' \subseteq Old(b)
  /\ \A m \in Old(b)' : \A n \in Nat : Place(b, m)' < n => Place(b, m) < n

LEMMA KeptIdle ==
  /\ CallKept(Idle) /\ CallKept(Idle)'
  /\ \A b : BatchKept(b, Idle) /\ BatchKept(b, Idle)'
BY DEF CallKept, BatchKept, Idle

LEMMA SameSinks ==
  ASSUME UNCHANGED <<mail, log>>, NEW b
  PROVE  Sinks(b) /\ (NothingGone' => NothingGone) /\ Destroyed(0, Token)' = Destroyed(0, Token)
<1>1. Old(b)' = Old(b) /\ \A m : Place(b, m)' = Place(b, m)
  BY DEF Old, Place, InBox, Alive, LastChange, Token
<1>2. Destroyed(0, Token)' = Destroyed(0, Token)
  BY DEF Destroyed, Token
<1> QED BY <1>1, <1>2 DEF Sinks, NothingGone

\* What is destroyed stays in the log.
LEMMA DestroyedGrows ==
  ASSUME ServerTypeOK, NEW m \in Emails, NEW k \in {"created", "updated", "destroyed"},
         NEW c \in Content \cup {NULL}, Record(m, k, c)
  PROVE  /\ Destroyed(0, Token) \subseteq Destroyed(0, Token)'
         /\ k = "destroyed" => ~NothingGone'
<1>1. Token' = Token + 1 /\ Token \in Nat
  BY RecordTyped
<1>2. PICK last \in Nat : last = Token + 1
  BY <1>1
<1>3. (\A i \in 1..Token : log'[i] = log[i]) /\ log'[last].id = m /\ log'[last].kind = k
  BY <1>1, <1>2 DEF Record, ServerTypeOK, Token
<1>4. Destroyed(0, Token) = {log[i].id : i \in {j \in 1..Token : log[j].kind = "destroyed"}}
  BY DEF Destroyed
<1>5. Destroyed(0, Token)' = {log'[i].id : i \in {j \in 1..last : log'[j].kind = "destroyed"}}
  BY <1>1, <1>2 DEF Destroyed
<1>6. Destroyed(0, Token) \subseteq Destroyed(0, Token)'
  <2>1. \A i \in 1..Token : i \in 1..last
    BY <1>1, <1>2
  <2> QED BY <1>3, <1>4, <1>5, <2>1
<1>7. ASSUME k = "destroyed" PROVE m \in Destroyed(0, Token)'
  <2>1. last \in {j \in 1..last : log'[j].kind = "destroyed"}
    BY <1>1, <1>2, <1>3, <1>7
  <2> QED BY <1>3, <1>5, <2>1
<1>8. NothingGone' => Destroyed(0, Token)' = {}
  BY DEF NothingGone
<1>9. k = "destroyed" => ~NothingGone'
  BY <1>7, <1>8
<1> QED BY <1>6, <1>9

\* With nothing destroyed and one mailbox, a folder only grows.
LEMMA ServerSinks ==
  ASSUME OneBox, ServerTypeOK, LogTrue, ServerChange, NothingGone', NEW b \in Mailboxes
  PROVE  Sinks(b) /\ NothingGone /\ Destroyed(0, Token) \subseteq Destroyed(0, Token)'
<1>1. PICK m \in Emails, k \in {"created", "updated", "destroyed"}, c \in Content \cup {NULL} :
        Record(m, k, c) /\ (k = "destroyed" \/ c \in Content)
  BY DEF ServerChange, ServerCreate, ServerUpdate, ServerDestroy
<1>2. Destroyed(0, Token) \subseteq Destroyed(0, Token)' /\ k # "destroyed"
  BY <1>1, DestroyedGrows
<1>3. c \in Content /\ c # NULL /\ b \in c.boxes
  <2>1. c \in Content /\ c # NULL
    BY <1>1, <1>2, ContentAssumption
  <2>2. PICK x : x \in c.boxes /\ x \in Mailboxes
    BY <2>1 DEF Content
  <2> QED BY <2>1, <2>2 DEF OneBox
<1>4. mail' = [mail EXCEPT ![m] = c] /\ mail \in [Emails -> Content \cup {NULL}]
  BY <1>1 DEF Record, ServerTypeOK
<1>5. PICK before : before = InBox(b)
  OBVIOUS
<1>6. PICK after : after = InBox(b)'
  OBVIOUS
<1>7. before = {n \in Emails : mail[n] # NULL /\ b \in mail[n].boxes}
      /\ after = {n \in Emails : mail'[n] # NULL /\ b \in mail'[n].boxes}
  BY <1>5, <1>6 DEF InBox, Alive
<1>8. before \subseteq after /\ after \in SUBSET Emails
  BY <1>3, <1>4, <1>7
<1>9. PICK changed \in Emails : Changed(changed)
  BY ServerEffect
<1>10. Token \in Nat /\ \A n \in Emails : LastChange(n) \in Nat
  BY LastTyped, TokenNat
<1>11. ASSUME NEW n \in after, LastChange(n)' = 0
       PROVE  n \in before /\ LastChange(n) = 0
  <2>1. n \in Emails /\ n # changed
    BY <1>8, <1>9, <1>10, <1>11 DEF Changed
  <2>2. LastChange(n) = 0 /\ mail'[n] = mail[n]
    BY <1>9, <1>11, <2>1 DEF Changed
  <2> QED BY <1>7, <2>1, <2>2
<1>12. Old(b)' = {n \in after : LastChange(n)' = 0} /\ Old(b) = {n \in before : LastChange(n) = 0}
  BY <1>5, <1>6 DEF Old
<1>13. ASSUME NEW n PROVE \A p \in Nat : Place(b, n)' < p => Place(b, n) < p
  <2>1. PICK newer : newer = {l \in before : l > n}
    OBVIOUS
  <2>2. PICK newest : newest = {l \in after : l > n}
    OBVIOUS
  <2>3. newer \in SUBSET newest /\ newest \in SUBSET Emails
    BY <1>8, <2>1, <2>2
  <2>4. IsFiniteSet(newest) /\ IsFiniteSet(newer) /\ Cardinality(newer) <= Cardinality(newest)
    BY <2>3, FS_Subset, ServerAssumption
  <2>5. Cardinality(newer) \in Nat /\ Cardinality(newest) \in Nat
    BY <2>4, FS_CardinalityType
  <2>6. Place(b, n) = Cardinality(newer) /\ Place(b, n)' = Cardinality(newest)
    BY <1>5, <1>6, <2>1, <2>2 DEF Place
  <2> QED BY <2>4, <2>5, <2>6
<1> QED BY <1>2, <1>11, <1>12, <1>13 DEF Sinks, NothingGone

LEMMA HistorySinks ==
  ASSUME OneBox, Base, [BackfillNext]_allVars, NothingGone', NEW b \in Mailboxes
  PROVE  Sinks(b) /\ NothingGone /\ Destroyed(0, Token) \subseteq Destroyed(0, Token)'
<1>1. CASE Server
  BY <1>1, ServerSinks DEF Server, Base, BTypes, Types, TypeOK
<1>2. CASE UNCHANGED <<mail, log>>
  BY <1>2, SameSinks
<1>3. Ordinary => Server \/ UNCHANGED <<mail, log>>
  BY DEF Ordinary, Start, CheckPopulated, Changes, GetSummaries, DeltaEmailBatch,
     QueryAndGet, SaveHead, ReadProgress, PruneHead, Fail, Forget, ServerForget, serverVars
<1>4. Server \/ UNCHANGED <<mail, log>>
  BY <1>3 DEF BackfillNext, ReadPosition, FetchPage, SaveBatch, SetProgress, FailBatch, Reset,
     SyncStep, Restart, Crash, serverVars, vars, allVars
<1> QED BY <1>1, <1>2, <1>4

\* What is covered stays so while the table only gains.
LEMMA CoverCarried ==
  ASSUME NEW b, Sinks(b), View(b) \subseteq View(b)'
  PROVE  /\ \A n \in Nat : Covered(b, n) => Covered(b, n)'
         /\ \A got : \A n \in Nat : Fetched(b, got, n) => Fetched(b, got, n)'
<1>1. \A n \in Nat : Covered(b, n) => Covered(b, n)'
  BY DEF Covered, Sinks
<1>2. \A got : \A n \in Nat : Fetched(b, got, n) => Fetched(b, got, n)'
  BY DEF Fetched, Sinks
<1> QED BY <1>1, <1>2

LEMMA BatchCarried ==
  ASSUME NEW b \in Mailboxes, Sinks(b), View(b) \subseteq View(b)', populated \subseteq populated',
         NEW s \in Jobs, BatchKept(b, s)
  PROVE  BatchKept(b, s)'
<1>1. s.pc # "idle" => s.position \in Nat
  BY JobFacts
<1> QED BY <1>1, CoverCarried DEF BatchKept

LEMMA CallCarried ==
  ASSUME \A b \in Mailboxes : Sinks(b), Destroyed(0, Token) \subseteq Destroyed(0, Token)',
         \A b \in Mailboxes : progress'[b] = NULL \/ progress'[b] = progress[b],
         NEW s \in Calls, CallKept(s)
  PROVE  CallKept(s)'
<1>1. s.pc # "idle" => s.box \in Mailboxes
  BY CallFacts
<1>2. PageSize \in Nat
  BY SyncAssumption
<1>3. s.pc \in {"get", "save"} => s.destroyed \subseteq Destroyed(0, Token)'
  BY DEF CallKept
<1>4. ASSUME s.pc \in {"saveHead", "progress", "prune"}
      PROVE  \A m \in Old(s.box)' : Place(s.box, m)' < PageSize => m \in DOMAIN s.got
  <2>1. Sinks(s.box)
    BY <1>1, <1>4
  <2> QED BY <1>2, <1>4, <2>1 DEF CallKept, Sinks
<1>5. s.pc = "prune" => progress'[s.box] = NULL \/ progress'[s.box].position <= PageSize
  BY <1>1 DEF CallKept
<1> QED BY <1>3, <1>4, <1>5 DEF CallKept

LEMMA CallKeptIs ==
  ASSUME NEW t \in Tasks, NEW n, task'[t] = n, CallKept(n)'
  PROVE  CallKept(task[t])'
BY DEF CallKept

LEMMA BatchKeptIs ==
  ASSUME NEW b \in Mailboxes, NEW n, job'[b] = n, BatchKept(b, n)'
  PROVE  BatchKept(b, job[b])'
BY DEF BatchKept, Covered, Fetched

\* The step has a history that only sinks, a table that only gains, and calls and
\* batches that go where what they hold allows.
Gains ==
  /\ \A b \in Mailboxes : Sinks(b) /\ View(b) \subseteq View(b)'
  /\ Destroyed(0, Token) \subseteq Destroyed(0, Token)'
  /\ populated \subseteq populated'
  /\ \A b \in populated' : b \in populated \/ Covered(b, PageSize)'

LEMMA PagesCarried ==
  ASSUME Base, Base', Kept, Gains,
         \A b \in Mailboxes : progress'[b] = NULL \/ progress'[b] = progress[b]
  PROVE  PagesKept'
<1>1. PageSize \in Nat /\ populated' \subseteq Mailboxes
  BY SyncAssumption DEF Base, BTypes, Types, TypeOK
<1>2. ASSUME NEW b \in populated' PROVE Covered(b, PageSize)'
  <2>1. CASE b \in populated
    BY <1>1, <1>2, <2>1, CoverCarried DEF Gains, Kept, PagesKept
  <2> QED BY <1>2, <2>1 DEF Gains
<1>3. ASSUME NEW b \in Mailboxes, progress'[b] # NULL
      PROVE  b \in populated' /\ Covered(b, progress[b].position)'
  <2>1. PICK n : n = progress[b].position
    OBVIOUS
  <2>2. progress'[b] = progress[b] /\ progress[b] \in Progress \cup {NULL}
    BY <1>3 DEF Base, BTypes, Types, TypeOK
  <2>3. n \in Nat /\ b \in populated /\ Covered(b, n)
    BY <1>3, <2>1, <2>2 DEF Progress, Kept, PagesKept
  <2>4. Covered(b, n)' /\ progress'[b].position = n
    BY <2>1, <2>2, <2>3, CoverCarried DEF Gains
  <2> QED BY <2>3, <2>4 DEF Gains, Covered
<1> QED BY <1>2, <1>3 DEF PagesKept

LEMMA KeptCarried ==
  ASSUME Base, Base', Kept, Gains,
         \A b \in Mailboxes : progress'[b] = NULL \/ progress'[b] = progress[b],
         \A b \in Mailboxes : \E n \in Jobs : job'[b] = n /\ (BatchKept(b, n) \/ BatchKept(b, n)'),
         \A t \in Tasks : \E s \in Calls : task'[t] = s /\ CallKept(s)
  PROVE  Kept'
<1>1. PagesKept'
  BY PagesCarried
<1>2. ASSUME NEW b \in Mailboxes PROVE BatchKept(b, job[b])'
  <2>1. PICK n \in Jobs : job'[b] = n /\ (BatchKept(b, n) \/ BatchKept(b, n)')
    OBVIOUS
  <2>2. BatchKept(b, n)'
    BY <2>1, BatchCarried DEF Gains
  <2> QED BY <2>1, <2>2, BatchKeptIs
<1>3. ASSUME NEW t \in Tasks PROVE CallKept(task[t])'
  <2>1. PICK s \in Calls : task'[t] = s /\ CallKept(s)
    OBVIOUS
  <2>2. CallKept(s)'
    BY <2>1, CallCarried DEF Gains
  <2> QED BY <2>1, <2>2, CallKeptIs
<1> QED BY <1>1, <1>2, <1>3 DEF Kept

\* The history while nothing is destroyed.
Sunk ==
  /\ \A b \in Mailboxes : Sinks(b)
  /\ Destroyed(0, Token) \subseteq Destroyed(0, Token)' /\ NothingGone

LEMMA SameTables ==
  ASSUME Sunk, UNCHANGED <<table, populated>>
  PROVE  Gains
BY DEF Sunk, Gains, View

\* A call, or a batch, goes on.
LEMMA TaskStep ==
  ASSUME Base, Base', Kept, Gains, UNCHANGED <<progress, job>>,
         NEW t \in Tasks, NEW s \in Calls, Go(t, s), CallKept(s)
  PROVE  Kept'
<1>1. \A b \in Mailboxes : job[b] \in Jobs /\ job'[b] = job[b] /\ BatchKept(b, job[b])
  BY DEF Base, BTypes, Kept
<1>2. \A u \in Tasks : task[u] \in Calls /\ CallKept(task[u])
  BY DEF Base, BTypes, Types, Kept
<1>3. task'[t] = s /\ \A u \in Tasks : u # t => task'[u] = task[u]
  BY DEF Go, Base, BTypes, Types
<1>4. \A u \in Tasks : \E k \in Calls : task'[u] = k /\ CallKept(k)
  BY <1>2, <1>3
<1>5. \A b \in Mailboxes : \E n \in Jobs : job'[b] = n /\ (BatchKept(b, n) \/ BatchKept(b, n)')
  BY <1>1
<1>6. \A b \in Mailboxes : progress'[b] = NULL \/ progress'[b] = progress[b]
  OBVIOUS
<1> QED BY <1>4, <1>5, <1>6, KeptCarried

LEMMA BatchStep ==
  ASSUME Base, Base', Kept, Gains, UNCHANGED <<progress, task>>,
         NEW b \in Mailboxes, NEW n \in Jobs, GoBatch(b, n), BatchKept(b, n) \/ BatchKept(b, n)'
  PROVE  Kept'
<1>1. \A t \in Tasks : task[t] \in Calls /\ task'[t] = task[t] /\ CallKept(task[t])
  BY DEF Base, BTypes, Types, Kept
<1>2. \A c \in Mailboxes : job[c] \in Jobs /\ BatchKept(c, job[c])
  BY DEF Base, BTypes, Kept
<1>3. job'[b] = n /\ \A c \in Mailboxes : c # b => job'[c] = job[c]
  BY DEF GoBatch, Base, BTypes
<1>4. \A c \in Mailboxes : \E k \in Jobs : job'[c] = k /\ (BatchKept(c, k) \/ BatchKept(c, k)')
  BY <1>2, <1>3
<1>5. \A t \in Tasks : \E s \in Calls : task'[t] = s /\ CallKept(s)
  BY <1>1
<1>6. \A c \in Mailboxes : progress'[c] = NULL \/ progress'[c] = progress[c]
  OBVIOUS
<1> QED BY <1>4, <1>5, <1>6, KeptCarried

\* A saved answer is in the one mailbox there is.
LEMMA SaveGains ==
  ASSUME OneBox, table \in [Emails -> Content \cup {NULL}], NEW got \in Answers,
         table' = Save(table, got), NEW b \in Mailboxes
  PROVE  View(b) \subseteq View(b)' /\ DOMAIN got \subseteq View(b)'
<1>1. \A m \in Emails : table'[m] = IF m \in DOMAIN got THEN got[m] ELSE table[m]
  BY DEF Save
<1>2. DOMAIN got \subseteq Emails /\ \A m \in DOMAIN got : got[m] \in Content
  BY AnswerFacts
<1>3. ASSUME NEW c \in Content PROVE c # NULL /\ b \in c.boxes
  <2>1. PICK x : x \in c.boxes /\ x \in Mailboxes
    BY DEF Content
  <2> QED BY <2>1, ContentAssumption DEF OneBox
<1>4. \A m \in DOMAIN got : table'[m] # NULL /\ b \in table'[m].boxes
  BY <1>1, <1>2, <1>3
<1> QED BY <1>1, <1>2, <1>4 DEF View

-----------------------------------------------------------------------------
\* The steps of a batch.
LEMMA ReadPositionKept ==
  ASSUME Base, Base', Kept, Sunk, NEW b \in Mailboxes, ReadPosition(b)
  PROVE  Kept'
<1>1. PICK n \in Jobs : GoBatch(b, n) /\ n.pc \in {"fetch", "set"} /\ n.position = Position(b)
  BY ReadPositionIs DEF Base
<1>2. UNCHANGED vars /\ b \in populated
  BY DEF ReadPosition
<1>3. Covered(b, Position(b))
  BY <1>2 DEF Position, Kept, PagesKept
<1>4. BatchKept(b, n)
  BY <1>1, <1>2, <1>3 DEF BatchKept
<1> QED BY <1>1, <1>2, <1>4, SameTables, BatchStep DEF vars

\* The page at the position has every message of the folder from there on.
LEMMA FetchPageKept ==
  ASSUME Base, Base', Kept, Sunk, NEW b \in Mailboxes, FetchPage(b)
  PROVE  Kept'
<1>1. PICK p : p = job[b].position
  OBVIOUS
<1>2. PICK page : page = Page(b, p, PageSize)
  OBVIOUS
<1>3. PICK n \in Jobs, got \in Answers :
        /\ GoBatch(b, n) /\ p \in Nat /\ DOMAIN got = page
        /\ n.position = p + Cardinality(page)
        /\ IF page = {} THEN n.pc = "set" ELSE n.pc = "save" /\ n.got = got
  BY <1>1, <1>2, FetchPageIs DEF Base
<1>4. UNCHANGED vars /\ job[b].pc = "fetch"
  BY DEF FetchPage
<1>5. b \in populated /\ Covered(b, p)
  BY <1>1, <1>4 DEF Kept, BatchKept
<1>6. /\ Cardinality(page) \in Nat /\ Cardinality(page) <= PageSize /\ PageSize \in Nat
      /\ \A m \in InBox(b) : m \in page <=> Place(b, m) \in p .. p + PageSize - 1
  BY <1>2, <1>3, PageFacts, SyncAssumption
<1>7. CASE page = {}
  <2>1. Cardinality(page) = 0
    BY <1>7, FS_EmptySet
  <2>2. n.position = p /\ n.pc = "set"
    BY <1>3, <1>7, <2>1
  <2>3. BatchKept(b, n)
    BY <1>5, <2>2 DEF BatchKept
  <2> QED BY <1>3, <1>4, <2>3, SameTables, BatchStep DEF vars
<1>8. CASE page # {}
  <2>1. ASSUME NEW m \in Old(b), Place(b, m) < n.position PROVE m \in View(b) \/ m \in page
    <3>1. m \in InBox(b) /\ Place(b, m) \in Nat
      BY PlaceTyped DEF Old
    <3>2. CASE Place(b, m) < p
      BY <1>5, <3>2 DEF Covered
    <3>3. CASE ~(Place(b, m) < p)
      <4>1. Place(b, m) \in p .. p + PageSize - 1
        BY <1>3, <1>6, <2>1, <3>1, <3>3
      <4> QED BY <1>6, <3>1, <4>1
    <3> QED BY <3>2, <3>3
  <2>2. n.pc = "save" /\ n.got = got
    BY <1>3, <1>8
  <2>3. BatchKept(b, n)
    BY <1>3, <1>5, <2>1, <2>2 DEF BatchKept, Fetched
  <2> QED BY <1>3, <1>4, <2>3, SameTables, BatchStep DEF vars
<1> QED BY <1>7, <1>8

LEMMA SaveBatchKept ==
  ASSUME OneBox, Base, Base', Kept, Sunk, NEW b \in Mailboxes, SaveBatch(b)
  PROVE  Kept'
<1>1. PICK s : s = job[b]
  OBVIOUS
<1>2. /\ s \in Jobs /\ s.pc = "save" /\ s.got \in Answers /\ s.position \in Nat
      /\ b \in populated /\ Fetched(b, s.got, s.position)
  BY <1>1, JobFacts DEF SaveBatch, Base, BTypes, Kept, BatchKept
<1>3. PICK n : n = [s EXCEPT !.pc = "set"]
  OBVIOUS
<1>4. n \in Jobs /\ n.pc = "set" /\ n.position = s.position
  BY <1>2, <1>3, SavedMovesOn
<1>5. GoBatch(b, n) /\ table' = Save(table, s.got) /\ UNCHANGED <<progress, populated, task>>
  BY <1>1, <1>3 DEF SaveBatch
<1>6. \A c \in Mailboxes : View(c) \subseteq View(c)' /\ DOMAIN s.got \subseteq View(c)'
  BY <1>2, <1>5, SaveGains DEF Base, BTypes, Types, TypeOK
<1>7. Gains
  BY <1>5, <1>6 DEF Gains, Sunk
<1>8. Covered(b, s.position)'
  <2>1. Fetched(b, s.got, s.position)'
    BY <1>2, <1>6, CoverCarried DEF Sunk
  <2> QED BY <1>6, <2>1 DEF Fetched, Covered
<1>9. BatchKept(b, n)'
  BY <1>2, <1>4, <1>5, <1>8 DEF BatchKept, Covered
<1> QED BY <1>4, <1>5, <1>7, <1>9, BatchStep

\* The progress row says what the batch has just saved.
LEMMA SetProgressKept ==
  ASSUME Base, Base', Kept, Sunk, NEW b \in Mailboxes, SetProgress(b)
  PROVE  Kept'
<1>1. PICK p : p = job[b].position
  OBVIOUS
<1>2. job[b].pc = "set" /\ job[b] \in Jobs
  BY DEF SetProgress, Base, BTypes
<1>3. p \in Nat /\ b \in populated /\ Covered(b, p)
  BY <1>1, <1>2, JobFacts DEF Kept, BatchKept
<1>4. /\ GoBatch(b, Idle) /\ progress'[b].position = p
      /\ \A c \in Mailboxes : c # b => progress'[c] = progress[c]
  BY <1>1, SetProgressTyped DEF Base
<1>5. UNCHANGED <<table, populated, task>>
  BY DEF SetProgress
<1>6. Gains
  BY <1>5, SameTables
<1>7. \A t \in Tasks : task'[t] = Idle
  BY <1>2, <1>5, NoCall
<1>8. \A t \in Tasks : CallKept(task[t])'
  BY <1>7, KeptIdle, CallKeptIs
<1>9. ASSUME NEW c \in Mailboxes PROVE BatchKept(c, job[c])'
  <2>1. CASE c = b
    <3>1. job'[c] = Idle
      BY <1>4, <2>1 DEF GoBatch, Base, BTypes
    <3> QED BY <3>1, KeptIdle, BatchKeptIs
  <2>2. CASE c # b
    <3>1. PICK n : n = job[c]
      OBVIOUS
    <3>2. n \in Jobs /\ BatchKept(c, n) /\ job'[c] = n
      BY <1>4, <2>2, <3>1 DEF GoBatch, Base, BTypes, Kept
    <3>3. BatchKept(c, n)'
      BY <1>6, <3>2, BatchCarried DEF Gains
    <3> QED BY <3>2, <3>3, BatchKeptIs
  <2> QED BY <2>1, <2>2
<1>10. ASSUME NEW c \in populated' PROVE Covered(c, PageSize)'
  <2>1. c \in Mailboxes /\ PageSize \in Nat /\ Covered(c, PageSize)
    BY <1>5, <1>10, SyncAssumption DEF Base, BTypes, Types, TypeOK, Kept, PagesKept
  <2> QED BY <1>6, <2>1, CoverCarried DEF Gains
<1>11. ASSUME NEW c \in Mailboxes, progress'[c] # NULL
       PROVE  c \in populated' /\ Covered(c, progress[c].position)'
  <2>1. PICK n : n = progress'[c].position
    OBVIOUS
  <2>2. n \in Nat /\ c \in populated /\ Covered(c, n)
    <3>1. CASE c = b
      BY <1>3, <1>4, <2>1, <3>1
    <3>2. CASE c # b
      <4>1. progress[c] \in Progress /\ progress'[c] = progress[c]
        BY <1>4, <1>11, <3>2 DEF Base, BTypes, Types, TypeOK
      <4> QED BY <1>11, <2>1, <4>1 DEF Progress, Kept, PagesKept
    <3> QED BY <3>1, <3>2
  <2>3. Covered(c, n)'
    BY <1>6, <2>2, CoverCarried DEF Gains
  <2> QED BY <1>5, <2>1, <2>2, <2>3 DEF Covered
<1> QED BY <1>8, <1>9, <1>10, <1>11 DEF Kept, PagesKept

\* A step that leaves the cache, the calls and the batches alone, or ends them all.
LEMMA RestStep ==
  ASSUME Base, Base', Kept, Sunk, UNCHANGED <<table, populated>>,
         \A b \in Mailboxes : progress'[b] = NULL \/ progress'[b] = progress[b],
         \A b \in Mailboxes : job'[b] = Idle \/ job'[b] = job[b],
         \A t \in Tasks : task'[t] = Idle \/ task'[t] = task[t]
  PROVE  Kept'
<1>1. Idle \in Jobs /\ Idle \in Calls
  BY DEF Idle, Jobs, Calls
<1>2. \A b \in Mailboxes : job[b] \in Jobs /\ BatchKept(b, job[b])
  BY DEF Base, BTypes, Kept
<1>3. \A t \in Tasks : task[t] \in Calls /\ CallKept(task[t])
  BY DEF Base, BTypes, Types, Kept
<1>4. \A b \in Mailboxes : \E n \in Jobs : job'[b] = n /\ (BatchKept(b, n) \/ BatchKept(b, n)')
  BY <1>1, <1>2, KeptIdle
<1>5. \A t \in Tasks : \E s \in Calls : task'[t] = s /\ CallKept(s)
  BY <1>1, <1>3, KeptIdle
<1> QED BY <1>4, <1>5, SameTables, KeptCarried

-----------------------------------------------------------------------------
\* The steps of a call.
LEMMA ReadsKept ==
  ASSUME Base, Base', Kept, Sunk, UNCHANGED job, NEW t \in Tasks,
         \/ \E b \in env.open : Start(t, b)
         \/ CheckPopulated(t)
         \/ Fail(t)
  PROVE  Kept'
<1>1. PICK s \in Calls : Go(t, s) /\ s.pc \in {"idle", "query", "populated", "changes"}
  <2>1. ASSUME NEW b \in env.open, Start(t, b)
        PROVE  \E s \in Calls : Go(t, s) /\ s.pc \in {"idle", "query", "populated", "changes"}
    <3>1. PICK n : /\ n = IF cursor = NULL THEN [pc |-> "query", box |-> b]
                           ELSE [pc |-> "populated", box |-> b, since |-> cursor]
                   /\ Go(t, n)
      BY <2>1 DEF Start
    <3>2. b \in Mailboxes /\ (cursor # NULL => cursor \in Nat)
      BY TokenNat DEF Base, BTypes, Types, TypeOK, Environments
    <3>3. n \in Calls /\ n.pc \in {"query", "populated"}
      BY <3>1, <3>2 DEF Calls
    <3> QED BY <3>1, <3>3
  <2>2. ASSUME CheckPopulated(t)
        PROVE  \E s \in Calls : Go(t, s) /\ s.pc \in {"idle", "query", "populated", "changes"}
    <3>1. PICK k : k = task[t]
      OBVIOUS
    <3>2. k \in Calls /\ k.pc = "populated"
      BY <2>2, <3>1 DEF CheckPopulated, Base, BTypes, Types
    <3>3. k.box \in Mailboxes /\ k.since \in Nat
      BY <3>2, CallFacts DEF Holding
    <3>4. PICK n : /\ n = IF k.box \in populated
                           THEN [pc |-> "changes", box |-> k.box, since |-> k.since, round |-> 1]
                           ELSE [pc |-> "query", box |-> k.box]
                   /\ Go(t, n)
      BY <2>2, <3>1 DEF CheckPopulated
    <3>5. n \in Calls /\ n.pc \in {"query", "changes"}
      BY <3>3, <3>4 DEF Calls
    <3> QED BY <3>4, <3>5
  <2>3. ASSUME Fail(t)
        PROVE  \E s \in Calls : Go(t, s) /\ s.pc \in {"idle", "query", "populated", "changes"}
    <3>1. Go(t, Idle) /\ Idle \in Calls /\ Idle.pc = "idle"
      BY <2>3 DEF Fail, Idle, Calls
    <3> QED BY <3>1
  <2> QED BY <2>1, <2>2, <2>3
<1>2. CallKept(s)
  BY <1>1 DEF CallKept
<1>3. UNCHANGED <<table, populated, progress>>
  BY DEF Start, CheckPopulated, Fail, cacheVars
<1> QED BY <1>1, <1>2, <1>3, SameTables, TaskStep

\* A window of the log names nothing destroyed that the whole log does not.
LEMMA ChangesKept ==
  ASSUME Base, Base', Kept, Sunk, UNCHANGED job, NEW t \in Tasks, Changes(t)
  PROVE  Kept'
<1>1. PICK k : k = task[t]
  OBVIOUS
<1>2. k \in Calls /\ k.pc = "changes" /\ k.since <= Token /\ ServerTypeOK
  BY <1>1 DEF Changes, Base, BTypes, Types, TypeOK, Holding
<1>3. k.box \in Mailboxes /\ k.since \in Nat /\ k.round \in Nat
  BY <1>2, CallFacts DEF Holding
<1>4. UNCHANGED <<table, populated, progress>>
  BY DEF Changes, cacheVars
<1>5. CASE k.since < horizon
  <2>1. PICK n : n = [pc |-> "query", box |-> k.box] /\ Go(t, n)
    BY <1>1, <1>5 DEF Changes
  <2>2. n \in Calls /\ CallKept(n)
    BY <1>3, <2>1 DEF Calls, CallKept
  <2> QED BY <1>4, <2>1, <2>2, SameTables, TaskStep
<1>6. CASE ~(k.since < horizon)
  <2>1. PICK upto \in NextTokens(k.since) :
          Go(t, [pc |-> "get", box |-> k.box, round |-> k.round,
                 since |-> upto, more |-> upto < Token,
                 destroyed |-> Destroyed(k.since, upto),
                 ids |-> Touched(k.since, upto) \ Destroyed(k.since, upto)])
    BY <1>1, <1>6 DEF Changes
  <2>2. /\ upto \in Nat /\ upto <= Token /\ Token \in Nat
        /\ Touched(k.since, upto) \in SUBSET Emails /\ Destroyed(k.since, upto) \in SUBSET Emails
    BY <1>2, <1>3, WindowTyped, TokenNat
  <2>3. PICK gone : gone = Destroyed(k.since, upto)
    OBVIOUS
  <2>4. PICK ids : ids = Touched(k.since, upto) \ gone
    OBVIOUS
  <2>5. (upto < Token) \in BOOLEAN
    OBVIOUS
  <2>6. PICK n : n = [pc |-> "get", box |-> k.box, round |-> k.round, since |-> upto,
                      more |-> upto < Token, destroyed |-> gone, ids |-> ids]
    OBVIOUS
  <2>7. Go(t, n) /\ gone \in SUBSET Emails /\ ids \in SUBSET Emails
    BY <2>1, <2>2, <2>3, <2>4, <2>6
  <2>8. n \in Calls /\ n.pc = "get" /\ n.destroyed = gone
    BY <1>3, <2>2, <2>5, <2>6, <2>7 DEF Calls
  <2>9. gone \subseteq Destroyed(0, Token)
    <3>1. \A i \in k.since + 1 .. upto : i \in 0 + 1 .. Token
      BY <1>2, <1>3, <2>2
    <3> QED BY <2>3, <3>1 DEF Destroyed
  <2>10. CallKept(n)
    BY <2>8, <2>9 DEF CallKept
  <2> QED BY <1>4, <2>7, <2>8, <2>10, SameTables, TaskStep
<1> QED BY <1>5, <1>6

LEMMA GetSummariesKept ==
  ASSUME Base, Base', Kept, Sunk, UNCHANGED job, NEW t \in Tasks, GetSummaries(t)
  PROVE  Kept'
<1>1. PICK k : k = task[t]
  OBVIOUS
<1>2. k \in Calls /\ k.pc = "get" /\ CallKept(k) /\ ServerTypeOK
  BY <1>1 DEF GetSummaries, Base, BTypes, Types, TypeOK, Kept
<1>3. /\ k.box \in Mailboxes /\ k.since \in Nat /\ k.round \in Nat /\ k.more \in BOOLEAN
      /\ k.destroyed \in SUBSET Emails /\ k.ids \in SUBSET Emails
  BY <1>2, CallFacts DEF Holding
<1>4. PICK got : got = Get(k.ids)
  OBVIOUS
<1>5. got \in Answers
  BY <1>2, <1>3, <1>4, GetTyped
<1>6. PICK n : n = [pc |-> "save", box |-> k.box, round |-> k.round, since |-> k.since,
                    more |-> k.more, destroyed |-> k.destroyed, got |-> got]
  OBVIOUS
<1>7. Go(t, n) /\ UNCHANGED <<table, populated, progress>>
  BY <1>1, <1>4, <1>6 DEF GetSummaries, cacheVars
<1>8. n \in Calls
  BY <1>3, <1>5, <1>6, CallRecords
<1>9. CallKept(n)
  BY <1>2, <1>6 DEF CallKept
<1> QED BY <1>7, <1>8, <1>9, SameTables, TaskStep

\* With nothing destroyed a delta takes no row away.
LEMMA DeltaEmailBatchKept ==
  ASSUME OneBox, Base, Base', Kept, Sunk, UNCHANGED job, NEW t \in Tasks, DeltaEmailBatch(t)
  PROVE  Kept'
<1>1. PICK k : k = task[t]
  OBVIOUS
<1>2. k \in Calls /\ k.pc = "save" /\ CallKept(k)
  BY <1>1 DEF DeltaEmailBatch, Base, BTypes, Types, Kept
<1>3. k.box \in Mailboxes /\ k.since \in Nat /\ k.round \in Nat /\ k.got \in Answers
  BY <1>2, CallFacts DEF Holding
<1>4. k.destroyed = {}
  BY <1>2 DEF CallKept, Sunk, NothingGone
<1>5. table \in [Emails -> Content \cup {NULL}]
  BY DEF Base, BTypes, Types, TypeOK
<1>6. Delete(table, k.destroyed) = table
  BY <1>4, <1>5 DEF Delete
<1>7. table' = Save(table, k.got) /\ UNCHANGED <<populated, progress>>
  BY <1>1, <1>6 DEF DeltaEmailBatch
<1>8. Gains
  BY <1>3, <1>5, <1>7, SaveGains DEF Gains, Sunk
<1>9. PICK n : /\ n = IF k.more /\ k.round < MaxRounds
                       THEN [pc |-> "changes", box |-> k.box, since |-> k.since, round |-> k.round + 1]
                       ELSE Idle
               /\ Go(t, n)
  BY <1>1 DEF DeltaEmailBatch
<1>10. n \in Calls /\ n.pc \in {"changes", "idle"}
  BY <1>3, <1>9 DEF Calls, Idle
<1>11. CallKept(n)
  BY <1>10 DEF CallKept
<1> QED BY <1>7, <1>8, <1>9, <1>10, <1>11, TaskStep

\* The head page has the first messages of the folder.
LEMMA QueryAndGetKept ==
  ASSUME Base, Base', Kept, Sunk, UNCHANGED job, NEW t \in Tasks, QueryAndGet(t)
  PROVE  Kept'
<1>1. PICK b : b = task[t].box
  OBVIOUS
<1>2. b \in Mailboxes /\ Token \in Nat /\ ServerTypeOK
  <2>1. task[t] \in Calls /\ task[t].pc = "query"
    BY DEF QueryAndGet, Base, BTypes, Types
  <2> QED BY <1>1, <2>1, CallFacts, TokenNat DEF Base, BTypes, Types, TypeOK
<1>3. PICK page : page = Page(b, 0, PageSize)
  OBVIOUS
<1>4. PICK got : got = Get(page)
  OBVIOUS
<1>5. \A m \in InBox(b) : m \in page <=> Place(b, m) \in 0 .. 0 + PageSize - 1
  BY <1>3, PageFacts
<1>6. page \in SUBSET Emails /\ page \subseteq InBox(b)
  BY <1>3, PageInBox
<1>7. got \in Answers /\ DOMAIN got = page
  BY <1>2, <1>4, <1>6, GetTyped DEF InBox, Alive
<1>8. PICK n : n = [pc |-> "saveHead", box |-> b, since |-> Token, got |-> got]
  OBVIOUS
<1>9. Go(t, n) /\ UNCHANGED <<table, populated, progress>>
  BY <1>1, <1>3, <1>4, <1>8 DEF QueryAndGet, cacheVars
<1>10. n \in Calls
  BY <1>2, <1>7, <1>8 DEF Calls
<1>11. ASSUME NEW m \in Old(b), Place(b, m) < PageSize PROVE m \in page
  <2>1. m \in InBox(b) /\ Place(b, m) \in Nat /\ PageSize \in Nat
    BY PlaceTyped, SyncAssumption DEF Old
  <2>2. Place(b, m) \in 0 .. 0 + PageSize - 1
    BY <1>11, <2>1
  <2> QED BY <1>5, <2>1, <2>2
<1>12. CallKept(n)
  BY <1>7, <1>8, <1>11 DEF CallKept
<1> QED BY <1>9, <1>10, <1>12, SameTables, TaskStep

LEMMA SaveHeadKept ==
  ASSUME OneBox, Base, Base', Kept, Sunk, UNCHANGED job, NEW t \in Tasks, SaveHead(t)
  PROVE  Kept'
<1>1. PICK k : k = task[t]
  OBVIOUS
<1>2. k \in Calls /\ k.pc = "saveHead" /\ CallKept(k)
  BY <1>1 DEF SaveHead, Base, BTypes, Types, Kept
<1>3. k.box \in Mailboxes /\ k.got \in Answers
  BY <1>2, CallFacts
<1>4. PICK n : n = [k EXCEPT !.pc = "progress"]
  OBVIOUS
<1>5. n \in Calls /\ n.pc = "progress" /\ n.box = k.box /\ n.got = k.got
  BY <1>2, <1>4, HeadMovesOn
<1>6. CallKept(n)
  BY <1>2, <1>5 DEF CallKept
<1>7. /\ Go(t, n) /\ table' = Save(table, k.got) /\ populated' = populated \cup {k.box}
      /\ UNCHANGED progress
  BY <1>1, <1>4 DEF SaveHead, Step
<1>8. \A b \in Mailboxes : View(b) \subseteq View(b)' /\ DOMAIN k.got \subseteq View(b)'
  BY <1>3, <1>7, SaveGains DEF Base, BTypes, Types, TypeOK
<1>9. Covered(k.box, PageSize)'
  <2>1. Sinks(k.box) /\ PageSize \in Nat
    BY <1>3, SyncAssumption DEF Sunk
  <2>2. \A m \in Old(k.box) : Place(k.box, m) < PageSize => m \in DOMAIN k.got
    BY <1>2 DEF CallKept
  <2> QED BY <1>3, <1>8, <2>1, <2>2 DEF Covered, Sinks
<1>10. Gains
  BY <1>3, <1>7, <1>8, <1>9 DEF Gains, Sunk
<1> QED BY <1>5, <1>6, <1>7, <1>10, TaskStep

LEMMA ReadProgressKept ==
  ASSUME Base, Base', Kept, Sunk, UNCHANGED job, NEW t \in Tasks, ReadProgress(t)
  PROVE  Kept'
<1>1. PICK k : k = task[t]
  OBVIOUS
<1>2. k \in Calls /\ k.pc = "progress" /\ CallKept(k)
  BY <1>1 DEF ReadProgress, Base, BTypes, Types, Kept
<1>3. k.box \in Mailboxes /\ PageSize \in Nat
  BY <1>2, CallFacts, SyncAssumption
<1>4. UNCHANGED <<table, populated, progress>>
  BY DEF ReadProgress, cacheVars
<1>5. CASE progress[k.box] # NULL /\ progress[k.box].position > PageSize
  <2>1. Go(t, Idle) /\ Idle \in Calls
    BY <1>1, <1>5 DEF ReadProgress, Idle, Calls
  <2> QED BY <1>4, <2>1, KeptIdle, SameTables, TaskStep
<1>6. CASE ~(progress[k.box] # NULL /\ progress[k.box].position > PageSize)
  <2>1. PICK n : n = [k EXCEPT !.pc = "prune"]
    OBVIOUS
  <2>2. Go(t, n)
    BY <1>1, <1>6, <2>1 DEF ReadProgress, Step
  <2>3. n \in Calls /\ n.pc = "prune" /\ n.box = k.box /\ n.got = k.got
    BY <1>2, <2>1, HeadMovesOn
  <2>4. progress[k.box] # NULL => progress[k.box].position \in Nat
    BY <1>3 DEF Base, BTypes, Types, TypeOK, Progress
  <2>5. CallKept(n)
    BY <1>2, <1>3, <1>6, <2>3, <2>4 DEF CallKept
  <2> QED BY <1>4, <2>2, <2>3, <2>5, SameTables, TaskStep
<1> QED BY <1>5, <1>6

\* The prune drops nothing of the head page, and it runs only while the walk has not
\* gone beyond that page.
LEMMA PruneHeadKept ==
  ASSUME OneBox, Base, Base', Kept, Sunk, UNCHANGED job, NEW t \in Tasks, PruneHead(t)
  PROVE  Kept'
<1>1. PICK k : k = task[t]
  OBVIOUS
<1>2. k \in Calls /\ k.pc = "prune" /\ CallKept(k)
  BY <1>1 DEF PruneHead, Base, BTypes, Types, Kept
<1>3. k.box \in Mailboxes /\ PageSize \in Nat /\ \A b \in Mailboxes : b = k.box
  BY <1>2, CallFacts, SyncAssumption DEF OneBox
<1>4. Go(t, Idle) /\ table' = Prune(table, k.box, DOMAIN k.got) /\ UNCHANGED <<populated, progress>>
  BY <1>1 DEF PruneHead
<1>5. \A m \in Old(k.box) : Place(k.box, m) < PageSize => m \in DOMAIN k.got
  BY <1>2 DEF CallKept
<1>6. View(k.box) \cap DOMAIN k.got \subseteq View(k.box)'
  BY <1>4 DEF View, Prune
<1>7. ASSUME NEW n \in Nat, n <= PageSize, Covered(k.box, n)
      PROVE  Covered(k.box, n)'
  <2>1. Sinks(k.box)
    BY <1>3 DEF Sunk
  <2>2. \A m \in Old(k.box) : Place(k.box, m) < n => m \in View(k.box) \cap DOMAIN k.got
    <3>1. \A m \in Old(k.box) : Place(k.box, m) \in Nat
      BY PlaceTyped
    <3> QED BY <1>3, <1>5, <1>7, <3>1 DEF Covered
  <2> QED BY <1>6, <2>1, <2>2 DEF Covered, Sinks
<1>8. ASSUME NEW b \in populated' PROVE Covered(b, PageSize)'
  <2>1. b = k.box /\ b \in populated
    BY <1>3, <1>4, <1>8 DEF Base, BTypes, Types, TypeOK
  <2>2. Covered(k.box, PageSize)
    BY <2>1 DEF Kept, PagesKept
  <2> QED BY <1>3, <1>7, <2>1, <2>2
<1>9. ASSUME NEW b \in Mailboxes, progress'[b] # NULL
      PROVE  b \in populated' /\ Covered(b, progress[b].position)'
  <2>1. PICK n : n = progress[k.box].position
    OBVIOUS
  <2>2. b = k.box /\ progress[k.box] # NULL
    BY <1>3, <1>4, <1>9
  <2>3. n \in Nat /\ n <= PageSize /\ b \in populated /\ Covered(k.box, n)
    BY <1>2, <1>3, <2>1, <2>2 DEF Base, BTypes, Types, TypeOK, Progress, CallKept, Kept, PagesKept
  <2>4. Covered(k.box, n)'
    BY <1>7, <2>3
  <2> QED BY <1>4, <2>1, <2>2, <2>3, <2>4 DEF Covered
<1>10. \A b \in Mailboxes : job'[b] = Idle
  <2>1. task[t] # Idle
    BY <1>1, <1>2 DEF Idle
  <2> QED BY <2>1 DEF Base, Turns
<1>11. \A b \in Mailboxes : BatchKept(b, job[b])'
  BY <1>10, KeptIdle, BatchKeptIs
<1>12. ASSUME NEW u \in Tasks PROVE CallKept(task[u])'
  <2>1. PICK s : s = task'[u]
    OBVIOUS
  <2>2. s \in Calls /\ CallKept(s)
    <3>1. task'[t] = Idle /\ (u # t => task'[u] = task[u])
      BY <1>4 DEF Go, Base, BTypes, Types
    <3>2. Idle \in Calls
      BY DEF Idle, Calls
    <3> QED BY <2>1, <3>1, <3>2, KeptIdle DEF Base, BTypes, Types, Kept
  <2>3. CallKept(s)'
    BY <1>4, <2>2, CallCarried DEF Sunk
  <2> QED BY <2>1, <2>3, CallKeptIs
<1> QED BY <1>8, <1>9, <1>11, <1>12 DEF Kept, PagesKept

-----------------------------------------------------------------------------
\* The invariant and what follows from it.
LEMMA SyncStepKept ==
  ASSUME OneBox, NoOverlap, Base, Base', Kept, Sunk, SyncStep
  PROVE  Kept'
<1>1. UNCHANGED job /\ Ordinary
  BY DEF SyncStep, jobVars
<1>2. ASSUME NEW t \in Tasks, NEW b \in env.open, Start(t, b) PROVE Kept'
  BY <1>1, <1>2, ReadsKept
<1>3. ASSUME NEW t \in Tasks, CheckPopulated(t) \/ Fail(t) PROVE Kept'
  BY <1>1, <1>3, ReadsKept
<1>4. ASSUME NEW t \in Tasks, Work(t), ~CheckPopulated(t) PROVE Kept'
  BY <1>1, <1>4, ChangesKept, GetSummariesKept, DeltaEmailBatchKept, QueryAndGetKept,
     SaveHeadKept, ReadProgressKept, PruneHeadKept DEF Work
<1>5. CASE Forget \/ Server
  <2>1. UNCHANGED <<table, populated, progress, job, task>>
    BY <1>1, <1>5 DEF Forget, Server, cacheVars
  <2> QED BY <2>1, RestStep
<1> QED BY <1>1, <1>2, <1>3, <1>4, <1>5 DEF Ordinary, Work

LEMMA KeptStep == OneBox /\ NoOverlap /\ Base /\ Base' /\ KeptInv /\ [BackfillNext]_allVars => KeptInv'
<1> SUFFICES ASSUME OneBox, NoOverlap, Base, Base', KeptInv, [BackfillNext]_allVars, NothingGone'
             PROVE  Kept'
  BY DEF KeptInv
<1>0. CASE Mailboxes = {}
  BY <1>0 DEF Kept, PagesKept, CallKept, Base, BTypes, Types, TypeOK, Calls
<1> SUFFICES ASSUME Mailboxes # {} PROVE Kept'
  BY <1>0
<1>1. Kept /\ Sunk
  BY HistorySinks DEF Sunk, KeptInv
<1>2. ASSUME NEW b \in Mailboxes, ReadPosition(b) \/ FetchPage(b) \/ SaveBatch(b) \/ SetProgress(b)
      PROVE  Kept'
  BY <1>1, <1>2, ReadPositionKept, FetchPageKept, SaveBatchKept, SetProgressKept
<1>3. ASSUME NEW b \in Mailboxes, FailBatch(b) PROVE Kept'
  <2>1. UNCHANGED <<table, populated, progress, task>> /\ GoBatch(b, Idle) /\ Idle \in Jobs
    BY <1>3 DEF FailBatch, cacheVars, Idle, Jobs
  <2> QED BY <1>1, <2>1, KeptIdle, SameTables, BatchStep
<1>4. ASSUME NEW b \in Mailboxes, Reset(b) PROVE Kept'
  <2>1. UNCHANGED <<table, populated, job, task>>
    BY <1>4 DEF Reset
  <2> QED BY <1>1, <1>4, <2>1, ResetTyped, RestStep DEF Base
<1>5. CASE SyncStep
  BY <1>1, <1>5, SyncStepKept
<1>6. CASE Restart
  <2>1. /\ UNCHANGED <<table, populated, progress>> /\ \A b \in Mailboxes : job'[b] = Idle
        /\ \A t \in Tasks : task'[t] = Idle
    BY <1>6 DEF Restart, Crash, cacheVars
  <2> QED BY <1>1, <2>1, RestStep
<1>7. CASE UNCHANGED allVars
  <2>1. UNCHANGED <<table, populated, progress, job, task>>
    BY <1>7 DEF allVars, vars, jobVars
  <2> QED BY <1>1, <2>1, RestStep
<1> QED BY <1>2, <1>3, <1>4, <1>5, <1>6, <1>7 DEF BackfillNext

LEMMA KeptInit == BackfillInit => KeptInv
<1> SUFFICES ASSUME BackfillInit PROVE Kept
  BY DEF KeptInv
<1>1. env.fresh => populated = {}
  BY DEF BackfillInit, Init
<1>2. ~env.fresh => \A b, n : Covered(b, n)
  BY DEF BackfillInit, Init, Covered, Old, InBox, Alive, View
<1>3. \A b \in Mailboxes : progress[b] = NULL /\ job[b] = Idle
  BY DEF BackfillInit, Init
<1>4. \A t \in Tasks : task[t] = Idle
  BY DEF BackfillInit, Init
<1> QED BY <1>1, <1>2, <1>3, <1>4, KeptIdle DEF Kept, PagesKept

\* In an account of one mailbox, with no batch beside a call, and as long as no message
\* was destroyed: whatever restarts, failures, resets, head syncs that start over and
\* arrivals come between the batches of a walk, the messages from before it that have
\* not changed since, whose places lie between the head page and the position in the
\* progress row, are in the cache (src/backfill.rs, docs/cache.md invariants 9 to 11).
THEOREM HistoryIsKept == OneBox /\ NoOverlap => (BackfillSpec => []HistoryKept)
<1> SUFFICES ASSUME OneBox, NoOverlap PROVE BackfillSpec => []HistoryKept
  OBVIOUS
<1>1. BackfillInit => KeptInv
  BY KeptInit
<1>2. Base /\ Base' /\ KeptInv /\ [BackfillNext]_allVars => KeptInv'
  BY KeptStep
<1>3. BackfillSpec => []Base
  BY BaseAlways
<1>4. Base /\ KeptInv => HistoryKept
  <2> SUFFICES ASSUME Base, KeptInv, Destroyed(0, Token) = {},
                      NEW b \in Mailboxes, progress[b] # NULL, NEW m \in Old(b),
                      Place(b, m) \in PageSize .. progress[b].position - 1
               PROVE  m \in View(b)
    BY DEF HistoryKept
  <2>1. progress[b].position \in Nat /\ Place(b, m) \in Nat /\ PageSize \in Nat
    BY PlaceTyped, SyncAssumption DEF Base, BTypes, Types, TypeOK, Progress
  <2>2. Place(b, m) < progress[b].position
    BY <2>1
  <2> QED BY <2>2 DEF KeptInv, NothingGone, Kept, PagesKept, Covered
<1> QED BY <1>1, <1>2, <1>3, <1>4, PTL DEF BackfillSpec
=============================================================================
