--------------------------- MODULE Requests_proofs ---------------------------
(***************************************************************************)
(* Proofs about the requests that change the server, for any number of     *)
(* callers, emails, mailboxes, attachments and retries.                    *)
(***************************************************************************)
EXTENDS Requests, FiniteSetTheorems, TLAPS

\* What a call may be at.
Calls ==
  [pc : {"idle"}]
    \cup [pc : {"upload"}, kind : {"send"}, ids : {{}}, left : 0..MaxUploads]
    \cup [pc : {"wait"}, kind : Kinds, ids : SUBSET Objects, attempt : 0..MaxRetries,
          answer : Answers \cup {NULL}]
    \cup [pc : {"done"}, kind : Kinds, ids : SUBSET Objects, result : Results]

Patches  == {"update", "rename"}
Removals == {"destroy", "remove"}

\* What the kinds of call name.
KindIds(kind, ids) ==
  /\ kind \in {"update", "destroy"} => ids \subseteq Emails
  /\ kind = "rename" => \E b \in Boxes : ids = {b}

CallTyped(c) ==
  /\ call[c] \in Calls
  /\ Requesting(c) => KindIds(call[c].kind, call[c].ids)
  /\ silent[c] \in Nat /\ delivered[c] \in Nat /\ drafts[c] \in Nat
  /\ call[c].pc \in {"idle", "upload"} => silent[c] = 0
  /\ call[c].pc = "wait" => silent[c] <= call[c].attempt
  /\ silent[c] <= MaxRetries + 1

\* The server has done nothing for the caller.
Undone(c) ==
  /\ delivered[c] = 0 /\ drafts[c] = 0 /\ c \notin made
  /\ \A o \in Objects : c \notin wrote[o]

\* The requests of the caller that are on their way.
Mine(c) == {m \in net : m[1] = c}

\* The server has done what the call asks for one of its objects.
Did(c, o) == IF call[c].kind \in Patches THEN c \in wrote[o] ELSE o \in gone

\* An answer says what the server has done.
SetTrue(c, bad) ==
  /\ call[c].kind \in Patches \cup Removals
  /\ \A o \in call[c].ids : Did(c, o) \/ \E b \in bad : b.id = o
  /\ \A b \in bad : /\ b.id \in call[c].ids
                    /\ b.why = "notFound" => b.id \in gone
                    /\ silent[c] = 0 /\ call[c].kind = "rename" => c \notin wrote[b.id]

AnswerTrue(c, a) ==
  /\ a.is = "busy" /\ silent[c] = 0 => Undone(c)
  /\ a.is = "set" => SetTrue(c, a.bad)
  /\ a.is = "made" => /\ call[c].kind = "create"
                      /\ a.created => c \in made
                      /\ ~a.created /\ silent[c] = 0 => c \notin made
  /\ a.is = "sent" => /\ call[c].kind = "send"
                      /\ a.submitted => a.created /\ delivered[c] > 0
                      /\ ~a.submitted /\ silent[c] = 0 => delivered[c] = 0

\* A result says what the server has done.
ResultTrue(c, r) ==
  /\ r.is = "ok" =>
       /\ call[c].kind \in Patches \cup Removals => \A o \in call[c].ids : Did(c, o)
       /\ call[c].kind = "create" => c \in made
       /\ call[c].kind = "send" => delivered[c] > 0
  /\ r.is = "notFound" => r.id \in gone \cap call[c].ids
  /\ r.is = "refused" /\ silent[c] = 0 =>
       /\ call[c].kind = "send" => delivered[c] = 0
       /\ call[c].kind = "create" => c \notin made
       /\ call[c].kind = "rename" => \A b \in call[c].ids : c \notin wrote[b]

Truthful(c) ==
  /\ call[c].pc = "wait" /\ call[c].answer # NULL => AnswerTrue(c, call[c].answer)
  /\ call[c].pc = "done" => ResultTrue(c, call[c].result)

\* While every attempt was answered, nothing is done but by the last.
Fresh(c) ==
  /\ call[c].pc \in {"idle", "upload"} => Undone(c) /\ Mine(c) = {}
  /\ silent[c] = 0 /\ call[c].pc = "wait" =>
       /\ call[c].answer = NULL => Undone(c)
       /\ call[c].answer # NULL => Mine(c) = {}
       /\ Mine(c) \subseteq {<<c, call[c].attempt>>}
  /\ silent[c] = 0 /\ call[c].pc = "done" => Mine(c) = {}

\* Each request on its way may deliver once; all but one of them have ended in
\* silence, and a busy answer is to a request that delivered nothing.
Counted(c) ==
  /\ IsFiniteSet(Mine(c))
  /\ delivered[c] + Cardinality(Mine(c)) <= 1 + silent[c]
  /\ drafts[c] + Cardinality(Mine(c)) <= 1 + silent[c]
  /\ call[c].pc = "wait" /\ call[c].answer # NULL /\ call[c].answer.is = "busy" =>
       /\ delivered[c] + Cardinality(Mine(c)) <= silent[c]
       /\ drafts[c] + Cardinality(Mine(c)) <= silent[c]

CallInv(c) == CallTyped(c) /\ Truthful(c) /\ Fresh(c) /\ Counted(c)

\* The state that is not of one call.
Shared ==
  /\ call \in [Callers -> Calls]
  /\ net \subseteq Callers \X (0..MaxRetries)
  /\ gone \subseteq Objects /\ made \subseteq Callers
  /\ wrote \in [Objects -> SUBSET Callers]
  /\ delivered \in [Callers -> Nat] /\ drafts \in [Callers -> Nat] /\ silent \in [Callers -> Nat]

IInv == Shared /\ \A c \in Callers : CallInv(c)

-----------------------------------------------------------------------------
\* Constants and records.
LEMMA ConstantFacts ==
  /\ MaxRetries \in Nat /\ MaxUploads \in Nat
  /\ NULL \notin Answers
BY RequestsAssumption, AnswerAssumption

\* Facts about the records of a call.
LEMMA CallFacts ==
  ASSUME NEW s \in Calls
  PROVE  /\ s.pc \in {"idle", "upload", "wait", "done"}
         /\ s.pc = "upload" => s.kind = "send" /\ s.ids = {} /\ s.left \in 0..MaxUploads
         /\ s.pc \in {"wait", "done"} => s.kind \in Kinds /\ s.ids \subseteq Objects
         /\ s.pc = "wait" => s.attempt \in 0..MaxRetries /\ s.answer \in Answers \cup {NULL}
         /\ s.pc = "done" => s.result \in Results
BY DEF Calls

LEMMA WaitRecord ==
  ASSUME NEW k \in Kinds, NEW ids \in SUBSET Objects, NEW n \in 0..MaxRetries,
         NEW a \in Answers \cup {NULL}
  PROVE  [pc |-> "wait", kind |-> k, ids |-> ids, attempt |-> n, answer |-> a] \in Calls
BY DEF Calls

LEMMA DoneRecord ==
  ASSUME NEW k \in Kinds, NEW ids \in SUBSET Objects, NEW r \in Results
  PROVE  [pc |-> "done", kind |-> k, ids |-> ids, result |-> r] \in Calls
BY DEF Calls

\* A call that gets its answer is the same call.
LEMMA AnsweredRecord ==
  ASSUME NEW s \in Calls, s.pc = "wait", NEW a \in Answers
  PROVE  LET t == [s EXCEPT !.answer = a]
         IN  /\ t \in Calls /\ t.pc = "wait" /\ t.kind = s.kind /\ t.ids = s.ids
             /\ t.attempt = s.attempt /\ t.answer = a
BY DEF Calls

LEMMA ResultFacts ==
  /\ Ok \in Results /\ Ok.is = "ok"
  /\ \A why \in Failures : Failed(why) \in Results /\ Failed(why).is = why
  /\ \A e \in Emails : /\ NotFound(e) \in Results /\ NotFound(e).is = "notFound"
                       /\ NotFound(e).id = e
  /\ Failures = {"transport", "http", "method", "refused"}
BY DEF Results, Ok, Failed, NotFound, Failures

\* The requests on their way, one more or one less.
LEMMA MineAdd ==
  ASSUME NEW c, NEW n, IsFiniteSet(Mine(c)), net' = net \cup {<<c, n>>}
  PROVE  /\ Mine(c)' = Mine(c) \cup {<<c, n>>} /\ IsFiniteSet(Mine(c)')
         /\ Cardinality(Mine(c)') \in Nat /\ Cardinality(Mine(c)) \in Nat
         /\ Cardinality(Mine(c)') <= Cardinality(Mine(c)) + 1
<1>1. Mine(c)' = Mine(c) \cup {<<c, n>>}
  BY DEF Mine
<1> DEFINE S == Mine(c)
           T == Mine(c)'
           m == <<c, n>>
<1>2. T = S \cup {m}
  BY <1>1
<1> HIDE DEF S, T, m
<1>3. IsFiniteSet(S)
  BY DEF S
<1>4. /\ IsFiniteSet(T) /\ Cardinality(S) \in Nat /\ Cardinality(T) \in Nat
      /\ Cardinality(T) <= Cardinality(S) + 1
  <2>1. /\ IsFiniteSet(T)
        /\ Cardinality(T) = IF m \in S THEN Cardinality(S) ELSE Cardinality(S) + 1
    BY <1>2, <1>3, FS_AddElement
  <2>2. Cardinality(S) \in Nat
    BY <1>3, FS_CardinalityType
  <2>3. QED BY <2>1, <2>2
<1>5. QED BY <1>1, <1>4 DEF S, T

LEMMA MineRemove ==
  ASSUME NEW c, NEW n, IsFiniteSet(Mine(c)), <<c, n>> \in net, net' = net \ {<<c, n>>}
  PROVE  /\ Mine(c)' = Mine(c) \ {<<c, n>>} /\ IsFiniteSet(Mine(c)')
         /\ Cardinality(Mine(c)') \in Nat /\ Cardinality(Mine(c)) \in Nat
         /\ Cardinality(Mine(c)') = Cardinality(Mine(c)) - 1
<1>1. Mine(c)' = Mine(c) \ {<<c, n>>} /\ <<c, n>> \in Mine(c)
  BY DEF Mine
<1>2. QED BY <1>1, FS_RemoveElement, FS_CardinalityType

\* A step of one call, or of the server for it, keeps the invariants of the others;
\* what is gone stays gone.
LEMMA Frame ==
  ASSUME NEW d \in Callers, CallInv(d), call'[d] = call[d], Mine(d)' = Mine(d),
         gone \subseteq gone', d \in made' <=> d \in made,
         \A o \in Objects : d \in wrote'[o] <=> d \in wrote[o],
         delivered'[d] = delivered[d], drafts'[d] = drafts[d], silent'[d] = silent[d]
  PROVE  CallInv(d)'
<1>0. /\ call[d] \in Calls
      /\ call[d].pc \in {"wait", "done"} => call[d].ids \subseteq Objects
      /\ call[d].pc = "done" => call[d].result \in Results
      /\ KindIds(call[d].kind, call[d].ids) \/ call[d].pc \notin {"wait", "done"}
  BY CallFacts DEF CallInv, CallTyped, Requesting
<1>1. CallTyped(d)'
  BY DEF CallInv, CallTyped, Requesting, KindIds
<1>2. Undone(d) => Undone(d)'
  BY DEF Undone
<1>3. \A o \in Objects : Did(d, o) => Did(d, o)'
  BY DEF Did
<1>4. ASSUME call[d].pc = "wait", call[d].answer # NULL
      PROVE  AnswerTrue(d, call[d].answer)'
  <2>1. AnswerTrue(d, call[d].answer)
    BY <1>4 DEF CallInv, Truthful
  <2>2. ASSUME call[d].answer.is = "set" PROVE SetTrue(d, call[d].answer.bad)'
    <3>1. SetTrue(d, call[d].answer.bad)
      BY <2>1, <2>2 DEF AnswerTrue
    <3>2. call[d].ids \subseteq Objects
      BY <1>0, <1>4
    <3>3. QED BY <1>3, <3>1, <3>2 DEF SetTrue
  <2>3. QED BY <1>2, <2>1, <2>2 DEF AnswerTrue
<1>5. ASSUME call[d].pc = "done"
      PROVE  ResultTrue(d, call[d].result)'
  <2>1. ResultTrue(d, call[d].result) /\ call[d].ids \subseteq Objects
    BY <1>0, <1>5 DEF CallInv, Truthful
  <2>2. QED BY <1>3, <2>1 DEF ResultTrue
<1>6. Truthful(d)'
  BY <1>4, <1>5 DEF Truthful
<1>7. Fresh(d)'
  BY <1>2 DEF CallInv, Fresh
<1>8. Counted(d)'
  BY DEF CallInv, Counted
<1>9. QED BY <1>1, <1>6, <1>7, <1>8 DEF CallInv

\* The same for all of the others.
LEMMA FrameAll ==
  ASSUME IInv, NEW c \in Callers, NEW n,
         \A d \in Callers \ {c} : call'[d] = call[d],
         net' \in {net, net \cup {<<c, n>>}, net \ {<<c, n>>}},
         gone \subseteq gone',
         \A d \in Callers \ {c} : d \in made' <=> d \in made,
         \A d \in Callers \ {c}, o \in Objects : d \in wrote'[o] <=> d \in wrote[o],
         \A d \in Callers \ {c} : /\ delivered'[d] = delivered[d] /\ drafts'[d] = drafts[d]
                                  /\ silent'[d] = silent[d]
  PROVE  \A d \in Callers \ {c} : CallInv(d)'
<1> TAKE d \in Callers \ {c}
<1>1. Mine(d)' = Mine(d)
  <2>1. c # d
    OBVIOUS
  <2>2. QED BY <2>1 DEF Mine
<1>2. CallInv(d)
  BY DEF IInv
<1>3. QED BY <1>1, <1>2, Frame

-----------------------------------------------------------------------------
\* The client's steps.

\* A request is posted: the first, or one more after a silence or a busy answer.
LEMMA Posted ==
  ASSUME IInv, NEW c \in Callers, NEW s, NEW n \in 0..MaxRetries, Post(c, s, n),
         s.kind \in Kinds, s.ids \subseteq Objects, KindIds(s.kind, s.ids),
         UNCHANGED serverVars, silent' \in [Callers -> Nat],
         \A d \in Callers \ {c} : silent'[d] = silent[d],
         silent'[c] <= n,
         delivered[c] + Cardinality(Mine(c)) <= silent'[c],
         drafts[c] + Cardinality(Mine(c)) <= silent'[c],
         silent'[c] = 0 => Undone(c) /\ Mine(c) = {}
  PROVE  IInv'
<1> DEFINE new == [pc |-> "wait", kind |-> s.kind, ids |-> s.ids, attempt |-> n, answer |-> NULL]
<1>0. Shared /\ CallInv(c)
  BY DEF IInv
<1>1. new \in Calls
  BY WaitRecord
<1>2. /\ call' = [call EXCEPT ![c] = new] /\ net' = net \cup {<<c, n>>}
      /\ UNCHANGED <<gone, wrote, made, drafts, delivered>>
  BY DEF Post, serverVars
<1>3. /\ new.pc = "wait" /\ new.kind = s.kind /\ new.ids = s.ids /\ new.attempt = n
      /\ new.answer = NULL
  OBVIOUS
<1> HIDE DEF new
<1>4. call' \in [Callers -> Calls] /\ call'[c] = new
  BY <1>0, <1>1, <1>2 DEF Shared
<1>5. Shared'
  BY <1>0, <1>2, <1>4 DEF Shared
<1>6. /\ Mine(c)' = Mine(c) \cup {<<c, n>>} /\ IsFiniteSet(Mine(c)')
      /\ Cardinality(Mine(c)') \in Nat /\ Cardinality(Mine(c)) \in Nat
      /\ Cardinality(Mine(c)') <= Cardinality(Mine(c)) + 1
  BY <1>0, <1>2, MineAdd DEF CallInv, Counted
<1>7. delivered[c] \in Nat /\ drafts[c] \in Nat /\ silent'[c] \in Nat /\ MaxRetries \in Nat
  BY <1>0, ConstantFacts DEF Shared
<1>8. CallTyped(c)'
  BY <1>1, <1>2, <1>3, <1>4, <1>7 DEF CallTyped, Requesting, KindIds
<1>9. Truthful(c)'
  BY <1>3, <1>4 DEF Truthful
<1>10. Undone(c) => Undone(c)'
  BY <1>2 DEF Undone
<1>11. Fresh(c)'
  BY <1>3, <1>4, <1>6, <1>10 DEF Fresh
<1>12. Counted(c)'
  <2>1. /\ delivered'[c] + Cardinality(Mine(c)') <= 1 + silent'[c]
        /\ drafts'[c] + Cardinality(Mine(c)') <= 1 + silent'[c]
    BY <1>2, <1>6, <1>7
  <2>2. QED BY <1>3, <1>4, <1>6, <2>1 DEF Counted
<1>13. \A d \in Callers \ {c} : CallInv(d)'
  BY <1>0, <1>2, FrameAll DEF Shared
<1>14. CallInv(c)'
  BY <1>8, <1>9, <1>11, <1>12 DEF CallInv
<1>15. QED BY <1>5, <1>13, <1>14 DEF IInv

\* A call ends, and what it is told is so.
LEMMA Ended ==
  ASSUME IInv, NEW c \in Callers, NEW k \in Kinds, NEW ids \in SUBSET Objects, KindIds(k, ids),
         NEW r \in Results, ResultTrue(c, r)',
         call' = [call EXCEPT ![c] = [pc |-> "done", kind |-> k, ids |-> ids, result |-> r]],
         UNCHANGED <<net, serverVars>>, silent' \in [Callers -> Nat],
         \A d \in Callers \ {c} : silent'[d] = silent[d],
         silent[c] <= silent'[c], silent'[c] <= MaxRetries + 1,
         silent'[c] = 0 => Mine(c) = {}
  PROVE  IInv'
<1> DEFINE new == [pc |-> "done", kind |-> k, ids |-> ids, result |-> r]
<1>0. Shared /\ CallInv(c)
  BY DEF IInv
<1>1. new \in Calls
  BY DoneRecord
<1>2. /\ call' = [call EXCEPT ![c] = new]
      /\ UNCHANGED <<net, gone, wrote, made, drafts, delivered>>
  BY DEF serverVars
<1>3. new.pc = "done" /\ new.kind = k /\ new.ids = ids /\ new.result = r
  OBVIOUS
<1> HIDE DEF new
<1>4. call' \in [Callers -> Calls] /\ call'[c] = new
  BY <1>0, <1>1, <1>2 DEF Shared
<1>5. Shared'
  BY <1>0, <1>2, <1>4 DEF Shared
<1>6. Mine(c)' = Mine(c)
  BY <1>2 DEF Mine
<1>7. /\ IsFiniteSet(Mine(c)) /\ Cardinality(Mine(c)) \in Nat
      /\ delivered[c] \in Nat /\ drafts[c] \in Nat /\ silent[c] \in Nat /\ silent'[c] \in Nat
  <2>1. IsFiniteSet(Mine(c))
    BY <1>0 DEF CallInv, Counted
  <2>2. QED BY <1>0, <2>1, FS_CardinalityType DEF Shared
<1>8. CallTyped(c)'
  BY <1>1, <1>2, <1>3, <1>4, <1>7 DEF CallTyped, Requesting, KindIds
<1>9. Truthful(c)'
  BY <1>3, <1>4 DEF Truthful
<1>10. Fresh(c)'
  BY <1>3, <1>4, <1>6 DEF Fresh
<1>11. Counted(c)'
  <2>1. /\ delivered'[c] + Cardinality(Mine(c)) <= 1 + silent'[c]
        /\ drafts'[c] + Cardinality(Mine(c)) <= 1 + silent'[c]
    BY <1>0, <1>2, <1>7 DEF CallInv, Counted
  <2>2. QED BY <1>3, <1>4, <1>6, <1>7, <2>1 DEF Counted
<1>12. \A d \in Callers \ {c} : CallInv(d)'
  BY <1>0, <1>2, FrameAll DEF Shared
<1>13. CallInv(c)'
  BY <1>8, <1>9, <1>10, <1>11 DEF CallInv
<1>14. QED BY <1>5, <1>12, <1>13 DEF IInv

\* What an idle or composing caller knows.
LEMMA Unsent ==
  ASSUME IInv, NEW c \in Callers, call[c].pc \in {"idle", "upload"}
  PROVE  /\ silent[c] = 0 /\ delivered[c] = 0 /\ drafts[c] = 0 /\ Undone(c)
         /\ Mine(c) = {} /\ Cardinality(Mine(c)) = 0
<1>1. CallTyped(c) /\ Fresh(c)
  BY DEF IInv, CallInv
<1>2. QED BY <1>1, FS_EmptySet DEF CallTyped, Fresh, Undone

LEMMA BeginStep ==
  ASSUME IInv, NEW c \in Callers, NEW k \in Kinds, NEW ids \in SUBSET Objects, KindIds(k, ids),
         Begin(c, k, ids)
  PROVE  IInv'
<1> DEFINE s == [kind |-> k, ids |-> ids]
<1>1. s.kind = k /\ s.ids = ids /\ 0 \in 0..MaxRetries
  BY ConstantFacts
<1>2. call[c].pc = "idle" /\ Post(c, s, 0) /\ UNCHANGED <<serverVars, silent>>
  BY DEF Begin
<1> HIDE DEF s
<1>3. silent \in [Callers -> Nat]
  BY DEF IInv, Shared
<1>4. /\ silent[c] = 0 /\ delivered[c] = 0 /\ drafts[c] = 0 /\ Undone(c)
      /\ Mine(c) = {} /\ Cardinality(Mine(c)) = 0
  BY <1>2, Unsent
<1>5. /\ silent' = silent /\ silent'[c] <= 0 /\ UNCHANGED serverVars
      /\ delivered[c] + Cardinality(Mine(c)) <= silent'[c]
      /\ drafts[c] + Cardinality(Mine(c)) <= silent'[c]
  BY <1>2, <1>4
<1>6. QED BY <1>1, <1>2, <1>3, <1>4, <1>5, Posted

LEMMA NothingStep ==
  ASSUME IInv, NEW c \in Callers, NEW k \in {"update", "destroy"}, Nothing(c, k)
  PROVE  IInv'
<1>1. /\ call[c].pc = "idle" /\ UNCHANGED <<net, serverVars, silent>>
      /\ call' = [call EXCEPT ![c] = [pc |-> "done", kind |-> k, ids |-> {}, result |-> Ok]]
  BY DEF Nothing
<1>2. silent \in [Callers -> Nat] /\ call \in [Callers -> Calls]
  BY DEF IInv, Shared
<1>3. k \in Kinds /\ KindIds(k, {})
  BY DEF Kinds, KindIds
<1>4. call'[c].kind = k /\ call'[c].ids = {}
  BY <1>1, <1>2
<1>5. ResultTrue(c, Ok)'
  BY <1>3, <1>4, ResultFacts DEF ResultTrue, Kinds
<1>6. silent[c] = 0 /\ Mine(c) = {} /\ MaxRetries \in Nat
  BY <1>1, Unsent, ConstantFacts
<1>7. /\ silent' = silent /\ silent[c] <= silent'[c] /\ silent'[c] <= MaxRetries + 1
      /\ UNCHANGED <<net, serverVars>> /\ {} \in SUBSET Objects /\ Ok \in Results
  BY <1>1, <1>6, ResultFacts
<1>8. QED BY <1>1, <1>2, <1>3, <1>5, <1>6, <1>7, Ended

LEMMA ComposeStep ==
  ASSUME IInv, NEW c \in Callers, NEW k \in 0..MaxUploads,
         call[c].pc \in {"idle", "upload"},
         call' = [call EXCEPT ![c] = [pc |-> "upload", kind |-> "send", ids |-> {}, left |-> k]],
         UNCHANGED <<net, serverVars, silent>>
  PROVE  IInv'
<1> DEFINE new == [pc |-> "upload", kind |-> "send", ids |-> {}, left |-> k]
<1>0. Shared /\ CallInv(c)
  BY DEF IInv
<1>1. new \in Calls /\ new.pc = "upload"
  BY DEF Calls
<1>2. call' = [call EXCEPT ![c] = new] /\ UNCHANGED <<net, gone, wrote, made, drafts, delivered, silent>>
  BY DEF serverVars
<1> HIDE DEF new
<1>3. call' \in [Callers -> Calls] /\ call'[c] = new
  BY <1>0, <1>1, <1>2 DEF Shared
<1>4. Shared'
  BY <1>0, <1>2, <1>3 DEF Shared
<1>5. Mine(c)' = Mine(c) /\ (Undone(c) => Undone(c)')
  BY <1>2 DEF Mine, Undone
<1>6. CallTyped(c)'
  BY <1>0, <1>1, <1>2, <1>3 DEF CallInv, CallTyped, Requesting
<1>7. Truthful(c)' /\ Fresh(c)' /\ Counted(c)'
  BY <1>0, <1>1, <1>2, <1>3, <1>5 DEF CallInv, Truthful, Fresh, Counted
<1>8. \A d \in Callers \ {c} : CallInv(d)'
  BY <1>0, <1>2, FrameAll DEF Shared
<1>9. QED BY <1>4, <1>6, <1>7, <1>8 DEF IInv, CallInv

LEMMA Returned ==
  ASSUME IInv, NEW c \in Callers, NEW r \in Results, call[c].pc \in {"upload", "wait"},
         Return(c, r), ResultTrue(c, r),
         UNCHANGED <<net, serverVars>>, silent' \in [Callers -> Nat],
         \A d \in Callers \ {c} : silent'[d] = silent[d],
         silent[c] <= silent'[c], silent'[c] <= MaxRetries + 1,
         silent'[c] = 0 => Mine(c) = {}
  PROVE  IInv'
<1> DEFINE k == call[c].kind
           ids == call[c].ids
<1>0. call \in [Callers -> Calls] /\ CallTyped(c) /\ silent[c] \in Nat /\ silent'[c] \in Nat
  BY DEF IInv, Shared, CallInv
<1>1. k \in Kinds /\ ids \in SUBSET Objects /\ KindIds(k, ids)
  <2>1. CASE call[c].pc = "upload"
    BY <1>0, <2>1, CallFacts DEF Kinds, KindIds
  <2>2. CASE call[c].pc = "wait"
    BY <1>0, <2>2, CallFacts DEF CallTyped, Requesting
  <2>3. QED BY <2>1, <2>2
<1>2. call' = [call EXCEPT ![c] = [pc |-> "done", kind |-> k, ids |-> ids, result |-> r]]
  BY <1>0 DEF Return
<1>3. call'[c].kind = k /\ call'[c].ids = ids
  BY <1>0, <1>2
<1>4. silent'[c] = 0 => silent[c] = 0
  BY <1>0
<1>5. UNCHANGED <<gone, wrote, made, delivered>>
  BY DEF serverVars
<1>6. ResultTrue(c, r)'
  BY <1>1, <1>3, <1>4, <1>5 DEF ResultTrue, Did
<1> HIDE DEF k, ids
<1>7. QED BY <1>1, <1>2, <1>6, Ended

\* An error that is no refusal says nothing of the server.
LEMMA FailedTrue ==
  ASSUME NEW c, NEW why \in {"transport", "http", "method"}
  PROVE  Failed(why) \in Results /\ ResultTrue(c, Failed(why))
BY ResultFacts DEF ResultTrue

LEMMA UploadStep ==
  ASSUME IInv, NEW c \in Callers, Upload(c)
  PROVE  IInv'
<1>0. /\ call \in [Callers -> Calls] /\ silent \in [Callers -> Nat] /\ MaxRetries \in Nat
      /\ call[c].pc = "upload" /\ call[c].left > 0 /\ UNCHANGED <<net, serverVars, silent>>
  BY ConstantFacts DEF IInv, Shared, Upload
<1>1. CASE call' = [call EXCEPT ![c].left = @ - 1]
  <2> DEFINE k == call[c].left - 1
  <2>1. k \in 0..MaxUploads
    BY <1>0, CallFacts, ConstantFacts
  <2>2. [call[c] EXCEPT !.left = @ - 1] = [pc |-> "upload", kind |-> "send", ids |-> {}, left |-> k]
    <3>1. call[c] \in [pc : {"upload"}, kind : {"send"}, ids : {{}}, left : 0..MaxUploads]
      <4>1. call[c] \in Calls /\ call[c].pc = "upload"
        BY <1>0
      <4>2. QED BY <4>1 DEF Calls
    <3>2. call[c] = [pc |-> "upload", kind |-> "send", ids |-> {}, left |-> call[c].left]
      BY <3>1
    <3>3. QED BY <3>2
  <2>3. call' = [call EXCEPT ![c] = [pc |-> "upload", kind |-> "send", ids |-> {}, left |-> k]]
    BY <1>0, <1>1, <2>2
  <2> HIDE DEF k
  <2>4. QED BY <1>0, <2>1, <2>3, ComposeStep
<1>2. CASE Return(c, Failed("http"))
  <2>1. silent[c] = 0 /\ Mine(c) = {}
    BY <1>0, Unsent
  <2>2. /\ silent' = silent /\ silent[c] <= silent'[c] /\ silent'[c] <= MaxRetries + 1
        /\ UNCHANGED <<net, serverVars>>
    BY <1>0, <2>1
  <2>3. QED BY <1>0, <1>2, <2>1, <2>2, FailedTrue, Returned
<1>3. QED BY <1>1, <1>2 DEF Upload

LEMMA SendStep ==
  ASSUME IInv, NEW c \in Callers, Send(c)
  PROVE  IInv'
<1>1. /\ call[c].pc = "upload" /\ Post(c, call[c], 0)
      /\ UNCHANGED serverVars /\ silent' = silent /\ silent \in [Callers -> Nat]
      /\ call[c] \in Calls /\ 0 \in 0..MaxRetries
  BY ConstantFacts DEF Send, IInv, Shared
<1>2. /\ call[c].kind \in Kinds /\ call[c].ids \subseteq Objects
      /\ KindIds(call[c].kind, call[c].ids)
  BY <1>1, CallFacts DEF Kinds, KindIds
<1>3. /\ silent[c] = 0 /\ delivered[c] = 0 /\ drafts[c] = 0 /\ Undone(c)
      /\ Mine(c) = {} /\ Cardinality(Mine(c)) = 0
  BY <1>1, Unsent
<1>4. /\ silent'[c] <= 0
      /\ delivered[c] + Cardinality(Mine(c)) <= silent'[c]
      /\ drafts[c] + Cardinality(Mine(c)) <= silent'[c]
  BY <1>1, <1>3
<1>5. QED BY <1>1, <1>2, <1>3, <1>4, Posted

\* The facts of a waiting call.
LEMMA Waiting ==
  ASSUME IInv, NEW c \in Callers, call[c].pc = "wait"
  PROVE  /\ call[c].kind \in Kinds /\ call[c].ids \subseteq Objects
         /\ KindIds(call[c].kind, call[c].ids)
         /\ call[c].attempt \in 0..MaxRetries /\ call[c].answer \in Answers \cup {NULL}
         /\ silent \in [Callers -> Nat] /\ silent[c] <= call[c].attempt
         /\ delivered[c] \in Nat /\ drafts[c] \in Nat /\ Cardinality(Mine(c)) \in Nat
         /\ delivered[c] + Cardinality(Mine(c)) <= 1 + silent[c]
         /\ drafts[c] + Cardinality(Mine(c)) <= 1 + silent[c]
         /\ MaxRetries \in Nat
<1>1. call[c] \in Calls /\ CallTyped(c) /\ Counted(c) /\ silent \in [Callers -> Nat]
  BY DEF IInv, Shared, CallInv
<1>2. Cardinality(Mine(c)) \in Nat
  BY <1>1, FS_CardinalityType DEF Counted
<1>3. QED BY <1>1, <1>2, CallFacts, ConstantFacts DEF CallTyped, Counted, Requesting

LEMMA TransportStep ==
  ASSUME IInv, NEW c \in Callers, TransportError(c)
  PROVE  IInv'
<1>0. /\ call[c].pc = "wait" /\ silent' = [silent EXCEPT ![c] = @ + 1] /\ UNCHANGED serverVars
  BY DEF TransportError
<1>1. /\ silent' \in [Callers -> Nat] /\ silent'[c] = silent[c] + 1
      /\ silent[c] \in Nat
      /\ \A d \in Callers \ {c} : silent'[d] = silent[d]
  BY <1>0, Waiting
<1>2. CASE call[c].attempt < MaxRetries /\ Post(c, call[c], call[c].attempt + 1)
  <2> DEFINE n == call[c].attempt + 1
  <2>1. n \in 0..MaxRetries /\ silent'[c] <= n
    BY <1>0, <1>1, <1>2, Waiting
  <2>2. /\ delivered[c] + Cardinality(Mine(c)) <= silent'[c]
        /\ drafts[c] + Cardinality(Mine(c)) <= silent'[c] /\ silent'[c] # 0
    BY <1>0, <1>1, Waiting
  <2>3. Post(c, call[c], n)
    BY <1>2
  <2> HIDE DEF n
  <2>4. QED BY <1>0, <1>1, <2>1, <2>2, <2>3, Waiting, Posted
<1>3. CASE Return(c, Failed("transport")) /\ UNCHANGED net
  <2>1. /\ silent[c] <= silent'[c] /\ silent'[c] <= MaxRetries + 1 /\ silent'[c] # 0
        /\ UNCHANGED <<net, serverVars>>
    BY <1>0, <1>1, <1>3, Waiting
  <2>2. QED BY <1>0, <1>1, <1>3, <2>1, FailedTrue, Returned
<1>4. QED BY <1>2, <1>3 DEF TransportError, Retry

\* Another attempt after a busy answer, or the error of the last.
LEMMA BusyStep ==
  ASSUME IInv, NEW c \in Callers, call[c].pc = "wait", call[c].answer # NULL,
         call[c].answer.is = "busy", Retry(c, "http"), UNCHANGED <<serverVars, silent>>
  PROVE  IInv'
<1>1. CallInv(c)
  BY DEF IInv
<1>2. silent[c] = 0 => Mine(c) = {} /\ Undone(c)
  BY <1>1 DEF CallInv, Fresh, Truthful, AnswerTrue
<1>3. silent' = silent /\ silent \in [Callers -> Nat] /\ silent[c] \in Nat /\ UNCHANGED serverVars
  BY Waiting
<1>4. CASE call[c].attempt < MaxRetries /\ Post(c, call[c], call[c].attempt + 1)
  <2> DEFINE n == call[c].attempt + 1
  <2>1. n \in 0..MaxRetries /\ silent'[c] <= n
    BY <1>3, <1>4, Waiting
  <2>2. /\ delivered[c] + Cardinality(Mine(c)) <= silent'[c]
        /\ drafts[c] + Cardinality(Mine(c)) <= silent'[c]
    BY <1>1, <1>3 DEF CallInv, Counted
  <2>3. Post(c, call[c], n)
    BY <1>4
  <2> HIDE DEF n
  <2>4. QED BY <1>2, <1>3, <2>1, <2>2, <2>3, Waiting, Posted
<1>5. CASE Return(c, Failed("http")) /\ UNCHANGED net
  <2>1. /\ silent[c] <= silent'[c] /\ silent'[c] <= MaxRetries + 1
        /\ UNCHANGED <<net, serverVars>>
    BY <1>3, <1>5, Waiting
  <2>2. QED BY <1>2, <1>3, <1>5, <2>1, FailedTrue, Returned
<1>6. QED BY <1>4, <1>5 DEF Retry

\* The answer decides.
LEMMA AnsweredStep ==
  ASSUME IInv, NEW c \in Callers, call[c].pc = "wait", call[c].answer # NULL,
         NEW r \in Results, Return(c, r), ResultTrue(c, r),
         UNCHANGED <<net, serverVars, silent>>
  PROVE  IInv'
<1>1. silent[c] = 0 => Mine(c) = {}
  BY DEF IInv, CallInv, Fresh
<1>2. /\ silent' = silent /\ silent \in [Callers -> Nat] /\ UNCHANGED <<net, serverVars>>
      /\ silent[c] <= silent'[c] /\ silent'[c] <= MaxRetries + 1
  BY Waiting
<1>3. QED BY <1>1, <1>2, Returned

\* What check_set_errors makes of a true answer is true.
LEMMA CheckSetTrue ==
  ASSUME NEW c, NEW answer, answer.bad \subseteq [id : Objects, why : {"notFound", "forbidden"}],
         SetTrue(c, answer.bad), call[c].kind \in {"update", "destroy"},
         call[c].ids \subseteq Emails, NEW r \in CheckSet(answer)
  PROVE  r \in Results /\ ResultTrue(c, r)
<1>1. CASE answer.bad = {}
  BY <1>1, ResultFacts DEF CheckSet, SetTrue, ResultTrue
<1>2. CASE answer.bad # {}
  <2>1. PICK b \in answer.bad :
          r = IF b.why = "notFound" THEN NotFound(b.id) ELSE Failed("refused")
    BY <1>2 DEF CheckSet
  <2>2. b.id \in call[c].ids /\ (b.why = "notFound" => b.id \in gone)
    BY DEF SetTrue
  <2>3. CASE b.why = "notFound"
    BY <2>1, <2>2, <2>3, ResultFacts DEF ResultTrue
  <2>4. CASE b.why # "notFound"
    BY <2>1, <2>4, ResultFacts DEF ResultTrue
  <2>5. QED BY <2>3, <2>4
<1>3. QED BY <1>1, <1>2

LEMMA CheckBoxTrue ==
  ASSUME NEW c, NEW answer, SetTrue(c, answer.bad), call[c].kind \in {"rename", "remove"},
         KindIds(call[c].kind, call[c].ids)
  PROVE  CheckBox(answer) \in Results /\ ResultTrue(c, CheckBox(answer))
<1>1. CASE answer.bad = {}
  BY <1>1, ResultFacts DEF CheckBox, SetTrue, ResultTrue
<1>2. CASE answer.bad # {}
  <2>1. CheckBox(answer) = Failed("refused")
    BY <1>2 DEF CheckBox
  <2>2. ASSUME silent[c] = 0, call[c].kind = "rename"
        PROVE  \A b \in call[c].ids : c \notin wrote[b]
    BY <1>2, <2>2 DEF SetTrue, KindIds
  <2>3. QED BY <2>1, <2>2, ResultFacts DEF ResultTrue
<1>3. QED BY <1>1, <1>2

LEMMA AnswerFacts ==
  ASSUME NEW a \in Answers
  PROVE  /\ a.is \in {"busy", "status", "broken", "error", "set", "made", "sent"}
         /\ a.is = "set" => a.bad \subseteq [id : Objects, why : {"notFound", "forbidden"}]
         /\ a.is = "made" => a.created \in BOOLEAN
         /\ a.is = "sent" => a.created \in BOOLEAN /\ a.submitted \in BOOLEAN
BY DEF Answers

LEMMA ReceiveStep ==
  ASSUME IInv, NEW c \in Callers, Receive(c)
  PROVE  IInv'
<1> DEFINE a == call[c].answer
<1>0. call[c].pc = "wait" /\ a # NULL /\ UNCHANGED <<serverVars, silent>>
  BY DEF Receive
<1>1. a \in Answers /\ KindIds(call[c].kind, call[c].ids)
  BY <1>0, Waiting
<1>2. AnswerTrue(c, a)
  BY <1>0 DEF IInv, CallInv, Truthful
<1>3. CASE a.is = "busy"
  BY <1>0, <1>3, BusyStep DEF Receive, Busy
<1>4. CASE a.is # "busy"
  <2>0. UNCHANGED <<net, serverVars, silent>>
    BY <1>0, <1>4 DEF Receive, Busy
  <2>1. CASE a.is \in {"status", "broken"}
    <3>1. Return(c, Failed("http"))
      BY <1>4, <2>1 DEF Receive, Busy
    <3>2. QED BY <1>0, <2>0, <3>1, FailedTrue, AnsweredStep
  <2>2. CASE a.is = "error"
    <3>1. Return(c, Failed("method"))
      BY <1>4, <2>2 DEF Receive, Busy
    <3>2. QED BY <1>0, <2>0, <3>1, FailedTrue, AnsweredStep
  <2>3. CASE a.is = "set" /\ call[c].kind \in {"update", "destroy"}
    <3>1. PICK r \in CheckSet(a) : Return(c, r)
      BY <1>4, <2>3 DEF Receive, Busy
    <3>2. /\ a.bad \subseteq [id : Objects, why : {"notFound", "forbidden"}]
          /\ SetTrue(c, a.bad) /\ call[c].ids \subseteq Emails
      BY <1>1, <1>2, <2>3, AnswerFacts DEF AnswerTrue, KindIds
    <3>3. r \in Results /\ ResultTrue(c, r)
      BY <2>3, <3>1, <3>2, CheckSetTrue
    <3>4. QED BY <1>0, <2>0, <3>1, <3>3, AnsweredStep
  <2>4. CASE a.is = "set" /\ call[c].kind \in {"rename", "remove"}
    <3>1. Return(c, CheckBox(a))
      BY <1>4, <2>4 DEF Receive, Busy
    <3>2. SetTrue(c, a.bad)
      BY <1>2, <2>4 DEF AnswerTrue
    <3>3. CheckBox(a) \in Results /\ ResultTrue(c, CheckBox(a))
      BY <1>1, <2>4, <3>2, CheckBoxTrue
    <3>4. QED BY <1>0, <2>0, <3>1, <3>3, AnsweredStep
  <2>5. CASE a.is = "made"
    <3>1. Return(c, CheckCreate(a))
      BY <1>4, <2>5 DEF Receive, Busy
    <3>2. CheckCreate(a) \in Results /\ ResultTrue(c, CheckCreate(a))
      BY <1>2, <2>5, ResultFacts DEF AnswerTrue, CheckCreate, ResultTrue, Patches, Removals
    <3>3. QED BY <1>0, <2>0, <3>1, <3>2, AnsweredStep
  <2>6. CASE a.is = "sent"
    <3>1. Return(c, CheckSend(a))
      BY <1>4, <2>6 DEF Receive, Busy
    <3>2. CheckSend(a) \in Results /\ ResultTrue(c, CheckSend(a))
      <4>0. /\ call[c].kind = "send"
            /\ a.submitted => a.created /\ delivered[c] > 0
            /\ ~a.submitted /\ silent[c] = 0 => delivered[c] = 0
        BY <1>2, <2>6 DEF AnswerTrue
      <4>1. CASE a.created /\ a.submitted
        BY <4>0, <4>1, ResultFacts DEF CheckSend, ResultTrue, Patches, Removals
      <4>2. CASE ~(a.created /\ a.submitted)
        BY <4>0, <4>2, ResultFacts DEF CheckSend, ResultTrue, Patches, Removals
      <4>3. QED BY <4>1, <4>2
    <3>3. QED BY <1>0, <2>0, <3>1, <3>2, AnsweredStep
  <2>7. a.is = "set" => call[c].kind \in {"update", "destroy", "rename", "remove"}
    BY <1>2 DEF AnswerTrue, SetTrue, Patches, Removals
  <2>8. QED BY <1>1, <1>4, <2>1, <2>2, <2>3, <2>4, <2>5, <2>6, <2>7, AnswerFacts
<1>5. QED BY <1>3, <1>4

-----------------------------------------------------------------------------
\* The server's steps.

\* The request is executed, or turned away, and its answer goes back.
LEMMA ServerAnswers ==
  ASSUME IInv, NEW c \in Callers, NEW n, NEW a \in Answers, <<c, n>> \in net, Answer(c, n, a),
         gone \subseteq gone', gone' \subseteq Objects,
         made \subseteq made', made' \subseteq made \cup {c},
         wrote' \in [Objects -> SUBSET Callers],
         \A d \in Callers \ {c}, o \in Objects : d \in wrote'[o] <=> d \in wrote[o],
         \A o \in Objects : wrote[o] \subseteq wrote'[o],
         delivered' \in [Callers -> Nat], drafts' \in [Callers -> Nat],
         \A d \in Callers \ {c} : delivered'[d] = delivered[d] /\ drafts'[d] = drafts[d],
         delivered'[c] \in {delivered[c], delivered[c] + 1},
         drafts'[c] \in {drafts[c], drafts[c] + 1},
         a.is = "busy" => delivered'[c] = delivered[c] /\ drafts'[c] = drafts[c],
         call'[c].kind = call[c].kind /\ call'[c].ids = call[c].ids /\ call[c].pc = "wait"
           => AnswerTrue(c, a)'
  PROVE  IInv'
<1>0. Shared /\ CallInv(c) /\ call[c] \in Calls
  BY DEF IInv, Shared
<1>1. /\ net' = net \ {<<c, n>>} /\ silent' = silent
      /\ call' = IF call[c].pc = "wait" /\ call[c].attempt = n
                 THEN [call EXCEPT ![c].answer = a] ELSE call
  BY DEF Answer
<1>2. /\ Mine(c)' = Mine(c) \ {<<c, n>>} /\ IsFiniteSet(Mine(c)')
      /\ Cardinality(Mine(c)') \in Nat /\ Cardinality(Mine(c)) \in Nat
      /\ Cardinality(Mine(c)') = Cardinality(Mine(c)) - 1
  BY <1>0, <1>1, MineRemove DEF CallInv, Counted
<1>3. <<c, n>> \in Mine(c)
  BY DEF Mine
<1>4. delivered[c] \in Nat /\ drafts[c] \in Nat /\ silent[c] \in Nat
  BY <1>0 DEF Shared
<1>5. call[c].pc \in {"wait", "done"}
  BY <1>0, <1>3, CallFacts DEF CallInv, Fresh
<1>6. /\ delivered'[c] + Cardinality(Mine(c)') <= delivered[c] + Cardinality(Mine(c))
      /\ drafts'[c] + Cardinality(Mine(c)') <= drafts[c] + Cardinality(Mine(c))
      /\ a.is = "busy" =>
           /\ delivered'[c] + Cardinality(Mine(c)') < delivered[c] + Cardinality(Mine(c))
           /\ drafts'[c] + Cardinality(Mine(c)') < drafts[c] + Cardinality(Mine(c))
  BY <1>2, <1>4
<1>7. CASE call[c].pc = "wait" /\ call[c].attempt = n
  <2> DEFINE new == [call[c] EXCEPT !.answer = a]
  <2>1. /\ new \in Calls /\ new.pc = "wait" /\ new.kind = call[c].kind /\ new.ids = call[c].ids
        /\ new.attempt = call[c].attempt /\ new.answer = a
    BY <1>0, <1>7, AnsweredRecord
  <2>2. call' = [call EXCEPT ![c] = new]
    BY <1>0, <1>1, <1>7 DEF Shared
  <2> HIDE DEF new
  <2>3. call' \in [Callers -> Calls] /\ call'[c] = new
    BY <1>0, <2>1, <2>2 DEF Shared
  <2>4. Shared'
    BY <1>0, <1>1, <2>3 DEF Shared
  <2>5. CallTyped(c)'
    BY <1>0, <1>1, <1>5, <2>1, <2>3, <2>4 DEF CallInv, CallTyped, Requesting, KindIds, Shared
  <2>6. Truthful(c)'
    BY <1>7, <2>1, <2>3 DEF Truthful
  <2>7. silent[c] = 0 => Mine(c)' = {}
    BY <1>0, <1>2, <1>7 DEF CallInv, Fresh
  <2>8. Fresh(c)'
    <3>1. a # NULL
      BY ConstantFacts
    <3>2. QED BY <1>1, <2>1, <2>3, <2>7, <3>1 DEF Fresh
  <2>9. Counted(c)'
    <3>1. /\ delivered[c] + Cardinality(Mine(c)) <= 1 + silent[c]
          /\ drafts[c] + Cardinality(Mine(c)) <= 1 + silent[c]
      BY <1>0 DEF CallInv, Counted
    <3>2. /\ delivered'[c] + Cardinality(Mine(c)') <= 1 + silent[c]
          /\ drafts'[c] + Cardinality(Mine(c)') <= 1 + silent[c]
          /\ a.is = "busy" => /\ delivered'[c] + Cardinality(Mine(c)') <= silent[c]
                              /\ drafts'[c] + Cardinality(Mine(c)') <= silent[c]
      BY <1>2, <1>4, <1>6, <3>1
    <3>3. QED BY <1>1, <1>2, <2>1, <2>3, <3>2 DEF Counted
  <2>10. \A d \in Callers \ {c} : CallInv(d)'
    BY <1>0, <1>1, <2>2, FrameAll DEF Shared
  <2>11. QED BY <2>4, <2>5, <2>6, <2>8, <2>9, <2>10 DEF IInv, CallInv
<1>8. CASE ~(call[c].pc = "wait" /\ call[c].attempt = n)
  <2>1. call' = call
    BY <1>1, <1>8
  <2>2. silent[c] # 0
    BY <1>0, <1>3, <1>5, <1>8 DEF CallInv, Fresh
  <2>3. Shared'
    BY <1>0, <1>1, <2>1 DEF Shared
  <2>4. CallTyped(c)'
    BY <1>0, <1>1, <2>1, <2>3 DEF CallInv, CallTyped, Requesting, KindIds, Shared
  <2>5. call[c].ids \subseteq Objects
    BY <1>0, <1>5, CallFacts
  <2>6. \A o \in Objects : Did(c, o) => Did(c, o)'
    BY <2>1 DEF Did
  <2>7. delivered[c] > 0 => delivered'[c] > 0
    BY <1>4
  <2>8. Truthful(c)'
    <3>1. ASSUME call[c].pc = "wait", call[c].answer # NULL
          PROVE  AnswerTrue(c, call[c].answer)'
      <4>1. AnswerTrue(c, call[c].answer)
        BY <1>0, <3>1 DEF CallInv, Truthful
      <4>2. ASSUME call[c].answer.is = "set" PROVE SetTrue(c, call[c].answer.bad)'
        <5>1. SetTrue(c, call[c].answer.bad)
          BY <4>1, <4>2 DEF AnswerTrue
        <5>2. QED BY <1>1, <2>1, <2>2, <2>5, <2>6, <5>1 DEF SetTrue
      <4>3. QED BY <1>1, <2>1, <2>2, <2>7, <4>1, <4>2 DEF AnswerTrue
    <3>2. ASSUME call[c].pc = "done"
          PROVE  ResultTrue(c, call[c].result)'
      <4>1. ResultTrue(c, call[c].result)
        BY <1>0, <3>2 DEF CallInv, Truthful
      <4>2. QED BY <1>1, <2>1, <2>2, <2>5, <2>6, <2>7, <4>1 DEF ResultTrue
    <3>3. QED BY <2>1, <3>1, <3>2 DEF Truthful
  <2>9. Fresh(c)'
    BY <1>1, <1>5, <2>1, <2>2 DEF Fresh
  <2>10. Counted(c)'
    <3>1. CASE call[c].pc = "wait" /\ call[c].answer # NULL /\ call[c].answer.is = "busy"
      <4>1. /\ delivered[c] + Cardinality(Mine(c)) <= silent[c]
            /\ drafts[c] + Cardinality(Mine(c)) <= silent[c]
        BY <1>0, <3>1 DEF CallInv, Counted
      <4>2. /\ delivered'[c] + Cardinality(Mine(c)') <= silent[c]
            /\ drafts'[c] + Cardinality(Mine(c)') <= silent[c]
            /\ delivered'[c] + Cardinality(Mine(c)') <= 1 + silent[c]
            /\ drafts'[c] + Cardinality(Mine(c)') <= 1 + silent[c]
        BY <1>2, <1>4, <1>6, <4>1
      <4>3. QED BY <1>1, <1>2, <2>1, <4>2 DEF Counted
    <3>2. CASE ~(call[c].pc = "wait" /\ call[c].answer # NULL /\ call[c].answer.is = "busy")
      <4>1. /\ delivered[c] + Cardinality(Mine(c)) <= 1 + silent[c]
            /\ drafts[c] + Cardinality(Mine(c)) <= 1 + silent[c]
        BY <1>0 DEF CallInv, Counted
      <4>2. /\ delivered'[c] + Cardinality(Mine(c)') <= 1 + silent[c]
            /\ drafts'[c] + Cardinality(Mine(c)') <= 1 + silent[c]
        BY <1>2, <1>4, <1>6, <4>1
      <4>3. QED BY <1>1, <1>2, <2>1, <3>2, <4>2 DEF Counted
    <3>3. QED BY <3>1, <3>2
  <2>11. \A d \in Callers \ {c} : CallInv(d)'
    BY <1>0, <1>1, <2>1, FrameAll DEF Shared
  <2>12. QED BY <2>3, <2>4, <2>8, <2>9, <2>10, <2>11 DEF IInv, CallInv
<1>9. QED BY <1>7, <1>8

\* Before any silence, a request on its way is the first thing the server hears.
LEMMA FirstHeard ==
  ASSUME IInv, NEW c \in Callers, NEW n, <<c, n>> \in net
  PROVE  /\ call[c] \in Calls /\ call[c].pc \in {"wait", "done"}
         /\ call[c].kind \in Kinds /\ call[c].ids \subseteq Objects
         /\ silent[c] = 0 => Undone(c)
<1>1. Fresh(c) /\ call[c] \in Calls
  BY DEF IInv, Shared, CallInv
<1>2. <<c, n>> \in Mine(c)
  BY DEF Mine
<1>3. QED BY <1>1, <1>2, CallFacts DEF Fresh

\* What stays as it is when nothing happens on the server.
LEMMA ServerTyped ==
  ASSUME IInv
  PROVE  /\ gone \subseteq Objects /\ made \subseteq Callers
         /\ wrote \in [Objects -> SUBSET Callers]
         /\ delivered \in [Callers -> Nat] /\ drafts \in [Callers -> Nat]
         /\ silent \in [Callers -> Nat] /\ call \in [Callers -> Calls]
BY DEF IInv, Shared

LEMMA PlainAnswers ==
  \A is \in {"busy", "status", "broken", "error"} :
    [is |-> is] \in Answers /\ [is |-> is].is = is
BY DEF Answers

LEMMA TurnAwayStep ==
  ASSUME IInv, NEW c \in Callers, NEW n, TurnAway(c, n)
  PROVE  IInv'
<1>1. PICK is \in {"busy", "status"} : Answer(c, n, [is |-> is])
  BY DEF TurnAway
<1> DEFINE a == [is |-> is]
<1>2. a \in Answers /\ a.is = is /\ Answer(c, n, a)
  BY <1>1, PlainAnswers
<1> HIDE DEF a
<1>3. <<c, n>> \in net /\ UNCHANGED <<gone, wrote, made, drafts, delivered>>
  BY DEF TurnAway, serverVars
<1>4. silent' = silent
  BY <1>2 DEF Answer
<1>5. AnswerTrue(c, a)'
  <2>1. Undone(c) => Undone(c)'
    BY <1>3 DEF Undone
  <2>2. QED BY <1>2, <1>3, <1>4, <2>1, FirstHeard DEF AnswerTrue
<1>6. QED BY <1>2, <1>3, <1>5, ServerTyped, ServerAnswers

LEMMA ExecuteSetStep ==
  ASSUME IInv, NEW c \in Callers, NEW n, ExecuteSet(c, n)
  PROVE  IInv'
<1> DEFINE bad(done) == {[id |-> e, why |-> IF e \in gone THEN "notFound" ELSE "forbidden"] :
                           e \in call[c].ids \ done}
<1>1. PICK done \in SUBSET (call[c].ids \ gone) :
        /\ IF call[c].kind \in {"destroy", "remove"}
           THEN gone' = gone \cup done /\ UNCHANGED wrote
           ELSE /\ wrote' = [o \in Objects |-> IF o \in done THEN wrote[o] \cup {c} ELSE wrote[o]]
                /\ UNCHANGED gone
        /\ \/ \E is \in {"error", "broken"} : Answer(c, n, [is |-> is])
           \/ Answer(c, n, [is |-> "set", bad |-> bad(done)])
  BY DEF ExecuteSet
<1>2. /\ <<c, n>> \in net /\ call[c].kind \in Patches \cup Removals
      /\ UNCHANGED <<made, drafts, delivered>> /\ silent' = silent
  BY <1>1 DEF ExecuteSet, Answer, Patches, Removals
<1>3. /\ call[c].ids \subseteq Objects
      /\ silent[c] = 0 => Undone(c)
  BY <1>2, FirstHeard
<1>4. /\ gone \subseteq gone' /\ gone' \subseteq Objects
      /\ wrote' \in [Objects -> SUBSET Callers]
      /\ \A d \in Callers \ {c}, o \in Objects : d \in wrote'[o] <=> d \in wrote[o]
      /\ \A o \in Objects : wrote[o] \subseteq wrote'[o]
      /\ \A o \in Objects \ done : wrote'[o] = wrote[o]
      /\ call[c].kind \in Patches => \A o \in done : c \in wrote'[o]
      /\ call[c].kind \in Removals => done \subseteq gone'
  BY <1>1, <1>2, <1>3, ServerTyped DEF Patches, Removals
<1>5. ASSUME NEW is \in {"error", "broken"}, Answer(c, n, [is |-> is])
      PROVE  IInv'
  <2> DEFINE a == [is |-> is]
  <2>1. a \in Answers /\ a.is = is /\ Answer(c, n, a)
    BY <1>5, PlainAnswers
  <2> HIDE DEF a
  <2>2. AnswerTrue(c, a)'
    BY <2>1 DEF AnswerTrue
  <2>3. a.is # "busy"
    BY <2>1
  <2>4. QED BY <1>2, <1>4, <2>1, <2>2, <2>3, ServerTyped, ServerAnswers
<1>6. CASE Answer(c, n, [is |-> "set", bad |-> bad(done)])
  <2>0. PICK a : a = [is |-> "set", bad |-> bad(done)]
    OBVIOUS
  <2>1. a.is = "set" /\ a.bad = bad(done) /\ Answer(c, n, a)
    BY <1>6, <2>0
  <2>2. a \in Answers
    <3>1. bad(done) \in SUBSET [id : Objects, why : {"notFound", "forbidden"}]
      BY <1>3
    <3>2. QED BY <2>0, <3>1 DEF Answers
  <2>3. ASSUME NEW o \in call[c].ids \ done PROVE \E b \in a.bad : b.id = o
    <3> DEFINE b == [id |-> o, why |-> IF o \in gone THEN "notFound" ELSE "forbidden"]
    <3>1. b \in bad(done) /\ b.id = o
      OBVIOUS
    <3>2. QED BY <2>1, <3>1
  <2>4. \A b \in a.bad : /\ b.id \in call[c].ids \ done
                         /\ b.why = "notFound" => b.id \in gone
    BY <2>1
  <2> HIDE DEF bad
  <2>5. ASSUME call'[c].kind = call[c].kind, call'[c].ids = call[c].ids
        PROVE  AnswerTrue(c, a)'
    <3>1. \A o \in call[c].ids : Did(c, o)' \/ \E b \in a.bad : b.id = o
      <4>1. \A o \in done : Did(c, o)'
        BY <1>2, <1>4, <2>5 DEF Did, Patches, Removals
      <4>2. QED BY <2>3, <4>1
    <3>2. \A b \in a.bad : silent[c] = 0 => c \notin wrote'[b.id]
      BY <1>3, <1>4, <2>4 DEF Undone
    <3>3. SetTrue(c, a.bad)'
      BY <1>2, <1>4, <2>4, <2>5, <3>1, <3>2 DEF SetTrue
    <3>4. QED BY <2>1, <3>3 DEF AnswerTrue
  <2>6. a.is # "busy"
    BY <2>1
  <2>7. call'[c].kind = call[c].kind /\ call'[c].ids = call[c].ids /\ call[c].pc = "wait"
          => AnswerTrue(c, a)'
    BY <2>5
  <2>8. QED BY <1>2, <1>4, <2>1, <2>2, <2>6, <2>7, ServerTyped, ServerAnswers
<1>7. QED BY <1>1, <1>5, <1>6

LEMMA ExecuteCreateStep ==
  ASSUME IInv, NEW c \in Callers, NEW n, ExecuteCreate(c, n)
  PROVE  IInv'
<1>1. PICK new \in SUBSET ({c} \ made) :
        /\ made' = made \cup new
        /\ \/ Answer(c, n, [is |-> "made", created |-> c \in new])
           \/ \E is \in {"error", "broken"} : Answer(c, n, [is |-> is])
  BY DEF ExecuteCreate
<1>2. /\ <<c, n>> \in net /\ call[c].kind = "create"
      /\ UNCHANGED <<gone, wrote, drafts, delivered>> /\ silent' = silent
  BY <1>1 DEF ExecuteCreate, Answer
<1>3. made \subseteq made' /\ made' \subseteq made \cup {c} /\ (c \in new => c \in made')
  BY <1>1
<1>4. silent[c] = 0 => c \notin made
  BY <1>2, FirstHeard DEF Undone
<1>5. ASSUME NEW is \in {"error", "broken"}, Answer(c, n, [is |-> is])
      PROVE  IInv'
  <2> DEFINE a == [is |-> is]
  <2>1. a \in Answers /\ a.is = is /\ Answer(c, n, a)
    BY <1>5, PlainAnswers
  <2> HIDE DEF a
  <2>2. AnswerTrue(c, a)' /\ a.is # "busy"
    BY <2>1 DEF AnswerTrue
  <2>3. QED BY <1>2, <1>3, <2>1, <2>2, ServerTyped, ServerAnswers
<1>6. CASE Answer(c, n, [is |-> "made", created |-> c \in new])
  <2> DEFINE a == [is |-> "made", created |-> c \in new]
  <2>1. a.is = "made" /\ a.created = (c \in new) /\ Answer(c, n, a)
    BY <1>6
  <2>2. a \in Answers
    BY DEF Answers
  <2> HIDE DEF a
  <2>3. ASSUME call'[c].kind = call[c].kind
        PROVE  AnswerTrue(c, a)'
    <3>1. a.created => c \in made'
      BY <1>3, <2>1
    <3>2. ~a.created /\ silent[c] = 0 => c \notin made'
      BY <1>1, <1>4, <2>1
    <3>3. QED BY <1>2, <2>1, <2>3, <3>1, <3>2 DEF AnswerTrue
  <2>4. a.is # "busy"
    BY <2>1
  <2>5. QED BY <1>2, <1>3, <2>1, <2>2, <2>3, <2>4, ServerTyped, ServerAnswers
<1>7. QED BY <1>1, <1>5, <1>6

LEMMA ExecuteSendStep ==
  ASSUME IInv, NEW c \in Callers, NEW n, ExecuteSend(c, n)
  PROVE  IInv'
<1>1. PICK o \in SendOutcomes :
        /\ drafts' = [drafts EXCEPT ![c] = IF LeavesDraft(o) THEN @ + 1 ELSE @]
        /\ delivered' = [delivered EXCEPT ![c] = IF o.submitted THEN @ + 1 ELSE @]
        /\ \/ Answer(c, n, [is |-> "sent", created |-> o.created, submitted |-> o.submitted])
           \/ Answer(c, n, [is |-> "broken"])
           \/ ~o.moved /\ Answer(c, n, [is |-> "error"])
  BY DEF ExecuteSend
<1>2. /\ <<c, n>> \in net /\ call[c].kind = "send"
      /\ UNCHANGED <<gone, wrote, made>> /\ silent' = silent
  BY <1>1 DEF ExecuteSend, Answer
<1>3. /\ delivered' \in [Callers -> Nat] /\ drafts' \in [Callers -> Nat]
      /\ \A d \in Callers \ {c} : delivered'[d] = delivered[d] /\ drafts'[d] = drafts[d]
      /\ delivered'[c] = IF o.submitted THEN delivered[c] + 1 ELSE delivered[c]
      /\ drafts'[c] \in {drafts[c], drafts[c] + 1} /\ delivered[c] \in Nat
  BY <1>1, ServerTyped
<1>4. o.submitted \in BOOLEAN /\ o.created \in BOOLEAN /\ (o.submitted => o.created)
  BY DEF SendOutcomes
<1>5. silent[c] = 0 => delivered[c] = 0
  BY <1>2, FirstHeard DEF Undone
<1>6. delivered'[c] \in {delivered[c], delivered[c] + 1}
  BY <1>3
<1>7. ASSUME NEW is \in {"error", "broken"}, Answer(c, n, [is |-> is])
      PROVE  IInv'
  <2> DEFINE a == [is |-> is]
  <2>1. a \in Answers /\ a.is = is /\ Answer(c, n, a)
    BY <1>7, PlainAnswers
  <2> HIDE DEF a
  <2>2. AnswerTrue(c, a)' /\ a.is # "busy"
    BY <2>1 DEF AnswerTrue
  <2>3. QED BY <1>2, <1>3, <1>6, <2>1, <2>2, ServerTyped, ServerAnswers
<1>8. CASE Answer(c, n, [is |-> "sent", created |-> o.created, submitted |-> o.submitted])
  <2> DEFINE a == [is |-> "sent", created |-> o.created, submitted |-> o.submitted]
  <2>1. a.is = "sent" /\ a.created = o.created /\ a.submitted = o.submitted /\ Answer(c, n, a)
    BY <1>8
  <2>2. a \in Answers
    BY <1>4 DEF Answers
  <2> HIDE DEF a
  <2>3. ASSUME call'[c].kind = call[c].kind
        PROVE  AnswerTrue(c, a)'
    <3>1. a.submitted => a.created /\ delivered'[c] > 0
      BY <1>3, <1>4, <2>1
    <3>2. ~a.submitted /\ silent[c] = 0 => delivered'[c] = 0
      BY <1>3, <1>5, <2>1
    <3>3. QED BY <1>2, <2>1, <2>3, <3>1, <3>2 DEF AnswerTrue
  <2>4. a.is # "busy"
    BY <2>1
  <2>5. QED BY <1>2, <1>3, <1>6, <2>1, <2>2, <2>3, <2>4, ServerTyped, ServerAnswers
<1>9. QED BY <1>1, <1>7, <1>8

\* A request is lost: nothing was done.
LEMMA LoseStep ==
  ASSUME IInv, NEW c \in Callers, NEW n, Lose(c, n)
  PROVE  IInv'
<1>0. Shared /\ CallInv(c)
  BY DEF IInv
<1>1. /\ <<c, n>> \in net /\ net' = net \ {<<c, n>>}
      /\ UNCHANGED <<call, gone, wrote, made, drafts, delivered, silent>>
  BY DEF Lose, serverVars
<1>2. /\ Mine(c)' = Mine(c) \ {<<c, n>>} /\ IsFiniteSet(Mine(c)')
      /\ Cardinality(Mine(c)') \in Nat /\ Cardinality(Mine(c)) \in Nat
      /\ Cardinality(Mine(c)') = Cardinality(Mine(c)) - 1
  BY <1>0, <1>1, MineRemove DEF CallInv, Counted
<1>3. delivered[c] \in Nat /\ drafts[c] \in Nat /\ silent[c] \in Nat
  BY <1>0 DEF Shared
<1>4. Shared'
  BY <1>0, <1>1 DEF Shared
<1>5. CallTyped(c)' /\ Truthful(c)'
  BY <1>0, <1>1 DEF CallInv, CallTyped, Requesting, KindIds, Truthful, AnswerTrue, SetTrue,
     ResultTrue, Did, Undone
<1>6. Fresh(c)'
  BY <1>0, <1>1, <1>2 DEF CallInv, Fresh, Undone
<1>7. Counted(c)'
  <2>1. /\ delivered[c] + Cardinality(Mine(c)') <= delivered[c] + Cardinality(Mine(c))
        /\ drafts[c] + Cardinality(Mine(c)') <= drafts[c] + Cardinality(Mine(c))
    BY <1>2, <1>3
  <2>2. QED BY <1>0, <1>1, <1>2, <1>3, <2>1 DEF CallInv, Counted
<1>8. \A d \in Callers \ {c} : CallInv(d)'
  BY <1>0, <1>1, FrameAll
<1>9. QED BY <1>4, <1>5, <1>6, <1>7, <1>8 DEF IInv, CallInv

LEMMA OtherStep ==
  ASSUME IInv, NEW o \in Objects, OtherDestroys(o)
  PROVE  IInv'
<1>1. gone' = gone \cup {o} /\ UNCHANGED <<call, net, wrote, made, drafts, delivered, silent>>
  BY DEF OtherDestroys
<1>2. Shared'
  BY <1>1 DEF IInv, Shared
<1>3. ASSUME NEW d \in Callers PROVE CallInv(d)'
  <2>1. CallInv(d) /\ Mine(d)' = Mine(d)
    BY <1>1 DEF IInv, Mine
  <2>2. QED BY <1>1, <2>1, Frame
<1>4. QED BY <1>2, <1>3 DEF IInv

-----------------------------------------------------------------------------
LEMMA InitIInv == Init => IInv
<1> SUFFICES ASSUME Init PROVE IInv
  OBVIOUS
<1>1. [pc |-> "idle"] \in Calls /\ MaxRetries \in Nat
  BY ConstantFacts DEF Calls
<1>2. Shared
  BY <1>1 DEF Init, Shared
<1>3. ASSUME NEW c \in Callers PROVE CallInv(c)
  <2>1. call[c].pc = "idle" /\ call[c] \in Calls /\ Mine(c) = {}
    BY <1>1 DEF Init, Mine
  <2>2. IsFiniteSet(Mine(c)) /\ Cardinality(Mine(c)) = 0
    BY <2>1, FS_EmptySet
  <2>3. silent[c] = 0 /\ delivered[c] = 0 /\ drafts[c] = 0 /\ Undone(c)
    BY DEF Init, Undone
  <2>4. CallTyped(c)
    BY <1>1, <2>1, <2>3 DEF CallTyped, Requesting
  <2>5. Truthful(c) /\ Fresh(c) /\ Counted(c)
    BY <2>1, <2>2, <2>3 DEF Truthful, Fresh, Counted
  <2>6. QED BY <2>4, <2>5 DEF CallInv
<1>4. QED BY <1>2, <1>3 DEF IInv

LEMMA StepIInv == IInv /\ [Next]_vars => IInv'
<1> SUFFICES ASSUME IInv, [Next]_vars PROVE IInv'
  OBVIOUS
<1>1. ASSUME NEW c \in Callers, NEW ids \in SUBSET Emails, SetFlags(c, ids) \/ Destroy(c, ids)
      PROVE  IInv'
  <2>1. /\ ids \in SUBSET Objects /\ {"update", "destroy"} \subseteq Kinds
        /\ KindIds("update", ids) /\ KindIds("destroy", ids)
    BY DEF Objects, Kinds, KindIds
  <2>2. QED BY <1>1, <2>1, BeginStep, NothingStep DEF SetFlags, Destroy
<1>2. ASSUME NEW c \in Callers, NEW e \in Emails, MoveTo(c, e)
      PROVE  IInv'
  <2>1. {e} \in SUBSET Objects /\ "update" \in Kinds /\ KindIds("update", {e})
    BY DEF Objects, Kinds, KindIds
  <2>2. QED BY <1>2, <2>1, BeginStep DEF MoveTo
<1>3. ASSUME NEW c \in Callers, CreateBox(c)
      PROVE  IInv'
  <2>1. {} \in SUBSET Objects /\ "create" \in Kinds /\ KindIds("create", {})
    BY DEF Kinds, KindIds
  <2>2. QED BY <1>3, <2>1, BeginStep DEF CreateBox
<1>4. ASSUME NEW c \in Callers, NEW b \in Boxes, RenameBox(c, b) \/ DestroyBox(c, b)
      PROVE  IInv'
  <2>1. /\ {b} \in SUBSET Objects /\ {"rename", "remove"} \subseteq Kinds
        /\ KindIds("rename", {b}) /\ KindIds("remove", {b})
    BY DEF Objects, Kinds, KindIds
  <2>2. QED BY <1>4, <2>1, BeginStep DEF RenameBox, DestroyBox
<1>5. ASSUME NEW c \in Callers, NEW k \in 0..MaxUploads, Compose(c, k)
      PROVE  IInv'
  BY <1>5, ComposeStep DEF Compose
<1>6. ASSUME NEW c \in Callers, ClientStep(c)
      PROVE  IInv'
  BY <1>6, UploadStep, SendStep, TransportStep, ReceiveStep DEF ClientStep
<1>7. ASSUME NEW m \in net,
             \/ TurnAway(m[1], m[2]) \/ ExecuteSet(m[1], m[2])
             \/ ExecuteCreate(m[1], m[2]) \/ ExecuteSend(m[1], m[2])
             \/ Lose(m[1], m[2])
      PROVE  IInv'
  <2>1. m[1] \in Callers
    BY DEF IInv, Shared
  <2>2. QED
    BY <1>7, <2>1, TurnAwayStep, ExecuteSetStep, ExecuteCreateStep, ExecuteSendStep, LoseStep
<1>8. CASE UNCHANGED vars
  <2>1. UNCHANGED <<call, net, gone, wrote, made, drafts, delivered, silent>>
    BY <1>8 DEF vars
  <2>2. Shared'
    BY <2>1 DEF IInv, Shared
  <2>3. ASSUME NEW d \in Callers PROVE CallInv(d)'
    <3>1. CallInv(d) /\ Mine(d)' = Mine(d)
      BY <2>1 DEF IInv, Mine
    <3>2. QED BY <2>1, <3>1, Frame
  <2>4. QED BY <2>2, <2>3 DEF IInv
<1>9. CASE Next
  BY <1>9, <1>1, <1>2, <1>3, <1>4, <1>5, <1>6, <1>7, OtherStep DEF Next
<1>10. QED BY <1>8, <1>9

LEMMA IInvAlways == Spec => []IInv
BY InitIInv, StepIInv, PTL DEF Spec

-----------------------------------------------------------------------------
\* The shape of the state; an attempt never passes max_retries (client.rs, call).
THEOREM RequestsTyped == Spec => []TypeOK
<1>1. IInv => TypeOK
  <2> SUFFICES ASSUME IInv PROVE TypeOK
    OBVIOUS
  <2>1. ASSUME NEW c \in Callers
        PROVE  /\ call[c] \in Calls /\ silent[c] \in 0..(MaxRetries + 1)
    BY ConstantFacts DEF IInv, CallInv, CallTyped
  <2>2. silent \in [Callers -> 0..(MaxRetries + 1)]
    BY <2>1, ServerTyped
  <2>3. QED BY <2>1, <2>2, CallFacts DEF TypeOK, IInv, Shared, Requesting
<1>2. QED BY <1>1, IInvAlways, PTL

\* A success is true, whatever was lost, repeated or overtaken (set_flags_batch,
\* move_to, destroy, mailbox.rs, send).
THEOREM SuccessIsTrue == Spec => []OkIsTrue
<1>1. ASSUME IInv, NEW c \in Callers, Told(c, Ok)
      PROVE  CASE call[c].kind \in {"update", "rename"}  -> \A o \in call[c].ids : c \in wrote[o]
               [] call[c].kind \in {"destroy", "remove"} -> call[c].ids \subseteq gone
               [] call[c].kind = "create" -> c \in made
               [] call[c].kind = "send"   -> delivered[c] > 0
  <2>1. /\ call[c] \in Calls /\ call[c].pc = "done"
        /\ ResultTrue(c, Ok)
    BY <1>1 DEF IInv, CallInv, CallTyped, Truthful, Told
  <2>2. call[c].kind \in Kinds /\ call[c].ids \subseteq Objects
    BY <2>1, CallFacts
  <2>3. /\ call[c].kind \in Patches \cup Removals => \A o \in call[c].ids : Did(c, o)
        /\ call[c].kind = "create" => c \in made
        /\ call[c].kind = "send" => delivered[c] > 0
    BY <2>1, ResultFacts DEF ResultTrue
  <2>4. CASE call[c].kind \in {"update", "rename"}
    BY <2>3, <2>4 DEF Did, Patches
  <2>5. CASE call[c].kind \in {"destroy", "remove"}
    <3>1. call[c].ids \subseteq gone
      BY <2>3, <2>5 DEF Did, Patches, Removals
    <3>2. QED BY <2>5, <3>1
  <2>6. CASE call[c].kind \in {"create", "send"}
    BY <2>3, <2>6
  <2>7. QED BY <2>2, <2>4, <2>5, <2>6 DEF Kinds
<1>2. IInv => OkIsTrue
  BY <1>1 DEF OkIsTrue
<1>3. QED BY <1>2, IInvAlways, PTL

\* An email a caller is told is not found is one it named, and is destroyed
\* (check_set_errors, set_flags_batch, destroy of email/flags.rs).
THEOREM AbsenceIsTrue == Spec => []NotFoundIsTrue
<1>1. ASSUME IInv, NEW c \in Callers, NEW e \in Emails, Told(c, NotFound(e))
      PROVE  e \in gone \cap call[c].ids
  <2>1. ResultTrue(c, NotFound(e))
    BY <1>1 DEF IInv, CallInv, Truthful, Told
  <2>2. QED BY <2>1, ResultFacts DEF ResultTrue
<1>2. IInv => NotFoundIsTrue
  BY <1>1 DEF NotFoundIsTrue
<1>3. QED BY <1>2, IInvAlways, PTL

\* What was refused, with every attempt answered, has not happened (send, create
\* and rename of mailboxes).
THEOREM RefusalIsTrue == Spec => []RefusedNotDone
<1>1. ASSUME IInv, NEW c \in Callers, Told(c, Failed("refused")), silent[c] = 0
      PROVE  /\ call[c].kind = "send" => delivered[c] = 0
             /\ call[c].kind = "create" => c \notin made
             /\ call[c].kind = "rename" => \A b \in call[c].ids : c \notin wrote[b]
  <2>1. ResultTrue(c, Failed("refused"))
    BY <1>1 DEF IInv, CallInv, Truthful, Told
  <2>2. QED BY <1>1, <2>1, ResultFacts DEF ResultTrue
<1>2. IInv => RefusedNotDone
  BY <1>1 DEF RefusedNotDone
<1>3. QED BY <1>2, IInvAlways, PTL

\* A message goes out, and leaves a draft, at most once more for each attempt that
\* ended without an answer: the requests on their way are counted too (call).
THEOREM SilenceBoundsRepeats == Spec => []OnlySilenceRepeats
<1>1. ASSUME IInv, NEW c \in Callers
      PROVE  {delivered[c], drafts[c]} \subseteq 0..(1 + silent[c])
  <2>1. /\ delivered[c] \in Nat /\ drafts[c] \in Nat /\ silent[c] \in Nat /\ Counted(c)
    BY <1>1 DEF IInv, Shared, CallInv
  <2>2. Cardinality(Mine(c)) \in Nat
    BY <2>1, FS_CardinalityType DEF Counted
  <2>3. QED BY <2>1, <2>2 DEF Counted
<1>2. IInv => OnlySilenceRepeats
  BY <1>1 DEF OnlySilenceRepeats
<1>3. QED BY <1>2, IInvAlways, PTL
=============================================================================
