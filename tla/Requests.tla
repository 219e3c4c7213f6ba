------------------------------ MODULE Requests ------------------------------
(***************************************************************************)
(* JmapClient::call (src/client.rs) with its retries, and the requests     *)
(* that change the server: set_flag, set_flags_batch, move_to and destroy  *)
(* (src/email/flags.rs), create, rename and destroy of mailboxes           *)
(* (src/mailbox.rs), upload_attachments and send (src/submit.rs).          *)
(*                                                                         *)
(* A request may be lost, its answer may be lost, and a server that is     *)
(* slow executes it after the client has given up and sent it again.       *)
(* Every caller makes one call.                                            *)
(***************************************************************************)
EXTENDS Naturals, FiniteSets

CONSTANTS
  NULL,
  Callers,
  Emails,
  Boxes,        \* the mailboxes of the account
  MaxRetries,   \* max_retries, 3 in the code
  MaxUploads    \* bound on the attachments of a message

ASSUME RequestsAssumption ==
  /\ {MaxRetries, MaxUploads} \subseteq Nat
  /\ NULL \notin Emails \cup Boxes /\ Emails \cap Boxes = {}

VARIABLES
  call,       \* the call of each caller
  net,        \* requests on their way: a set of <<caller, attempt>>
  gone,       \* the server: the emails and mailboxes that were destroyed
  wrote,      \* history: the callers whose patch was applied to each of them
  made,       \* the server: the callers whose mailbox is created
  drafts,     \* the server: the drafts each caller's requests have created and left
  delivered,  \* the server: how often the message of each caller went out
  silent      \* history: the attempts of each caller that ended without an answer

vars == <<call, net, gone, wrote, made, drafts, delivered, silent>>

serverVars == <<gone, wrote, made, drafts, delivered>>

Objects == Emails \cup Boxes

Kinds    == {"update", "destroy", "create", "rename", "remove", "send"}
Failures == {"transport", "http", "method", "refused"}

\* What a caller is told: an error may name an email that is not found.
Ok          == [is |-> "ok"]
Failed(why) == [is |-> why]
NotFound(e) == [is |-> "notFound", id |-> e]
Results     == {Ok} \cup {Failed(why) : why \in Failures} \cup {NotFound(e) : e \in Emails}

\* What a request may be answered with.
Answers ==
  [is : {"busy", "status", "broken", "error"}]
    \cup [is : {"set"}, bad : SUBSET [id : Objects, why : {"notFound", "forbidden"}]]
    \cup [is : {"made"}, created : BOOLEAN]
    \cup [is : {"sent"}, created : BOOLEAN, submitted : BOOLEAN]

ASSUME AnswerAssumption == NULL \notin Answers

Init ==
  /\ call = [c \in Callers |-> [pc |-> "idle"]]
  /\ net = {} /\ gone = {} /\ made = {}
  /\ wrote = [o \in Objects |-> {}]
  /\ drafts = [c \in Callers |-> 0]
  /\ delivered = [c \in Callers |-> 0] /\ silent = [c \in Callers |-> 0]

-----------------------------------------------------------------------------
\* The client.

\* One pass of the loop in call: the request is posted.
Post(c, s, n) ==
  /\ call' = [call EXCEPT ![c] = [pc |-> "wait", kind |-> s.kind, ids |-> s.ids,
                                  attempt |-> n, answer |-> NULL]]
  /\ net' = net \cup {<<c, n>>}

Return(c, r) == call' = [call EXCEPT ![c] = [pc |-> "done", kind |-> @.kind, ids |-> @.ids,
                                             result |-> r]]

Begin(c, kind, ids) ==
  /\ call[c].pc = "idle"
  /\ Post(c, [kind |-> kind, ids |-> ids], 0)
  /\ UNCHANGED <<serverVars, silent>>

\* An empty batch: nothing is sent.
Nothing(c, kind) ==
  /\ call[c].pc = "idle"
  /\ call' = [call EXCEPT ![c] = [pc |-> "done", kind |-> kind, ids |-> {}, result |-> Ok]]
  /\ UNCHANGED <<net, serverVars, silent>>

\* set_flag is set_flags_batch of one email.  The operations of a batch are collected
\* in a map keyed by email (flags.rs:44): ids has each once, with the patch that is
\* sent, the last one if the caller gave two.
SetFlags(c, ids) == IF ids = {} THEN Nothing(c, "update") ELSE Begin(c, "update", ids)

\* move_to, and trash: a patch of mailboxIds.
MoveTo(c, e) == Begin(c, "update", {e})

Destroy(c, ids) == IF ids = {} THEN Nothing(c, "destroy") ELSE Begin(c, "destroy", ids)

\* mailbox::create, rename and destroy.
CreateBox(c)     == Begin(c, "create", {})
RenameBox(c, b)  == Begin(c, "rename", {b})
DestroyBox(c, b) == Begin(c, "remove", {b})

\* The user sends a message with k attachments.
Compose(c, k) ==
  /\ call[c].pc = "idle"
  /\ call' = [call EXCEPT ![c] = [pc |-> "upload", kind |-> "send", ids |-> {}, left |-> k]]
  /\ UNCHANGED <<net, serverVars, silent>>

\* upload_attachments: one blob after the other, none of them tried again.
Upload(c) ==
  /\ call[c].pc = "upload" /\ call[c].left > 0
  /\ \/ call' = [call EXCEPT ![c].left = @ - 1]
     \/ Return(c, Failed("http"))
  /\ UNCHANGED <<net, serverVars, silent>>

\* send: Email/set and EmailSubmission/set in one request.
Send(c) ==
  /\ call[c].pc = "upload" /\ call[c].left = 0
  /\ Post(c, call[c], 0)
  /\ UNCHANGED <<serverVars, silent>>

\* Mutant: an answer that the server is busy does not count as an attempt.
RetryForever(c, why) ==
  IF why = "http" THEN Post(c, call[c], call[c].attempt)
  ELSE IF call[c].attempt < MaxRetries
  THEN Post(c, call[c], call[c].attempt + 1)
  ELSE Return(c, Failed(why)) /\ UNCHANGED net

\* Mutant: one attempt too many.
RetryOnceMore(c, why) ==
  IF call[c].attempt <= MaxRetries
  THEN Post(c, call[c], call[c].attempt + 1)
  ELSE Return(c, Failed(why)) /\ UNCHANGED net

\* The next pass of the loop, or the error of the last one.
Retry(c, why) ==
  IF call[c].attempt < MaxRetries
  THEN Post(c, call[c], call[c].attempt + 1)
  ELSE Return(c, Failed(why)) /\ UNCHANGED net

\* No answer: tried again after is_transient_transport (no connection, a timeout,
\* a request that broke off), any other error of the transport ends the call.
TransportError(c) ==
  /\ call[c].pc = "wait"
  /\ silent' = [silent EXCEPT ![c] = @ + 1]
  /\ Retry(c, "transport") \/ (Return(c, Failed("transport")) /\ UNCHANGED net)
  /\ UNCHANGED serverVars

\* Mutant: an answer that is no success, or cannot be read, is tried again.
BusyOrFailed(answer) == answer.is \in {"busy", "status", "broken"}

\* Status 429 or 503: the server has not looked at the request.
Busy(answer) == answer.is = "busy"

\* send: notCreated of the draft, then of the submission.
CheckSend(answer) ==
  IF answer.created /\ answer.submitted THEN Ok ELSE Failed("refused")

\* mailbox::create: notCreated, or no id.
CheckCreate(answer) == IF answer.created THEN Ok ELSE Failed("refused")

\* Mutant: every email that was not changed is taken for gone.
CheckSetAllGone(answer) ==
  IF answer.bad = {} THEN {Ok} ELSE {NotFound(b.id) : b \in answer.bad}

\* Mutant: an email that is not found counts as changed.
CheckSetLenient(answer) ==
  IF \A b \in answer.bad : b.why = "notFound" THEN {Ok} ELSE {Failed("refused")}

\* check_set_errors, set_flags_batch and destroy: one of the emails that were
\* not changed decides what the caller is told.
CheckSet(answer) ==
  IF answer.bad = {} THEN {Ok}
  ELSE {IF b.why = "notFound" THEN NotFound(b.id) ELSE Failed("refused") : b \in answer.bad}

\* mailbox::rename and destroy: notFound is an error like any other.
CheckBox(answer) == IF answer.bad = {} THEN Ok ELSE Failed("refused")

\* The answer arrives: retried, an error of HTTP, JSON or the method, or the
\* answers of the methods.
Receive(c) ==
  /\ call[c].pc = "wait" /\ call[c].answer # NULL
  /\ LET answer == call[c].answer
     IN  \/ Busy(answer) /\ Retry(c, "http")
         \/ /\ ~Busy(answer)
            /\ CASE answer.is \in {"status", "broken"} -> Return(c, Failed("http"))
                 [] answer.is = "error"  -> Return(c, Failed("method"))
                 [] answer.is = "set" /\ call[c].kind \in {"update", "destroy"} ->
                      \E r \in CheckSet(answer) : Return(c, r)
                 [] answer.is = "set" /\ call[c].kind \in {"rename", "remove"} ->
                      Return(c, CheckBox(answer))
                 [] answer.is = "made"   -> Return(c, CheckCreate(answer))
                 [] answer.is = "sent"   -> Return(c, CheckSend(answer))
            /\ UNCHANGED net
  /\ UNCHANGED <<serverVars, silent>>

-----------------------------------------------------------------------------
\* The server and the network (external).

\* The answer goes back, to a caller that still waits for it; a TransportError
\* may still take it.
Answer(c, n, a) ==
  /\ net' = net \ {<<c, n>>}
  /\ call' = IF call[c].pc = "wait" /\ call[c].attempt = n
             THEN [call EXCEPT ![c].answer = a] ELSE call
  /\ UNCHANGED silent

\* Before any method runs: too busy, not authorised, or down.
TurnAway(c, n) ==
  /\ <<c, n>> \in net
  /\ \E is \in {"busy", "status"} : Answer(c, n, [is |-> is])
  /\ UNCHANGED serverVars

\* Email/set or Mailbox/set, update or destroy: each object by itself; a method
\* may also fail after part of its work, and the body of an answer may break off.
ExecuteSet(c, n) ==
  /\ <<c, n>> \in net /\ call[c].kind \in {"update", "destroy", "rename", "remove"}
  /\ \E done \in SUBSET (call[c].ids \ gone) :
       /\ IF call[c].kind \in {"destroy", "remove"}
          THEN gone' = gone \cup done /\ UNCHANGED wrote
          ELSE /\ wrote' = [o \in Objects |-> IF o \in done THEN wrote[o] \cup {c} ELSE wrote[o]]
               /\ UNCHANGED gone
       /\ \/ \E is \in {"error", "broken"} : Answer(c, n, [is |-> is])
          \/ Answer(c, n, [is |-> "set",
                           bad |-> {[id |-> e, why |-> IF e \in gone THEN "notFound" ELSE "forbidden"] :
                                      e \in call[c].ids \ done}])
  /\ UNCHANGED <<made, drafts, delivered>>

\* Mailbox/set, create: refused when the name is taken, also by an earlier attempt.
ExecuteCreate(c, n) ==
  /\ <<c, n>> \in net /\ call[c].kind = "create"
  /\ \E new \in SUBSET ({c} \ made) :
       /\ made' = made \cup new
       /\ \/ Answer(c, n, [is |-> "made", created |-> c \in new])
          \/ \E is \in {"error", "broken"} : Answer(c, n, [is |-> is])
  /\ UNCHANGED <<gone, wrote, drafts, delivered>>

\* What the two methods of send may come to: the submission names the draft by its
\* creation id, the move to Sent hangs on the submission.
SendOutcomes ==
  {o \in [created : BOOLEAN, submitted : BOOLEAN, moved : BOOLEAN] :
     (o.submitted => o.created) /\ (o.moved => o.submitted)}

\* Created in Drafts, and not moved to Sent.
LeavesDraft(o) == o.created /\ ~o.moved

\* Email/set creates the draft, EmailSubmission/set sends it and on success moves
\* it to Sent.  A move that is refused is not reported to send; one that fails as a
\* method makes call report an error, though the message is out.
ExecuteSend(c, n) ==
  /\ <<c, n>> \in net /\ call[c].kind = "send"
  /\ \E o \in SendOutcomes :
       /\ drafts' = [drafts EXCEPT ![c] = IF LeavesDraft(o) THEN @ + 1 ELSE @]
       /\ delivered' = [delivered EXCEPT ![c] = IF o.submitted THEN @ + 1 ELSE @]
       /\ \/ Answer(c, n, [is |-> "sent", created |-> o.created, submitted |-> o.submitted])
          \/ Answer(c, n, [is |-> "broken"])
          \/ ~o.moved /\ Answer(c, n, [is |-> "error"])
  /\ UNCHANGED <<gone, wrote, made>>

Lose(c, n) ==
  /\ <<c, n>> \in net
  /\ net' = net \ {<<c, n>>}
  /\ UNCHANGED <<call, serverVars, silent>>

\* Another client destroys an email or a mailbox.
OtherDestroys(o) ==
  /\ o \notin gone
  /\ gone' = gone \cup {o}
  /\ UNCHANGED <<call, net, wrote, made, drafts, delivered, silent>>

ClientStep(c) ==
  Upload(c) \/ Send(c) \/ TransportError(c) \/ Receive(c)

Next ==
  \/ \E c \in Callers, ids \in SUBSET Emails : SetFlags(c, ids) \/ Destroy(c, ids)
  \/ \E c \in Callers, e \in Emails : MoveTo(c, e)
  \/ \E c \in Callers : CreateBox(c)
  \/ \E c \in Callers, b \in Boxes : RenameBox(c, b) \/ DestroyBox(c, b)
  \/ \E c \in Callers, k \in 0..MaxUploads : Compose(c, k)
  \/ \E c \in Callers : ClientStep(c)
  \/ \E m \in net : \/ TurnAway(m[1], m[2]) \/ ExecuteSet(m[1], m[2])
                    \/ ExecuteCreate(m[1], m[2]) \/ ExecuteSend(m[1], m[2])
                    \/ Lose(m[1], m[2])
  \/ \E o \in Objects : OtherDestroys(o)

Spec == Init /\ [][Next]_vars

\* The client's own steps: tokio runs them, and the HTTP client gives up on an
\* answer after 60 seconds.  Nothing is assumed of the server or the network.
FairSpec == Spec /\ \A c \in Callers : WF_vars(ClientStep(c))

-----------------------------------------------------------------------------
\* Properties.

Requesting(c) == call[c].pc \in {"wait", "done"}
Told(c, r)    == call[c].pc = "done" /\ call[c].result = r

\* The shape of the state; an attempt never passes max_retries (client.rs, call).
TypeOK ==
  /\ \A c \in Callers :
       /\ call[c].pc \in {"idle", "upload", "wait", "done"}
       /\ Requesting(c) => call[c].kind \in Kinds /\ call[c].ids \subseteq Objects
       /\ call[c].pc = "upload" => call[c].left \in 0..MaxUploads
       /\ call[c].pc = "wait" => /\ call[c].attempt \in 0..MaxRetries
                                 /\ call[c].answer \in Answers \cup {NULL}
       /\ call[c].pc = "done" => call[c].result \in Results
  /\ net \subseteq Callers \X (0..MaxRetries)
  /\ gone \subseteq Objects /\ made \subseteq Callers
  /\ wrote \in [Objects -> SUBSET Callers]
  /\ drafts \in [Callers -> Nat] /\ delivered \in [Callers -> Nat]
  /\ silent \in [Callers -> 0..(MaxRetries + 1)]

\* What Ok promises, whatever was lost, repeated or overtaken: the patch was
\* applied to every email of the batch, every email is destroyed, the mailbox is
\* there, renamed or gone, the message went out (email/flags.rs, mailbox.rs, send).
OkIsTrue ==
  \A c \in Callers : Told(c, Ok) =>
    CASE call[c].kind \in {"update", "rename"}  -> \A o \in call[c].ids : c \in wrote[o]
      [] call[c].kind \in {"destroy", "remove"} -> call[c].ids \subseteq gone
      [] call[c].kind = "create" -> c \in made
      [] call[c].kind = "send"   -> delivered[c] > 0

\* The caller evicts an email it is told is not found: that email is destroyed,
\* be it by an earlier attempt of the same call, and it is one the call named
\* (JmapError::NotFound of email/flags.rs).
NotFoundIsTrue ==
  \A c \in Callers, e \in Emails :
    Told(c, NotFound(e)) => e \in gone \cap call[c].ids

\* A message goes out once, and leaves one draft, and once more only for an attempt
\* that ended without an answer: an answer the client cannot read is not tried
\* again (client.rs, call).
OnlySilenceRepeats ==
  \A c \in Callers : {delivered[c], drafts[c]} \subseteq 0..(1 + silent[c])

\* What was refused, with every attempt answered, has not happened: the message has
\* not gone out, the mailbox is not created or renamed, and the user may try again.
\* After an attempt without an answer a refusal says nothing: it may be the second
\* execution that was refused because of the first (submit.rs, send; mailbox.rs).
RefusedNotDone ==
  \A c \in Callers :
    Told(c, Failed("refused")) /\ silent[c] = 0 =>
      /\ call[c].kind = "send" => delivered[c] = 0
      /\ call[c].kind = "create" => c \notin made
      /\ call[c].kind = "rename" => \A b \in call[c].ids : c \notin wrote[b]

\* Every call ends, also when the server never answers and the network loses
\* everything (the timeout and the bounded loop of call).
EveryCallEnds ==
  \A c \in Callers : call[c].pc \in {"upload", "wait"} ~> call[c].pc = "done"
=============================================================================
