----------------------------- MODULE MailServer -----------------------------
(***************************************************************************)
(* The JMAP server as the code of src/ uses it (external): an account's    *)
(* messages, the log behind Email/changes, and the answers to Email/query, *)
(* Email/get and Email/changes.  A state token is a position of the log.   *)
(* One HTTP request is answered at one instant.                            *)
(***************************************************************************)
EXTENDS Naturals, FiniteSets, Sequences

CONSTANTS
  NULL,        \* no message, no value
  Emails,      \* email ids, numbered in the order of receivedAt
  Mailboxes,
  FlagChoices, \* the flags a message may carry
  MaxLog       \* bound on the changes the server makes

ASSUME ServerAssumption ==
  /\ Emails \subseteq Nat /\ IsFiniteSet(Emails) /\ MaxLog \in Nat
  /\ NULL \notin Nat

VARIABLES
  mail,        \* [Emails -> Content \cup {NULL}]
  log,         \* every change, oldest first
  horizon      \* tokens below this are too old for Email/changes

serverVars == <<mail, log, horizon>>

Content == [boxes : (SUBSET Mailboxes) \ {{}}, flags : FlagChoices]
Change  == [id : Emails, kind : {"created", "updated", "destroyed"}]

ASSUME ContentAssumption == NULL \notin Content

ServerTypeOK ==
  /\ mail \in [Emails -> Content \cup {NULL}]
  /\ log \in Seq(Change)
  /\ horizon \in 0..Len(log)

Alive == {m \in Emails : mail[m] # NULL}
Token == Len(log)

\* The token after which m has not changed.
LastChange(m) ==
  IF \E i \in 1..Token : log[i].id = m
  THEN CHOOSE i \in 1..Token :
         log[i].id = m /\ \A j \in i+1..Token : log[j].id # m
  ELSE 0

Record(m, kind, content) ==
  /\ Token < MaxLog
  /\ mail' = [mail EXCEPT ![m] = content]
  /\ log'  = Append(log, [id |-> m, kind |-> kind])
  /\ UNCHANGED horizon

\* A message arrives, or is imported with an older receivedAt.  Ids are never
\* used again.
ServerCreate(m, c) ==
  /\ mail[m] = NULL /\ \A i \in 1..Token : log[i].id # m
  /\ Record(m, "created", c)

ServerUpdate(m, c) == mail[m] # NULL /\ mail[m] # c /\ Record(m, "updated", c)

ServerDestroy(m) == mail[m] # NULL /\ Record(m, "destroyed", NULL)

\* The server drops the old end of its log.
ServerForget ==
  /\ horizon < Token
  /\ horizon' = Token
  /\ UNCHANGED <<mail, log>>

ServerChange ==
  \/ \E m \in Emails, c \in Content : ServerCreate(m, c) \/ ServerUpdate(m, c)
  \/ \E m \in Emails : ServerDestroy(m)

-----------------------------------------------------------------------------
\* Email/query on mailbox b, sorted by receivedAt descending: the page of k
\* messages from position p.
InBox(b) == {m \in Alive : b \in mail[m].boxes}

Page(b, p, k) ==
  {m \in InBox(b) : Cardinality({n \in InBox(b) : n > m}) \in p .. p + k - 1}

\* Email/get: ids that no longer exist are left out.
Get(ids) == [m \in ids \cap Alive |-> mail[m]]

\* Email/changes from a token the log still reaches to a later token, which is
\* the current one unless the answer has hasMoreChanges.
Touched(since, upto)   == {log[i].id : i \in since+1..upto}
Destroyed(since, upto) == {log[i].id : i \in {j \in since+1..upto : log[j].kind = "destroyed"}}

NextTokens(since) == IF since = Token THEN {Token} ELSE since+1..Token
=============================================================================
