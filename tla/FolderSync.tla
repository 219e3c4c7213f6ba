----------------------------- MODULE FolderSync -----------------------------
(***************************************************************************)
(* sync_mailboxes (src/sync.rs) keeping the folder table in step with the  *)
(* server's tree of mailboxes, beside the deltas of sync_emails that write *)
(* messages into those folders.  Each request to the server and each       *)
(* command to the cache is a step.  Of sync_emails only what meets the     *)
(* folders is kept: what a delta brings and the folder it is stored under  *)
(* (EmailSync has the rest); its two requests are one step here.           *)
(***************************************************************************)
EXTENDS FolderTables

CONSTANTS
  Reuse,      \* a name may be given again after it was given up
  Single,     \* a message is in one mailbox at a time
  MaxLog,     \* bound on the changes of mailboxes
  MaxMoves,   \* bound on the changes of messages
  MaxFaults,  \* bound on logs forgotten, failed requests and restarts
  InitialBoxes, InitialMail

Box == [name : Names, parent : Boxes \cup {NULL}]

ASSUME FolderSyncAssumption ==
  /\ Names \subseteq Nat /\ Reuse \in BOOLEAN /\ Single \in BOOLEAN
  /\ {MaxLog, MaxMoves, MaxFaults} \subseteq Nat

VARIABLES
  boxes,      \* the server's mailboxes: [name, parent] or NULL
  boxLog,     \* the changes behind Mailbox/changes
  horizon,    \* Mailbox state tokens below this are too old
  mail,       \* the mailboxes of each message on the server, {} if destroyed
  mailSeq,    \* when each message last changed
  folders, table,
  boxState,   \* sync_state "Mailbox"
  mailState,  \* sync_state "Email"
  task,       \* the sync_mailboxes call in flight
  mtask,      \* the sync_emails call in flight
  spent       \* how much of the bounds, and of the names, is used up

serverVars == <<boxes, boxLog, horizon, mail, mailSeq>>
cacheVars  == <<folders, table, boxState, mailState>>
vars == <<serverVars, cacheVars, task, mtask, spent>>

Idle == [pc |-> "idle"]

Alive == {i \in Boxes : boxes[i] # NULL}
Token == Len(boxLog)
MailToken == CHOOSE n \in {mailSeq[m] : m \in Mails} : \A m \in Mails : mailSeq[m] <= n

Least(S) == CHOOSE i \in S : \A j \in S : i <= j

\* build_path over a list of mailboxes; a parent that is not in the list, or
\* is beyond the depth guard, ends the path.
Path(bs, i) ==
  LET up[d \in 0..21] == [j \in Boxes |->
        IF d = 0 \/ bs[j].parent = NULL \/ bs[bs[j].parent] = NULL THEN <<bs[j].name>>
        ELSE Append(up[d - 1][bs[j].parent], bs[j].name)]
  IN  up[21][i]

\* The server starts with a tree the folder table can hold.
ASSUME InitialAssumption ==
  /\ NULL \notin Box
  /\ InitialBoxes \subseteq [Boxes -> Box \cup {NULL}]
  /\ InitialMail \subseteq [Mails -> SUBSET Boxes]
  /\ \A bs \in InitialBoxes : \A i, j \in {k \in Boxes : bs[k] # NULL} :
       i # j => Path(bs, i) # Path(bs, j)

\* The ids above i: its parent and the parents of those, as long as they exist.
ParentIn(S, i) == boxes[i] # NULL => boxes[i].parent \in S \cup {NULL}
Above(i) ==
  {j \in Boxes : \A S \in SUBSET Boxes :
     ParentIn(S, i) /\ (\A k \in S : ParentIn(S, k)) => j \in S}

Stamp(i) ==
  IF \E k \in 1..Token : boxLog[k].id = i
  THEN CHOOSE k \in 1..Token : boxLog[k].id = i /\ \A l \in k+1..Token : boxLog[l].id # i
  ELSE 0

\* The mailbox whose folder a message is stored under when b is synced: b, or
\* the first key of mailboxIds.
StoredUnder(bs, b) == [context |-> IF b \in bs THEN b ELSE Least(bs), boxes |-> bs]

Init ==
  /\ boxes \in InitialBoxes /\ boxLog = <<>> /\ horizon = 0
  /\ mail \in {f \in InitialMail : \A m \in Mails : f[m] \subseteq Alive}
  /\ mailSeq = [m \in Mails |-> 0]
  /\ folders = [i \in Boxes |-> IF i \in Alive THEN Path(boxes, i) ELSE NULL]
  /\ table \in [Mails -> MailRow \cup {NULL}]
  /\ \A m \in Mails : IF mail[m] = {} THEN table[m] = NULL
                      ELSE \E b \in mail[m] : table[m] = StoredUnder(mail[m], b)
  /\ boxState = 0 /\ mailState = 0
  /\ task = Idle /\ mtask = Idle
  /\ spent = [moves |-> 0, faults |-> 0, names |-> Cardinality(Alive)]

Spend(what, max) == spent[what] < max /\ spent' = [spent EXCEPT ![what] = @ + 1]

-----------------------------------------------------------------------------
\* The server (external).
NewNames == IF Reuse THEN Names ELSE {spent.names + 1} \cap Names

Free(i, parent, n) ==
  \A j \in Alive \ {i} : ~(boxes[j].parent = parent /\ boxes[j].name = n)

Log(i, kind) ==
  /\ Token < MaxLog
  /\ boxLog' = Append(boxLog, [id |-> i, kind |-> kind])
  /\ UNCHANGED <<horizon, cacheVars, task, mtask>>

CreateBox(i, parent, n) ==
  /\ boxes[i] = NULL /\ Stamp(i) = 0 /\ Free(i, parent, n)
  /\ boxes' = [boxes EXCEPT ![i] = [name |-> n, parent |-> parent]]
  /\ spent' = [spent EXCEPT !.names = @ + 1]
  /\ Log(i, "created") /\ UNCHANGED <<mail, mailSeq>>

\* Another name or another parent, never one below itself.
RenameBox(i, parent, n) ==
  /\ i \in Alive /\ boxes[i].name # n /\ Free(i, parent, n)
  /\ parent # i /\ (parent # NULL => i \notin Above(parent))
  /\ boxes' = [boxes EXCEPT ![i] = [name |-> n, parent |-> parent]]
  /\ spent' = [spent EXCEPT !.names = @ + 1]
  /\ Log(i, "updated") /\ UNCHANGED <<mail, mailSeq>>

\* A mailbox without children goes, and its messages leave it.
DestroyBox(i) ==
  /\ i \in Alive /\ \A j \in Alive : boxes[j].parent # i
  /\ boxes' = [boxes EXCEPT ![i] = NULL]
  /\ mail' = [m \in Mails |-> mail[m] \ {i}]
  /\ mailSeq' = [m \in Mails |-> IF i \in mail[m] THEN MailToken + 1 ELSE mailSeq[m]]
  /\ Log(i, "destroyed") /\ UNCHANGED spent

\* A message is filed elsewhere or, with bs = {}, destroyed.
MoveMail(m, bs) ==
  /\ mail[m] # {} /\ bs # mail[m]
  /\ Single => Cardinality(bs) <= 1
  /\ mail' = [mail EXCEPT ![m] = bs]
  /\ mailSeq' = [mailSeq EXCEPT ![m] = MailToken + 1]
  /\ Spend("moves", MaxMoves)
  /\ UNCHANGED <<boxes, boxLog, horizon, cacheVars, task, mtask>>

ForgetLog ==
  /\ horizon < Token /\ horizon' = Token
  /\ Spend("faults", MaxFaults)
  /\ UNCHANGED <<boxes, boxLog, mail, mailSeq, cacheVars, task, mtask>>

-----------------------------------------------------------------------------
\* sync_mailboxes.  The call that has read the state, and what it then holds.
Changed(since, upto) == {boxLog[k].id : k \in since+1..upto}
Gone(since, upto) ==
  {boxLog[k].id : k \in {l \in since+1..upto : boxLog[l].kind = "destroyed"}}

SyncStart ==
  /\ task = Idle
  /\ task' = [pc |-> "changes", since |-> boxState]
  /\ UNCHANGED <<serverVars, cacheVars, mtask, spent>>

\* Mutant: cannotCalculateChanges is an error like any other.
MailboxChangesNoFallback ==
  /\ task.pc = "changes"
  /\ task' \in
       IF task.since < horizon THEN {Idle}
       ELSE IF task.since = Token THEN {[pc |-> "none", state |-> Token]}
       ELSE { LET gone == Gone(task.since, upto)
                  ids  == Changed(task.since, upto) \ gone
              IN  [pc |-> IF ids = {} THEN "delta" ELSE "get", state |-> upto,
                   gone |-> gone, ids |-> ids, paths |-> <<>>]
              : upto \in task.since+1..Token }
  /\ UNCHANGED <<serverVars, cacheVars, mtask, spent>>

\* Mailbox/changes: cannotCalculateChanges, nothing new, or a delta, which the
\* server may cut short (hasMoreChanges is left to the next call).
MailboxChanges ==
  /\ task.pc = "changes"
  /\ task' \in
       IF task.since < horizon THEN {[pc |-> "full"]}
       ELSE IF task.since = Token THEN {[pc |-> "none", state |-> Token]}
       ELSE { LET gone == Gone(task.since, upto)
                  ids  == Changed(task.since, upto) \ gone
              IN  [pc |-> IF ids = {} THEN "delta" ELSE "get", state |-> upto,
                   gone |-> gone, ids |-> ids, paths |-> <<>>]
              : upto \in task.since+1..Token }
  /\ UNCHANGED <<serverVars, cacheVars, mtask, spent>>

SetState ==
  /\ task.pc = "none"
  /\ boxState' = task.state
  /\ task' = Idle
  /\ UNCHANGED <<serverVars, folders, table, mailState, mtask, spent>>

\* Mutant: only the changed mailboxes are fetched, so a path ends at the first
\* parent that is not one of them.
FetchByIdsAlone ==
  /\ task.pc = "get"
  /\ task' = [task EXCEPT !.pc = "delta",
       !.paths = [i \in task.ids \cap Alive |->
                    Path([j \in Boxes |-> IF j \in task.ids THEN boxes[j] ELSE NULL], i)]]
  /\ UNCHANGED <<serverVars, cacheVars, mtask, spent>>

\* fetch_by_ids: the whole list at this moment, of which the changed ids are kept.
FetchByIds ==
  /\ task.pc = "get"
  /\ task' = [task EXCEPT !.pc = "delta",
                          !.paths = [i \in task.ids \cap Alive |-> Path(boxes, i)]]
  /\ UNCHANGED <<serverVars, cacheVars, mtask, spent>>

\* Mailbox/get of everything.
MailboxGet ==
  /\ task.pc = "full"
  /\ task' = [pc |-> "save", state |-> Token, paths |-> [i \in Alive |-> Path(boxes, i)]]
  /\ UNCHANGED <<serverVars, cacheVars, mtask, spent>>

\* The transaction commits with the new state, or the call returns the error.
Commit(result) ==
  /\ task' = Idle
  /\ IF result = Refused THEN UNCHANGED <<folders, table, boxState>>
     ELSE /\ folders' = result.folders /\ table' = result.table
          /\ boxState' = task.state
  /\ UNCHANGED <<serverVars, mailState, mtask, spent>>

CommitDelta ==
  /\ task.pc = "delta"
  /\ \E order \in SetToSeqs(DOMAIN task.paths) :
       Commit(DeltaFolders(folders, table, task.paths, order, task.gone))

CommitFull ==
  /\ task.pc = "save"
  /\ \E order \in SetToSeqs(DOMAIN task.paths) :
       Commit(SaveFolders(folders, table, task.paths, order))

Fail ==
  /\ task.pc \in {"changes", "get", "full"}
  /\ task' = Idle
  /\ Spend("faults", MaxFaults)
  /\ UNCHANGED <<serverVars, cacheVars, mtask>>

-----------------------------------------------------------------------------
\* sync_emails of a folder the front end shows: Email/changes and Email/get.
EmailChanges(b) ==
  /\ mtask = Idle /\ folders[b] # NULL
  /\ LET changed == {m \in Mails : mailSeq[m] > mailState}
         live    == {m \in changed : mail[m] # {}}
     IN  mtask' = [pc |-> "save", state |-> MailToken, destroyed |-> changed \ live,
                   got |-> [m \in live |-> StoredUnder(mail[m], b)]]
  /\ UNCHANGED <<serverVars, cacheVars, task, spent>>

\* delta_email_batch, or the error of a save into a folder that is not stored.
EmailSave ==
  /\ mtask.pc = "save"
  /\ mtask' = Idle
  /\ LET result == EmailBatch(folders, table, mtask.destroyed, mtask.got)
     IN  IF result = Refused THEN UNCHANGED <<table, mailState>>
         ELSE table' = result /\ mailState' = mtask.state
  /\ UNCHANGED <<serverVars, folders, boxState, task, spent>>

Crash ==
  /\ Spend("faults", MaxFaults)
  /\ task' = Idle /\ mtask' = Idle
  /\ UNCHANGED <<serverVars, cacheVars>>

Next ==
  \/ \E i \in Boxes, p \in Alive \cup {NULL}, n \in NewNames : CreateBox(i, p, n)
  \/ \E i \in Boxes, p \in Alive \cup {NULL}, n \in NewNames : RenameBox(i, p, n)
  \/ \E i \in Boxes : DestroyBox(i)
  \/ \E m \in Mails, bs \in SUBSET Alive : MoveMail(m, bs)
  \/ ForgetLog
  \/ SyncStart
  \/ MailboxChanges
  \/ SetState
  \/ FetchByIds
  \/ MailboxGet
  \/ CommitDelta
  \/ CommitFull
  \/ Fail
  \/ \E b \in Boxes : EmailChanges(b)
  \/ EmailSave
  \/ Crash

SyncWork == SyncStart \/ MailboxChanges \/ SetState \/ FetchByIds \/ MailboxGet
            \/ CommitDelta \/ CommitFull

\* The application goes on calling sync_mailboxes and sync_emails, and calls
\* that are not cut short proceed.  Which folder it syncs is left open.
Fairness ==
  /\ WF_vars(SyncWork)
  /\ WF_vars((\E b \in Boxes : EmailChanges(b)) \/ EmailSave)

Spec == Init /\ [][Next]_vars
FairSpec == Spec /\ Fairness

-----------------------------------------------------------------------------
\* The types of the tables and of the stored states, and the schema's keys: a
\* path belongs to one folder, a message is stored under a folder there is.
TypeOK ==
  /\ [folders |-> folders, table |-> table] \in Tables
  /\ \A i, j \in Stored(folders) : i # j => folders[i] # folders[j]
  /\ \A m \in Mails : table[m] # NULL => table[m].context \in Stored(folders)
  /\ boxState \in 0..Token /\ mailState \in 0..MailToken

\* The folders of the cache are the server's as of the stored state: a mailbox
\* unchanged since then is there or is not there as on the server, and its path
\* is right unless a mailbox above it was renamed after its own last change
\* (Mailbox/changes does not report it then, and nothing else refreshes it).
FoldersAsOf ==
  \A i \in Boxes : Stamp(i) <= boxState =>
    /\ (folders[i] # NULL) <=> (i \in Alive)
    /\ (i \in Alive /\ \A j \in Above(i) : Stamp(j) <= Stamp(i))
         => folders[i] = Path(boxes, i)

\* Removing a folder takes its own messages and leaves the others: as long as
\* the folder deltas never started over, a message unchanged since the stored
\* Email state is in every folder the server has it in and in no other
\* (docs/cache.md invariants 3 and 7).
MailKept ==
  horizon = 0 =>
    \A m \in Mails : mailSeq[m] <= mailState =>
      IF mail[m] = {} THEN table[m] = NULL
      ELSE table[m] # NULL /\ table[m].boxes = mail[m]

\* Once the server stops changing, the cache comes to hold exactly its
\* mailboxes ("Stale folders (no longer on the server) are deleted",
\* docs/cache.md:28) and its messages in them.
FoldersConverge ==
  <>[](/\ Stored(folders) = Alive
       /\ \A m \in Mails : mail[m] # {} => table[m] # NULL /\ table[m].boxes = mail[m])
=============================================================================
