----------------------------- MODULE EmailSync -----------------------------
(***************************************************************************)
(* sync_emails (src/sync.rs): head sync, delta sync and the cache tables   *)
(* they write, against a server that changes between any two steps.  Every *)
(* request to the server and every command to the cache is one step of the *)
(* task that awaits it; the cache executes a command as one transaction.   *)
(* Optimistic flags are left to FlagFlow: no row is pending here, so       *)
(* expire_pending_ops does nothing and the upsert takes the server's flags.*)
(* Every mailbox has its row in `folders` (FolderSync).                    *)
(***************************************************************************)
EXTENDS MailServer

CONSTANTS
  Tasks,            \* concurrent calls of sync_emails
  PageSize,         \* page_size
  MaxRounds,        \* iterations of the delta loop, 50 in the code
  MaxObjectsInGet,  \* the server's limit on the ids of one Email/get
  InitialMail,      \* what the server may hold at the start
  Scenarios         \* how the account starts and what may go wrong

\* fresh: the cache is new; open: the mailboxes the user opens; crashes, fails
\* and forgets: bounds on restarts, failed requests and tokens growing too old.
ASSUME SyncAssumption ==
  /\ PageSize \in Nat \ {0} /\ MaxRounds \in Nat \ {0} /\ MaxObjectsInGet \in Nat
  /\ InitialMail \subseteq [Emails -> Content \cup {NULL}]
  /\ Scenarios \subseteq [fresh : BOOLEAN, open : SUBSET Mailboxes,
                          crashes : Nat, fails : Nat, forgets : Nat]

VARIABLES
  table,      \* messages with their message_mailboxes rows
  cursor,     \* sync_state "Email"
  populated,  \* the mailboxes with a sync_state "Populated:{id}"
  progress,   \* backfill_progress: one row per mailbox, or NULL
  task,       \* the calls in flight
  env         \* the scenario, with what is left of its bounds

cacheVars == <<table, cursor, populated, progress>>
vars == <<mail, log, horizon, table, cursor, populated, progress, task, env>>

Idle == [pc |-> "idle"]

Progress == [position : Nat, total : Nat, completed : BOOLEAN]

Init ==
  /\ log = <<>> /\ horizon = 0
  /\ mail \in InitialMail
  /\ env \in Scenarios
  /\ table = IF env.fresh THEN [m \in Emails |-> NULL] ELSE mail
  /\ cursor = IF env.fresh THEN NULL ELSE 0
  /\ populated = IF env.fresh THEN {} ELSE Mailboxes
  /\ progress = [b \in Mailboxes |-> NULL]
  /\ task = [t \in Tasks |-> Idle]

-----------------------------------------------------------------------------
\* The cache's transactions, as functions of the table.

\* Mutant: the old junction rows of a saved message stay.
SaveMerging(tab, got) ==
  [m \in Emails |-> IF m \notin DOMAIN got THEN tab[m]
                    ELSE IF tab[m] = NULL THEN got[m]
                    ELSE [got[m] EXCEPT !.boxes = @ \cup tab[m].boxes]]

\* save_messages: upsert each message and replace its mailbox set.
Save(tab, got) == [m \in Emails |-> IF m \in DOMAIN got THEN got[m] ELSE tab[m]]

DeleteNothing(tab, ids) == tab    \* mutant: the destroyed list is ignored

Delete(tab, ids) == [m \in Emails |-> IF m \in ids THEN NULL ELSE tab[m]]

\* prune_mailbox: drop b from every message not in live, then every message
\* left without a mailbox.
LeaveBoxOnly(c, b) == [c EXCEPT !.boxes = @ \ {b}]    \* mutant: orphans stay

LeaveBox(c, b) ==
  IF c.boxes = {b} THEN NULL ELSE [c EXCEPT !.boxes = @ \ {b}]

Prune(tab, b, live) ==
  [m \in Emails |-> IF tab[m] # NULL /\ b \in tab[m].boxes /\ m \notin live
                    THEN LeaveBox(tab[m], b) ELSE tab[m]]

-----------------------------------------------------------------------------
\* One sync_emails call.
Go(t, s) == task' = [task EXCEPT ![t] = s]

Step(t, pc, s) == Go(t, [s EXCEPT !.pc = pc])

\* sync_emails: read the cursor.
Start(t, b) ==
  /\ task[t].pc = "idle" /\ b \in env.open
  /\ Go(t, IF cursor = NULL THEN [pc |-> "query", box |-> b]
           ELSE [pc |-> "populated", box |-> b, since |-> cursor])
  /\ UNCHANGED <<serverVars, cacheVars, env>>

\* sync_emails_delta: a mailbox never populated needs a head sync.
CheckPopulated(t) ==
  /\ task[t].pc = "populated"
  /\ LET s == task[t]
     IN  Go(t, IF s.box \in populated
               THEN [pc |-> "changes", box |-> s.box, since |-> s.since, round |-> 1]
               ELSE [pc |-> "query", box |-> s.box])
  /\ UNCHANGED <<serverVars, cacheVars, env>>

\* Mutant: cannotCalculateChanges is an error like any other.
ChangesNoFallback(t) ==
  /\ task[t].pc = "changes"
  /\ LET s == task[t]
     IN  IF s.since < horizon THEN Go(t, Idle)
         ELSE \E upto \in NextTokens(s.since) :
                Go(t, [pc |-> "get", box |-> s.box, round |-> s.round,
                       since |-> upto, more |-> upto < Token,
                       destroyed |-> Destroyed(s.since, upto),
                       ids |-> Touched(s.since, upto) \ Destroyed(s.since, upto)])
  /\ UNCHANGED <<serverVars, cacheVars, env>>

\* Email/changes: cannotCalculateChanges, or a window of the log.
Changes(t) ==
  /\ task[t].pc = "changes"
  /\ LET s == task[t]
     IN  IF s.since < horizon
         THEN Go(t, [pc |-> "query", box |-> s.box])
         ELSE \E upto \in NextTokens(s.since) :
                Go(t, [pc |-> "get", box |-> s.box, round |-> s.round,
                       since |-> upto, more |-> upto < Token,
                       destroyed |-> Destroyed(s.since, upto),
                       ids |-> Touched(s.since, upto) \ Destroyed(s.since, upto)])
  /\ UNCHANGED <<serverVars, cacheVars, env>>

\* get_summaries of the created and updated ids.
GetSummaries(t) ==
  /\ task[t].pc = "get"
  /\ Cardinality(task[t].ids) <= MaxObjectsInGet
  /\ LET s == task[t]
     IN  Go(t, [pc |-> "save", box |-> s.box, round |-> s.round, since |-> s.since,
                more |-> s.more, destroyed |-> s.destroyed, got |-> Get(s.ids)])
  /\ UNCHANGED <<serverVars, cacheVars, env>>

\* delta_email_batch, then the next iteration of the loop or the end of the call.
DeltaEmailBatch(t) ==
  /\ task[t].pc = "save"
  /\ LET s == task[t]
     IN  /\ table' = Save(Delete(table, s.destroyed), s.got)
         /\ cursor' = s.since
         /\ Go(t, IF s.more /\ s.round < MaxRounds
                  THEN [pc |-> "changes", box |-> s.box, since |-> s.since,
                        round |-> s.round + 1]
                  ELSE Idle)
  /\ UNCHANGED <<serverVars, populated, progress, env>>

\* sync_emails_head: query_and_get of the first page.
QueryAndGet(t) ==
  /\ task[t].pc = "query"
  /\ LET b == task[t].box
     IN  Go(t, [pc |-> "saveHead", box |-> b, since |-> Token,
                got |-> Get(Page(b, 0, PageSize))])
  /\ UNCHANGED <<serverVars, cacheVars, env>>

\* Mutant: the state is asked for after the page.
SaveHeadLateState(t) ==
  /\ task[t].pc = "saveHead"
  /\ LET s == task[t]
     IN  /\ table' = Save(table, s.got)
         /\ cursor' = Token
         /\ populated' = populated \cup {s.box}
  /\ Step(t, "progress", task[t])
  /\ UNCHANGED <<serverVars, progress, env>>

\* save_messages_and_set_state: messages, cursor and Populated in one go.
SaveHead(t) ==
  /\ task[t].pc = "saveHead"
  /\ LET s == task[t]
     IN  /\ table' = Save(table, s.got)
         /\ cursor' = s.since
         /\ populated' = populated \cup {s.box}
  /\ Step(t, "progress", task[t])
  /\ UNCHANGED <<serverVars, progress, env>>

\* Mutant: the prune does not look at the backfill.
ReadProgressIgnored(t) ==
  /\ task[t].pc = "progress"
  /\ Step(t, "prune", task[t])
  /\ UNCHANGED <<serverVars, cacheVars, env>>

\* get_backfill_progress: prune only when backfill has not gone beyond the page.
ReadProgress(t) ==
  /\ task[t].pc = "progress"
  /\ LET p == progress[task[t].box]
     IN  IF p # NULL /\ p.position > PageSize THEN Go(t, Idle) ELSE Step(t, "prune", task[t])
  /\ UNCHANGED <<serverVars, cacheVars, env>>

PruneHead(t) ==
  /\ task[t].pc = "prune"
  /\ table' = Prune(table, task[t].box, DOMAIN task[t].got)
  /\ Go(t, Idle)
  /\ UNCHANGED <<serverVars, cursor, populated, progress, env>>

\* A request fails and the call returns the error.
Fail(t) ==
  /\ task[t].pc \in {"changes", "get", "query"}
  /\ env.fails > 0
  /\ env' = [env EXCEPT !.fails = @ - 1]
  /\ Go(t, Idle)
  /\ UNCHANGED <<serverVars, cacheVars>>

\* The process stops and starts again: only the tables survive.
Crash ==
  /\ env.crashes > 0
  /\ env' = [env EXCEPT !.crashes = @ - 1]
  /\ task' = [t \in Tasks |-> Idle]
  /\ UNCHANGED <<serverVars, cacheVars>>

Forget ==
  /\ env.forgets > 0
  /\ env' = [env EXCEPT !.forgets = @ - 1]
  /\ ServerForget
  /\ UNCHANGED <<cacheVars, task>>

Server == ServerChange /\ UNCHANGED <<cacheVars, task, env>>

Work(t) ==
  \/ CheckPopulated(t) \/ Changes(t) \/ GetSummaries(t) \/ DeltaEmailBatch(t)
  \/ QueryAndGet(t) \/ SaveHead(t) \/ ReadProgress(t) \/ PruneHead(t)

\* Every step but a restart.
Ordinary ==
  \/ \E t \in Tasks, b \in env.open : Start(t, b)
  \/ \E t \in Tasks : CheckPopulated(t)
  \/ \E t \in Tasks : Changes(t)
  \/ \E t \in Tasks : GetSummaries(t)
  \/ \E t \in Tasks : DeltaEmailBatch(t)
  \/ \E t \in Tasks : QueryAndGet(t)
  \/ \E t \in Tasks : SaveHead(t)
  \/ \E t \in Tasks : ReadProgress(t)
  \/ \E t \in Tasks : PruneHead(t)
  \/ \E t \in Tasks : Fail(t)
  \/ Forget
  \/ Server

Next == Ordinary \/ Crash

\* The application goes on calling sync_emails for every open mailbox, and a
\* call that is neither cut short nor refused proceeds.
Fairness ==
  \A t \in Tasks :
    /\ \A b \in Mailboxes : SF_vars(Start(t, b))
    /\ WF_vars(Work(t))

Spec == Init /\ [][Next]_vars
FairSpec == Spec /\ Fairness

-----------------------------------------------------------------------------
\* The types of the cache tables and the tokens they hold.
TypeOK ==
  /\ ServerTypeOK
  /\ table \in [Emails -> Content \cup {NULL}]
  /\ cursor \in 0..Token \cup {NULL}
  /\ populated \subseteq Mailboxes
  /\ progress \in [Mailboxes -> Progress \cup {NULL}]

\* What load_messages returns for folder b.
View(b) == {m \in Emails : table[m] # NULL /\ b \in table[m].boxes}

\* A head sync between its two transactions has still to prune.
Pruning(b) == \E t \in Tasks : task[t].pc \in {"progress", "prune"} /\ task[t].box = b

\* Nothing a populated folder shows is wrong beyond the next delta: a message
\* the cursor says is up to date exists, is in that folder and is as the server
\* has it.  (docs/cache.md invariant 6; the delta never asks for it again.)
NothingStale ==
  \A b \in populated : ~Pruning(b) =>
    \A m \in View(b) : LastChange(m) <= cursor => table[m] = mail[m]

\* Nothing is missing from a populated folder beyond the next delta, when the
\* account fits the first page.
NothingMissing ==
  PageSize >= Cardinality(Emails) =>
    \A b \in populated : \A m \in InBox(b) :
      LastChange(m) <= cursor => m \in View(b)

\* Once the server has stopped changing, every folder the user has open comes
\* to show exactly the server's messages, and stays so.
Converges ==
  <>[](\A b \in env.open : /\ View(b) = InBox(b)
                           /\ \A m \in View(b) : table[m] = mail[m])
=============================================================================
