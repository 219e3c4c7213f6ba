------------------------------ MODULE Backfill ------------------------------
(***************************************************************************)
(* backfill_batch (src/backfill.rs) walking the history of a mailbox page  *)
(* by page, beside the sync_emails calls of EmailSync and against a server *)
(* that changes between any two steps.  Positions are offsets into a list  *)
(* that moves; the progress row is the only memory of the walk.            *)
(*                                                                         *)
(* The front end (external) backfills the folders it has opened, one batch *)
(* at a time per folder, until the progress row says completed.            *)
(***************************************************************************)
EXTENDS EmailSync

CONSTANTS
  Limits,     \* the values of max_messages, NULL for no limit
  Overlap,    \* a batch may run while a sync_emails call does
  MaxResets   \* bound on reset_backfill_progress

ASSUME BackfillAssumption ==
  /\ Limits \subseteq Nat \cup {NULL} /\ Limits # {}
  /\ Overlap \in BOOLEAN /\ MaxResets \in Nat

VARIABLES
  job,        \* the batch in flight of each mailbox
  limit,      \* max_messages, from the configuration
  resets

jobVars == <<job, limit, resets>>
allVars == <<vars, jobVars>>

BackfillInit ==
  /\ Init
  /\ job = [b \in Mailboxes |-> Idle]
  /\ limit \in Limits
  /\ resets = 0

AtLimit(n) == limit # NULL /\ n >= limit

Finished(b) == progress[b] # NULL /\ progress[b].completed

GoBatch(b, s) == job' = [job EXCEPT ![b] = s]

-----------------------------------------------------------------------------
\* One backfill_batch call.

\* get_backfill_progress; a walk that has reached the limit is only marked.
ReadPosition(b) ==
  /\ job[b].pc = "idle" /\ b \in env.open \cap populated /\ ~Finished(b)
  /\ Overlap \/ \A t \in Tasks : task[t] = Idle
  /\ LET position == IF progress[b] = NULL THEN PageSize ELSE progress[b].position
         total    == IF progress[b] = NULL THEN 0 ELSE progress[b].total
     IN  GoBatch(b, IF AtLimit(position)
                    THEN [pc |-> "set", position |-> position, total |-> total,
                          completed |-> TRUE]
                    ELSE [pc |-> "fetch", position |-> position])
  /\ UNCHANGED <<vars, limit, resets>>

\* Mutant: the walk ends one page early.
FetchPageEager(b) ==
  /\ job[b].pc = "fetch"
  /\ LET got   == Get(Page(b, job[b].position, PageSize))
         upto  == job[b].position + Cardinality(DOMAIN got)
         total == Cardinality(InBox(b))
     IN  GoBatch(b, [pc |-> IF DOMAIN got = {} THEN "set" ELSE "save",
                     got |-> got, position |-> upto, total |-> total,
                     completed |-> upto + PageSize >= total \/ AtLimit(upto)])
  /\ UNCHANGED <<vars, limit, resets>>

\* query_and_get of the page at the position.
FetchPage(b) ==
  /\ job[b].pc = "fetch"
  /\ LET got   == Get(Page(b, job[b].position, PageSize))
         upto  == job[b].position + Cardinality(DOMAIN got)
         total == Cardinality(InBox(b))
     IN  GoBatch(b, [pc |-> IF DOMAIN got = {} THEN "set" ELSE "save",
                     got |-> got, position |-> upto, total |-> total,
                     completed |-> DOMAIN got = {} \/ upto >= total \/ AtLimit(upto)])
  /\ UNCHANGED <<vars, limit, resets>>

\* save_messages: never a deletion, never a prune.
SaveBatch(b) ==
  /\ job[b].pc = "save"
  /\ table' = Save(table, job[b].got)
  /\ GoBatch(b, [job[b] EXCEPT !.pc = "set"])
  /\ UNCHANGED <<serverVars, cursor, populated, progress, task, env, limit, resets>>

\* set_backfill_progress, the last await of the call.
SetProgress(b) ==
  /\ job[b].pc = "set"
  /\ progress' = [progress EXCEPT ![b] =
                    [position |-> job[b].position, total |-> job[b].total,
                     completed |-> job[b].completed]]
  /\ GoBatch(b, Idle)
  /\ UNCHANGED <<serverVars, table, cursor, populated, task, env, limit, resets>>

FailBatch(b) ==
  /\ job[b].pc = "fetch"
  /\ env.fails > 0
  /\ env' = [env EXCEPT !.fails = @ - 1]
  /\ GoBatch(b, Idle)
  /\ UNCHANGED <<serverVars, cacheVars, task, limit, resets>>

\* reset_backfill_progress, at any moment.
Reset(b) ==
  /\ resets < MaxResets /\ progress[b] # NULL
  /\ resets' = resets + 1
  /\ progress' = [progress EXCEPT ![b] = NULL]
  /\ UNCHANGED <<serverVars, table, cursor, populated, task, env, job, limit>>

\* sync_emails and the server go on; without Overlap a call waits for the batch.
SyncStep ==
  /\ Ordinary
  /\ task' = task \/ Overlap \/ \A b \in Mailboxes : job[b] = Idle
  /\ UNCHANGED jobVars

Restart ==
  /\ Crash
  /\ job' = [b \in Mailboxes |-> Idle]
  /\ UNCHANGED <<limit, resets>>

Batch(b) == FetchPage(b) \/ SaveBatch(b) \/ SetProgress(b)

BackfillNext ==
  \/ \E b \in Mailboxes : ReadPosition(b)
  \/ \E b \in Mailboxes : FetchPage(b)
  \/ \E b \in Mailboxes : SaveBatch(b)
  \/ \E b \in Mailboxes : SetProgress(b)
  \/ \E b \in Mailboxes : FailBatch(b)
  \/ \E b \in Mailboxes : Reset(b)
  \/ SyncStep
  \/ Restart

\* The application goes on calling sync_emails and, while the walk of an open
\* folder is not finished, backfill_batch; a call that is not cut short proceeds.
BackfillFairness ==
  /\ \A t \in Tasks :
       /\ \A b \in Mailboxes : SF_allVars(Start(t, b) /\ SyncStep)
       /\ WF_allVars(Work(t) /\ SyncStep)
  /\ \A b \in Mailboxes : SF_allVars(ReadPosition(b)) /\ WF_allVars(Batch(b))

BackfillSpec == BackfillInit /\ [][BackfillNext]_allVars
BackfillFairSpec == BackfillSpec /\ BackfillFairness

-----------------------------------------------------------------------------
\* The types of the tables and of the progress rows.
BackfillTypeOK ==
  /\ TypeOK
  /\ limit \in Limits /\ resets \in 0..MaxResets
  /\ \A b \in Mailboxes :
       progress[b] # NULL => progress[b].position <= PageSize + Cardinality(Emails)

\* The place of m in the folder, newest first, as Email/query counts it.
Place(b, m) == Cardinality({n \in InBox(b) : n > m})

\* Messages that were there before the walk began and are untouched since.
Old(b) == {m \in InBox(b) : LastChange(m) = 0}

\* What the progress row says is behind the walk is in the cache: no restart
\* between the save and the progress row, no head sync that starts over after
\* cannotCalculateChanges and no arrival that shifts the pages loses a part of
\* the history (docs/cache.md invariants 9, 10 and 11).  Only the removal of a
\* message can: the pages after it move up by one and one message is skipped.
HistoryKept ==
  Destroyed(0, Token) = {} =>
    \A b \in Mailboxes : progress[b] # NULL =>
      \A m \in Old(b) :
        Place(b, m) \in PageSize .. progress[b].position - 1 => m \in View(b)

\* As long as Email/changes answers, backfilled messages are kept as true as the
\* head page: the delta destroys and updates them (docs/cache.md "Prune-skip
\* rule").
BackfilledTrue == horizon = 0 => NothingStale

\* The walk ends, and then the folder shows every message the server has, up
\* to max_messages, if none was removed and Email/changes never gave up.
HistoryArrives ==
  \A b \in Mailboxes :
    <>[](b \in env.open =>
           /\ Finished(b)
           /\ (Destroyed(0, Token) = {} /\ horizon = 0 /\ Finished(b)) =>
                \A m \in InBox(b) : ~AtLimit(Place(b, m)) => m \in View(b))
=============================================================================
