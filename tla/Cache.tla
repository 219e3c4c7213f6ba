------------------------------- MODULE Cache -------------------------------
(***************************************************************************)
(* The store's thread (src/store/handle.rs, dispatch.rs): open runs the    *)
(* migrations, then the thread takes one command after the other from an   *)
(* unbounded channel.  Beside it run the tasks that send the commands:     *)
(* views of a message, which load its body from the cache or fetch it      *)
(* (src/email/body.rs) and save it, and one task that syncs.  A task       *)
(* awaits its reply, may be dropped while it does, and all of it may crash *)
(* and start again.                                                        *)
(***************************************************************************)
EXTENDS CacheTables, Sequences

CONSTANTS
  Views,       \* tasks that show a message
  MaxQueue,    \* bound on the commands in the channel
  MaxStarts    \* bound on the restarts

ASSUME StoreAssumption == {MaxQueue, MaxStarts} \subseteq Nat /\ NULL \notin Views

\* The statements of the migrations have names of their own.
ASSUME NameAssumption ==
  \A m \in 1..Len(Migrations) : \A s \in 1..Len(Migrations[m].run) :
    Migrations[m].run[s] \notin Emails \cup {NULL}

VARIABLES
  db,        \* the database file
  at,        \* where open is: <<migration, statement>>, or <<>> once it is done
  queue,     \* the channel: commands, with the task that awaits the reply
  half,      \* the message remove_message has deleted the attachments of, or NULL
  task,      \* the views, and the task that syncs
  starts,    \* restarts so far
  torn       \* history: statements and messages at which a crash cut a batch short

vars == <<db, at, queue, half, task, starts, torn>>

SYNC  == "sync"
Tasks == Views \cup {SYNC}
Open  == at = <<>>
Idle  == [pc |-> "idle"]

\* Rows written by versions before the index.
OldRow == [subject : Subjects, body : {NULL, [by |-> "old", parts |-> Parts]},
           pending : {"none", "untimed"}]

\* The files to start from: one without messages, and those of old versions.
Files ==
  {[objs |-> {}, rows |-> r, filed |-> {}, fts |-> {},
    atts |-> [e \in Emails |-> IF r[e] # NULL /\ r[e].body # NULL THEN Parts ELSE {}]] :
     r \in [Emails -> OldRow \cup {NULL}]}

Init ==
  /\ db \in Files
  /\ at = <<1, 1>> /\ queue = <<>> /\ half = NULL /\ starts = 0 /\ torn = {}
  /\ task = [t \in Tasks |-> Idle]

-----------------------------------------------------------------------------
\* CacheHandle::open.

After(m) == IF m < Len(Migrations) THEN <<m + 1, 1>> ELSE <<>>

\* One statement, committed by itself; or a migration that is passed over or ends
\* with an error, which is logged only.
Migrate ==
  /\ ~Open
  /\ LET m == at[1]  s == at[2]
         migration == Migrations[m]
     IN  IF (s = 1 /\ Done(db, migration)) \/ Fails(db, migration.run[s])
         THEN at' = After(m) /\ UNCHANGED db
         ELSE /\ db' = Execute(db, migration.run[s])
              /\ at' = IF s < Len(migration.run) THEN <<m, s + 1>> ELSE After(m)
  /\ UNCHANGED <<queue, half, task, starts, torn>>

-----------------------------------------------------------------------------
\* The tasks.

Send(t, command, state) ==
  /\ Open /\ Len(queue) < MaxQueue
  /\ queue' = Append(queue, [command EXCEPT !.from = t])
  /\ task' = [task EXCEPT ![t] = state]
  /\ UNCHANGED <<db, at, half, starts, torn>>

Command(op, e, arg) == [op |-> op, id |-> e, arg |-> arg, from |-> NULL]

\* A message is opened: load_body.
View(v, e) ==
  /\ task[v].pc = "idle"
  /\ Send(v, Command("load", e, {}), [pc |-> "loading", id |-> e])

\* extract_attachments: a download that fails is skipped.
Downloaded == SUBSET Parts

\* get_body: an error, or a body, which is saved.
Fetch(v) ==
  /\ task[v].pc = "fetching"
  /\ \/ /\ task' = [task EXCEPT ![v] = Idle]
        /\ UNCHANGED <<db, at, queue, half, starts, torn>>
     \/ \E parts \in Downloaded :
          Send(v, Command("save", task[v].id, parts), [pc |-> "saving", id |-> task[v].id])

\* The syncs' and the user's commands on messages, one at a time.
Change(command) ==
  /\ task[SYNC].pc = "idle"
  /\ Send(SYNC, command, [pc |-> "waiting"])

\* A task is dropped: its command stays in the channel, its reply has no receiver.
Cancel(v) ==
  /\ task[v].pc # "idle"
  /\ task' = [task EXCEPT ![v] = Idle]
  /\ queue' = [i \in 1..Len(queue) |-> IF queue[i].from = v THEN [queue[i] EXCEPT !.from = NULL]
                                       ELSE queue[i]]
  /\ UNCHANGED <<db, at, half, starts, torn>>

-----------------------------------------------------------------------------
\* The thread: run_loop.

\* What the reply makes of the task that waits for it.
Reply(c, state) ==
  /\ queue' = Tail(queue)
  /\ task' = IF c.from = NULL THEN task ELSE [task EXCEPT ![c.from] = state]

Load(c) ==
  /\ c.op = "load"
  /\ LET row == db.rows[c.id]
         hit == row # NULL /\ row.body # NULL
     IN  Reply(c, IF hit THEN Idle ELSE [pc |-> "fetching", id |-> c.id])
  /\ UNCHANGED <<db, half, torn>>

Save(c) ==
  /\ c.op = "save"
  /\ db' = IF BodyRefused(db, c.id, c.arg) THEN db ELSE SaveBody(db, c.id, c.arg)
  /\ torn' = IF db' = db THEN torn ELSE torn \ {c.id}
  /\ Reply(c, Idle)
  /\ UNCHANGED half

Write(c) ==
  /\ \/ c.op = "upsert" /\ db' = Upsert(db, c.id, c.arg)
     \/ c.op = "delta"  /\ db' = Remove(db, c.id)
     \/ c.op = "prune"  /\ db' = Prune(db, c.arg)
     \/ c.op = "flag"   /\ db' = MarkPending(db, c.id)
  /\ torn' = torn \ (Emails \ Stored(db'))
  /\ Reply(c, Idle)
  /\ UNCHANGED half

\* do_remove_message: two statements, each committed by itself.
RemoveAttachments(c) ==
  /\ c.op = "remove" /\ half = NULL
  /\ db' = [db EXCEPT !.atts[c.id] = {}]
  /\ half' = c.id
  /\ UNCHANGED <<queue, task, torn>>

RemoveRow(c) ==
  /\ c.op = "remove" /\ half # NULL
  /\ db' = Remove(db, c.id)
  /\ half' = NULL
  /\ torn' = torn \ {c.id}
  /\ Reply(c, Idle)

Dispatch(c) ==
  /\ Load(c) \/ Save(c) \/ Write(c) \/ RemoveAttachments(c) \/ RemoveRow(c)
  /\ UNCHANGED <<at, starts>>

\* Mutant: the loop ends with the first reply that nobody receives.
ServeReceivers == Open /\ queue # <<>> /\ Head(queue).from # NULL /\ Dispatch(Head(queue))

\* The next command; a reply that nobody receives is no error.
Serve == Open /\ queue # <<>> /\ Dispatch(Head(queue))

\* The process ends: the thread with it, wherever it is.
Restart ==
  /\ starts < MaxStarts
  /\ starts' = starts + 1
  /\ at' = <<1, 1>> /\ queue' = <<>> /\ half' = NULL
  /\ task' = [t \in Tasks |-> Idle]
  /\ torn' = torn \cup (IF half # NULL THEN {half} ELSE {})
                  \cup (IF ~Open /\ at[2] > 1 THEN {Migrations[at[1]].run[at[2]]} ELSE {})
  /\ UNCHANGED db

Commands ==
  {Command("upsert", e, s) : e \in Emails, s \in Subjects}
    \cup {Command(op, e, {}) : op \in {"delta", "remove", "flag"}, e \in Emails}
    \cup {Command("prune", NULL, leave) : leave \in SUBSET Emails}

Next ==
  \/ Migrate \/ Serve \/ Restart
  \/ \E v \in Views : Fetch(v) \/ Cancel(v) \/ \E e \in Emails : View(v, e)
  \/ \E c \in Commands : Change(c)

Spec == Init /\ [][Next]_vars

\* The thread runs until it has no command; nothing is assumed of the tasks.
FairSpec == Spec /\ WF_vars(Migrate) /\ WF_vars(Serve)

-----------------------------------------------------------------------------
\* Properties.

\* The shape of the state, and the foreign keys: attachments and mailboxes belong
\* to rows (schema.rs).
TypeOK ==
  /\ db.rows \in [Emails -> Row \cup {NULL}]
  /\ \A e \in Emails : db.atts[e] \subseteq Parts /\ (db.atts[e] # {} => e \in Stored(db))
  /\ db.filed \subseteq Stored(db)
  /\ Open \/ at[2] \in 1..Len(Migrations[at[1]].run)
  /\ Len(queue) <= MaxQueue /\ half \in Emails \cup {NULL}
  /\ ~Open => queue = <<>>

\* A search finds exactly the rows, by their text as it is now: the index follows
\* every change, and a start that was cut short does not leave it behind for good
\* (schema.rs, the triggers and migrate_fts_rebuild).
SearchFindsRows == Open => db.fts = Mirror(db)

\* A body that load_body returns comes with all attachments that were saved with it,
\* whatever views raced for it; the exception is a message that a crash left between
\* the two deletions of remove_message (body_queries.rs, message_queries.rs).
BodyWhole ==
  \A e \in Stored(db) : db.rows[e].body # NULL /\ e \notin torn \cup {half}
                        => db.atts[e] = db.rows[e].body.parts

\* When the thread starts, no body of an old rendering is left, every message is in
\* a mailbox and every pending operation can expire, the last two unless a crash cut
\* the migration short that sees to it (schema.rs).
Migrated ==
  Open =>
    /\ \A e \in Stored(db) : db.rows[e].body # NULL => db.rows[e].body.by = "new"
    /\ "backfill" \notin torn => db.filed = Stored(db)
    /\ torn \cap {"stamp", "_pending_op_at_v1"} = {} =>
         \A e \in Stored(db) : db.rows[e].pending # "untimed"

\* A cached body stays as long as its row, through every sync, view and restart
\* (docs/cache.md:176, "stored forever once fetched"), but for one statement: the
\* UPDATE of the one-shot migrate_invalidate_body_cache, at a start that finds no
\* marker of it.  From the marker on no start, finished or cut short, drops one.
\* The file of a new cache has no marker at its second start, and the bodies of the
\* first session go with that one (schema.rs:192).
BodyKept ==
  [][\A e \in Stored(db) :
       db.rows[e].body # NULL /\ db'.rows[e] # NULL /\ db'.rows[e].body = NULL
         => ~Open /\ "_body_cache_v2" \notin db.objs]_vars

\* A view that awaits the store gets on, however many others were dropped with
\* commands in the channel (dispatch.rs, run_loop).
Served ==
  \A v \in Views : /\ task[v].pc = "loading" ~> task[v].pc # "loading"
                   /\ task[v].pc = "saving"  ~> task[v].pc # "saving"
=============================================================================
