# neverlight-mail-core in TLA+

neverlight-mail-core is a headless JMAP mail engine: a front end (TUI, GUI or an
FFI layer, none of them in this repository) calls it to synchronise mailboxes and
messages from a JMAP server into an SQLite cache, to change flags optimistically,
to walk the history of a folder in the background, to send mail and to manage
accounts. This project models the parts where several actors meet: the front end,
the synchronisation tasks and the cache thread at the tables of the cache; the client,
the network and the server at a request that is sent more than once; the set-up form,
`connect` and the keyring at an account's credentials; a stream and the chunks it
arrives in.

Paths below are relative to the repository (`src/sync.rs`, `docs/cache.md`).

## Inventory

| component | state | operations | interacts with |
|---|---|---|---|
| store thread (`src/store/handle.rs`, `commands.rs`, `dispatch.rs`) | the SQLite connection, an unbounded channel | one command at a time, a reply for each | every task that holds a `CacheHandle` |
| flag columns (`flags.rs`, `flag_queries.rs`, `message_queries.rs`) | `flags_server`, `flags_local`, `pending_op`, `pending_op_at`, `is_read`, `is_starred` | save, update_flags, clear, revert, expire, remove | front end and email sync |
| flag changes (`src/email/flags.rs`) | nothing; requests in flight | `set_flag`, `set_flags_batch`, `move_to`, `trash`, `destroy`, searches | front end, server |
| email sync (`src/sync.rs`, `src/email/query.rs`) | `sync_state` "Email" (the cursor, of the account) and "Populated:{mailbox}", `messages`, `message_mailboxes` | `sync_emails`: head, delta, fall back, prune | server, cache, backfill |
| backfill (`src/backfill.rs`, `backfill_queries.rs`) | `backfill_progress` | `backfill_batch`, reset | server, cache, email sync's prune |
| mailbox sync (`src/sync.rs`, `src/mailbox.rs`, `folder_queries.rs`) | `folders`, `sync_state` "Mailbox" | `sync_mailboxes`: full, delta, fall back | server, cache, email sync (foreign key) |
| schema (`src/store/schema.rs`) | keys, foreign keys, triggers, migration markers | migrations at open | all tables |
| bodies, attachments, search (`body_queries.rs`, `search_queries.rs`, `src/email/body.rs`) | body columns, `attachments`, the FTS index | load, save, search | messages (cascade), migrations, downloads |
| client (`src/client.rs`) | the authorization header | `call` with retries, blobs | server; every other component's requests |
| submission (`src/submit.rs`) | drafts on the server | `send`, identities, uploads | client |
| push (`src/push.rs`) | the stream buffer | `listen` | front end |
| session (`src/session.rs`, `discovery.rs`) | refresh token, capabilities | `connect`, healing, discovery | keyring, configuration file |
| configuration (`src/config.rs`, `keyring.rs`) | the configuration file, the keyring | load, save, resolve | set-up, session |
| set-up (`src/setup.rs`) | the form | `try_submit` | configuration, keyring |
| text (`mime.rs`, `parse.rs`) and declarations (`types.rs`, `models.rs`) | none | pure functions | |

What is hard here, and what makes each component correct:

* *Flag columns.* Four callers write the same six columns. Correct when the
  redundant columns mirror the effective flags, when a save never disturbs an
  operation in flight, and when every pending operation can expire.
* *Flag changes.* The user's click, the request, the reply, the server, the delta
  that fetches the same message, and a restart interleave. Correct when the user's
  choice stays visible while its request is in flight, when no operation is
  pending for ever, and when everything settles on the server's flags.
* *Email sync.* One cursor for the account, one page per folder, two requests per
  delta, a log the server may forget. Correct when nothing behind the cursor is
  stale or missing and the open folders converge.
* *Backfill.* Positions into a list that moves, a save and a progress row in two
  transactions, a prune that must be skipped. Correct when what the row says is
  done is in the cache, and the walk ends.
* *Mailbox sync.* A tree whose paths are keys, a foreign key from messages, and a
  delta retried unchanged when its transaction is refused. Correct when the table
  is the server's tree as of the stored state and removals take only their own mail.
* *Session, configuration, set-up.* A ratcheting token kept in memory, keyring and file,
  a form that stores before it checks, a keyring that is not always there. Correct when
  every account in the file has its credential and a connect presents the token the
  server accepts.
* *Client, submission, changes on the server.* A request that is repeated when no answer
  came, though the server may have executed it, or may execute it later. Correct when
  what the caller is told is true whatever was lost, when a message goes out again only
  after an attempt without an answer, and when every call ends.
* *Store thread, schema, bodies, search.* Migrations of several statements without a
  transaction, an index kept by triggers, bodies fetched by views that may be dropped, a
  removal in two statements. Correct when a search finds the rows as they are, a body has
  its attachments, no restart leaves the file half migrated, and no dropped task stops
  the thread.
* *Push.* Framing over chunks that end anywhere. Correct when the cuts make no difference.

`PROJECT.json` lists the hazards line by line, with the property that covers each
or the reason none does.

## Modules

```
OptimisticFlags        what the store promises of a flag change (abstract)
FlagRow                one row's flag columns under each SQL statement (operators)
  DualTruth            all rows under every store command; implements OptimisticFlags
    DualTruth_proofs   theorems
  FlagFlow             front end, requests, server, delta sync and restarts, over the
                       store of DualTruth; implements OptimisticFlags
    FlagFlow_proofs    theorems
MailServer             messages, change log, query / get / changes (external)
  EmailSync            sync_emails and the tables it writes
    Backfill           backfill_batch beside sync_emails
      Backfill_proofs  theorems about both
FolderTables           folder and message tables with the schema's keys (operators)
  FolderSync           sync_mailboxes beside email deltas
    FolderSync_proofs  theorems
CacheTables            a message's row, body, attachments, index entry; migrations (operators)
  Cache                the store's thread, its channel, the tasks that send, restarts
    Cache_proofs       theorems
Requests               client, network and server: what a caller is told of a change
  Requests_proofs      theorems
Accounts               configuration file, keyring, set-up form, connect with OAuth
  Accounts_proofs      theorems
EventStream            listen over every cut of a stream
  EventStream_proofs   theorems
MC*                    the instances for TLC
```

### FlagRow and DualTruth

A row is a record of the flag columns. No statement looks at the name in
`pending_op`, so the column is the Boolean "is not NULL"; both flags of the two-bit
encoding are kept because the mirror columns are computed from it. Each operator of
`FlagRow` is one statement; each action of `DualTruth` is one command, atomic since
the store thread executes one command at a time. `save_messages` and
`save_messages_and_set_state` share `save_messages_in_tx` and are one action over a batch;
`delta_email_batch` deletes and saves in one transaction (`DeltaEmailBatch`). The table
begins as an earlier session left it, all settled or absent. Every command may come at
any time, since `CacheHandle` is public and cloneable.

`OptimisticFlags` is the state machine the code keeps: absent, idle,
pending, what is shown and what a reversal returns to. In what is shown it is the one of
`docs/cache.md` lines 66-87 and 94. It is not in what a reversal returns to: `docs/cache.md:93` has `flags_server`
of a pending row updated by every save, the upsert keeps the column (`src/store/message_queries.rs:93-95`,
"Only update flags when no pending op is in flight"), and `base` follows the code. What that disagreement loses is
the finding of the run `flag_settled`. `PendingPreserved` states what document and code agree on, invariant 2, and
says nothing of `flags_server`. `DualTruth!Abstract`
instantiates `OptimisticFlags` with what a query reads off the redundant columns, so the
refinement says that these columns, not just the two flag words, behave as promised.

### FlagFlow

The whole life of a change: `Toggle` (update_flags and the request), `Applied` or
`Refused` at the server (a lost reply is an applied request that ends in an error),
`Conclude` at the front end, beside `SyncStart`, `SyncChanges`, `SyncGet`, `SyncSave`
of one `sync_emails` call, other clients, restarts and a clock. The front end is
external and follows `docs/cache.md`. `Serial` says it sends one operation per
message at a time; without it an earlier reply clears a later operation
(`clear_pending_op` does not name the operation), so the runs assume it. `Store`
instantiates `DualTruth` over the rows and the clock of the flow, and
`FlowImplementsOptimisticFlags` is its promise: the store alone keeps it under any
commands, and the flow, which is more than a sequence of commands (several of its steps are no command,
and its commands depend on replies that may be lost), sends nothing but those commands.

### MailServer, EmailSync and Backfill

The server is a map of messages and a log of changes; a state token is a length of
the log. A batched Email/query and Email/get is one HTTP request and one step;
Email/changes and the Email/get that follows are two steps with any change in
between. `EmailSync` has one step per await of `sync_emails`: cursor, Populated
marker, changes, get, batch, or query, save, progress, prune. The tables are
functions from ids: `table[m]` is the row with its junction rows. Flags are left to
`FlagFlow`. `Crash` loses calls and keeps tables; `Fail` ends a call at a request;
`Forget` makes tokens too old.

`Backfill` adds the steps of `backfill_batch` over the same variables: progress row,
page, save, progress row, with the limit, `reset_backfill_progress`, restarts and
failed requests. `Overlap = FALSE` says that the front end runs a batch or a sync,
not both; with TRUE a batch fetched before a delta can bring back a message the
delta removed, and a prune can wipe a batch whose progress row is not yet there.

### FolderTables and FolderSync

`FolderTables` gives each transaction of `folder_queries.rs` as a function of the two
tables whose value is `Refused` when a key breaks: PRIMARY KEY (account_id, path)
and FOREIGN KEY (account_id, mailbox_id). The upserts of a list come one by one in an
order chosen freely, since the list is sorted by attributes of the server; `UpsertFolders` states in
closed form which table the k-th of them meets. Paths
are sequences of at most 22 names, built as `build_path` does under its depth guard. `FolderSync` has one step per await
of `sync_mailboxes` and two for an email delta (what it brings, and its save under
the folder it is stored with); a refused transaction leaves the stored state, so the
next call repeats it.

### CacheTables and Cache

A database has the objects that were created (tables, triggers, columns, markers), the rows of
`messages`, the attachments, the messages with a `message_mailboxes` row, and the index as a set
of entries. Every change of a row goes through the triggers that exist (`Index`). `Migrations`
lists the batches of `run_migrations` statement by statement with their markers. `Cache` runs
them, one statement a step since `execute_batch` opens no transaction, then serves the channel
one command a step; `do_remove_message` is two. Views load a body, fetch it when the cache has
none (with any of the downloads skipped) and save it; a dropped view leaves its command in the
channel. A restart may hit any of these. `torn` is a history variable: where a crash cut a batch
or a removal short. The subject stands for all the text of a row that is indexed beside the body.

### Requests

One action per operation that changes the server (`SetFlags`, `MoveTo`, `Destroy`, `CreateBox`,
`RenameBox`, `DestroyBox`, `Compose`), then the loop of `call`: `Post`, `TransportError`, `Receive`
with `Retry` on 429 and 503, and the check of the answer (`CheckSet`, `CheckBox`, `CheckCreate`,
`CheckSend`). Only `call` repeats, at most `max_retries` times; an upload is tried once. The network and
the server are external: a request may be lost, be executed after the client gave up on it, be
executed twice, and its answer may be lost or broken. `silent` and `wrote` are history variables:
attempts without an answer, and the calls whose patch reached an object. Every caller makes
one call: calls meet only in the objects on the server, not in the client.

### EventStream

A stream is a sequence of events of seven kinds, encoded with LF or CRLF; a token is a line end's
character, a field's name or a piece of its value, and a chunk is any non-empty run of tokens. `Read`
appends a chunk, `Handle` takes one event off the buffer, as `listen`'s two loops do. `Told`, which
the code's result is compared with, is defined by the events and knows nothing of tokens.

### Accounts

`file` is config.json, `passwords` and `refresh` are the two kinds of keyring entries, keyed by
login and by account id as in `keyring.rs`. One action per kind of `try_submit`: the
keyring is written first, then the file is loaded (`Full` takes a file it cannot read as an empty
one) and saved, or the save fails and the keyring stays as written. A form for a missing token holds the login of the moment it
was opened (`setup.rs:317`); `SubmitTokenOnly` takes the file's, which is the same while one form is open at a time. `connect` is three
steps: `ReadToken`, `RefreshToken` at the server (external: the valid token may be replaced, and
the answer may be lost), `Persist` in the keyring or the file. `memory` is what `Start` resolved:
`connect` takes its configuration by reference and never updates it. `unsaved` is a history
variable: the accounts whose valid token did not reach the keyring, for which only the browser
flow (external) helps. A cached access token that still works ends a `connect` before it
changes anything, and a refresh that returns no new token changes nothing either.

## Runs

| run | expects | shows |
|---|---|---|
| `dual_truth` | pass | `DualTruthInv`, `PendingPreserved` (`docs/cache.md` invariant 2) and `ImplementsOptimisticFlags` for two messages under all commands |
| `flag_flow` | pass | `OptimismHonoured`: no sync, expiry or earlier reply takes back a fresh operation; `PendingResolves`: none is pending for ever; `FlowImplementsOptimisticFlags`: what is shown follows `OptimisticFlags`, the code's state machine, throughout |
| `flag_settled` | violation | `SettledShowsTruth`: a change of another client during an operation is lost, since the upsert keeps `flags_server` where `docs/cache.md:93` has it updated |
| `email_sync` | pass | `NothingStale`, `NothingMissing`, `Converges` |
| `second_mailbox` | violation | `NothingMissing`: opening a second folder hides changes of the first |
| `backfill` | pass | `BackfilledTrue`, `HistoryKept`, `HistoryArrives` |
| `folder_sync` | pass | `FoldersAsOf`, `MailKept`, `FoldersConverge` |
| `folder_deadlock` | violation | `FoldersConverge`: folder delta and email delta wait for each other |
| `accounts` | pass | `Resolvable`: every account in the file has its credential; `RatchetHeld`: a connect for which the keyring answers presents the token the server accepts, if that one reached the keyring |
| `requests` | pass | `OkIsTrue`, `NotFoundIsTrue`, `RefusedNotDone`: what the caller is told is so; `OnlySilenceRepeats`: nothing is done twice after an answer; `EveryCallEnds` |
| `event_stream` | pass | `ChunksDoNotMatter`: changes in order, once, complete and in time, however the stream is cut |
| `cache` | pass | `SearchFindsRows`, `BodyWhole`, `Migrated` through races, syncs and restarts, the last two but for what a stop inside one of three batches leaves (`torn`); `BodyKept`: a body goes only with its row, or by the one-shot migration at a start that does not find its marker; `Served`: the thread outlives dropped callers |

The violations are described with their quotes under "findings" in `PROJECT.json`.
Each is a run of its own whose bounds leave nothing but the behaviour in question.

### Bounds, and why they are enough

* `dual_truth`: two messages, so that one batch can hold a pending and an idle row;
  time 0..3 with an age of 1, so an operation is stamped, not yet expired, expired
  and stamped again. All 4 flag values.
* `flag_flow`: one message (rows do not interact, see the proofs), two operations, one
  change by others, one restart, lost replies, `MaxAge` 1 and time to 4. `Toggle`
  needs room on the clock for the expiry, else a bound would keep a row pending.
* `email_sync`: two messages that may lie in either or both of two mailboxes, three
  changes, so a message can arrive, move and go during one call; two rounds of the
  loop (50 in the code), so the cap is met; the page holds all messages, the case in
  which "nothing is missing" is promised. The scenarios: a new cache with a restart;
  a new cache with a failed request and one forgotten log; two folders opened
  before, with a restart. Left out, because the properties then fail: a second
  folder opened first time (`second_mailbox`), a forgotten log together with a restart
  between save and prune, or with two open folders (hazards).
* `backfill`: one folder, a page of one, four messages of which the newest may still
  arrive, two changes, limits none and 2, one reset; a restart, or a failed request and a
  forgotten log. Three pages behind the head make a first, a middle and a last.
* `folder_sync`: three mailboxes, one still to be created, in trees of depth up to
  three; two changes of mailboxes, one of a message, one fault (forgotten log, failed
  request or restart) at any moment. Names are given once and a message is in one
  mailbox at a time, the cases in which the transactions are not refused;
  `folder_deadlock` lifts the second.
* `accounts`: two accounts that may share one of two logins, one password (no property tells
  passwords apart), three refresh tokens per account (a first and two replaced), one restart, the
  keyring turning at any moment; logins are symmetric.
* `requests`: one call, since calls share only the objects (`OtherDestroys` stands for what
  others do to them) and the theorems below hold for any number; two emails, so that one of a batch can be
  refused and the other not; one mailbox; four attempts, as in the code; an upload or none. With the
  last attempt on its way an earlier one may still be executed.
* `event_stream`: every stream of up to three events of the seven kinds, LF or CRLF, every cut,
  `close_after` none, 1 and 2. Three events make a chunk that completes one, holds one and begins one.
* `cache`: one message (no statement relates two, except the prune, which is given by the set that
  leaves), two subjects, one attachment, two views that race with each other and with the sync, two
  commands in the channel, two restarts, so that a start that finishes what another began can be cut
  short itself. The files to start from: empty, and all those of older versions.

### Fairness

The engine does not schedule itself; the front end calls it on push or on a timer.
Every liveness property assumes that it goes on calling, and that a call which is
neither cut short nor refused proceeds, as tokio and the store thread provide:

* `FlagFlow`: weak fairness of the clock, of `SyncStart` and of the sync's own steps.
  Nothing is assumed of the user, of replies or of other clients; failures of
  requests are unbounded, since the expiry is the first command of every call.
* `EmailSync`: strong fairness of starting a call for each folder (one slot is shared by
  the folders, so each is enabled again and again, not always), weak fairness of
  the steps of a call. `Backfill`: the same, and strong fairness of starting a batch (a
  sync may hold the turn), weak of its steps.
* `FolderSync`: weak fairness of the steps of `sync_mailboxes`, and of email deltas of some folder.

* `Requests`: weak fairness of each caller's own steps: tokio polls them, and the HTTP client's timeout of
  60 seconds (`src/client.rs`) makes `TransportError` possible whenever no answer comes. Nothing
  is assumed of the network and the server.
* `Cache`: weak fairness of the thread (`Migrate`, `Serve`), which does nothing else. Nothing is
  assumed of the tasks: they may be dropped, or never ask.

Failures, restarts and forgotten logs are bounded in the syncs: a server that answers
nothing converges to nothing. Deadlock is checked in every run but two: `requests` stops when every
caller has its result, `event_stream` when `listen` has returned.

## Proofs

`DualTruth_proofs` proves, for every set of messages, every age limit and every clock bound:

* `DualTruthCorrect`: `Spec => []DualTruthInv`. The invariant is inductive as it stands once it
  carries `PendingIsTimed` (time stamps lie in 0..now) and `IdleAgrees`: the mirror
  columns after a revert or an expiry are those of `flags_server`, and after a save on an idle
  row nothing of the old operation may be left. `RowGood` states it for one row and
  one time; a lemma per statement of `FlagRow` shows that the statement keeps a row
  good; `InvByRow` lifts it to the table, and `StepInv` has one step per command.
* `PendingIsPreserved`: invariant 2 of `docs/cache.md` as an action property, command by command.
* `DualTruthRefines`: every command is a step of `OptimisticFlags` (the code's state machine, see above) or leaves its variables
  alone, given the invariant (which makes the mirror columns equal what is abstractly shown).
* `FlagsRoundTrip`: the two-bit encoding loses nothing (`docs/cache.md` invariant 8).

`FlagFlow_proofs` proves, for every set of messages, age limit, number of operations, restarts and changes of others, with and
without lost replies:

* `FlagFlowTyped` (`TypeOK`), and `OptimismIsHonoured` (`OptimismHonoured`) under `Serial`, without which the reply to a first
  operation takes back a second. `OpTrue` is the invariant of one operation: it is the only one of its message; while it may not
  expire its row is pending with the flags and the time it was sent with; and if the row is gone, so is the message, and no sync in
  progress holds a copy that would create it again without the operation. `SyncTrue` says that what a sync is about to delete is gone
  from the server and not among what it fetched. The property alone knows neither the time in the row, on which the expiry
  decides, nor the sync, and is not inductive. `OpStands` says what a step has to leave for `OpTrue`; one lemma per action follows.
* `FlagFlowRefines` (`FlowImplementsOptimisticFlags`), with operations overlapping or not. `FlowStep` maps each step of the flow to one command
  of `DualTruth` or to a stutter: a reply to a message that is gone is a stutter, a `notFound` is `RemoveMessages`, the save of a
  sync is `DeltaEmailBatch` of what it fetched. With `FlowInit` the store's invariant then holds under the flow (`StoreKept`, from
  `DualTruth_proofs`' `InitInv` and `StepInv`), and its refinement, `RefinesInit` and `RefinesStep`, carries over. `Proved` instantiates
  `DualTruth_proofs`; `SameRow`, `SameStatements` and `SamePromise` say that its operators are those of `FlagRow` and `Store`.

`Requests_proofs` proves, for every number of callers, emails, mailboxes, attempts and uploads:

* `RequestsTyped`, `SuccessIsTrue` (`OkIsTrue`), `AbsenceIsTrue` (`NotFoundIsTrue`), `RefusalIsTrue`
  (`RefusedNotDone`) and `SilenceBoundsRepeats` (`OnlySilenceRepeats`), all from one invariant `IInv`: the shape of what
  callers share, and for each caller four parts. `CallTyped` is the shape of its record; `Truthful` says that an
  answer on its way back, not only a result, is true of the server; `Fresh` that while every attempt
  was answered nothing is on its way but the present one and nothing is done but by it; `Counted` that deliveries, or
  drafts, together with the requests still on their way never exceed the silent attempts and the present one. The properties speak of results only and are not inductive:
  a late attempt would refute them if nothing were known of the network. `Frame` says that a step
  leaves the other callers' parts alone; one lemma per action follows.

`Accounts_proofs` proves, for every set of ids, logins and passwords and every bound:

* `AccountsTyped`, `EveryAccountResolves` (`Resolvable`) and `RatchetIsHeld` (`RatchetHeld`), from `Types`, `Kept` and
  `Ratchet`. Both properties speak of moments at which the keyring answers. `Kept` says that a credential the file does not hold itself is in the keyring whether or not it answers now, which
  no step takes away. `Ratchet` follows the server's valid token: it is in the call that has yet to store it, in
  the keyring, or lost (`unsaved`), and before the first there is none anywhere.

The first part of `Backfill_proofs`, about `EmailSync` alone, proves:

* `EmailSyncTyped` (`TypeOK`), for every number of calls at once, page size, limit and scenario. `Types` adds the shape of
  each call and that no call holds a token the server has not reached.
* `NothingIsStale` and `NothingIsMissing`, for every set of messages and folders, page size, number of restarts and failed requests, under
  `OneCall` (one call at a time, and of a new cache one folder opened) and `LogOrFolder`: the server keeps its log, or there
  is no restart and the folder is the only one in the cache. Every scenario of the run `email_sync` satisfies both. Each
  condition is needed: without it a hazard listed in `PROJECT.json` or the run `second_mailbox` refutes the property (a restart
  between a head sync that comes again and its prune leaves a stale row; a head sync that comes again moves the
  cursor past the changes of another folder). Two invariants carry them, one for each half of `LogOrFolder`. `IInv` relates what a
  call holds to the log. `LogTrue`: every message the log names has a last change there, and it is gone just when
  that change is a destruction (so that no induction over the log is needed: `Append` keeps it). `CallTrue`: what the
  window did not name has not changed since the cursor, a copy on its way to the cache is right unless its message has changed
  after the new cursor, and a head sync starts from an empty cache. The properties alone say nothing of a
  delta between its request and its save, and are not inductive. `FolderInv` speaks of one folder and not of the whole
  table: when the log is forgotten the head sync starts on rows of any age, so `RowsTrue` holds of what the folder shows and
  only when no prune is due, `RowsFull` says that what the server has in the folder is there even then, and
  `FolderCall` that the page in the call's hands is still what the rows say. The lemmas on what a request answers and on what
  the server leaves true of a call (`ChangesCall`, `ServerCall`) serve both. `Changed` sums up a change of the server and `ServerKeeps` says what
  it leaves true; one lemma per action follows.

Its second part builds on the first and proves, for every page size, limit, number of resets and scenario:

* `BackfillTyped` (`BackfillTypeOK`), with any number of batches and calls at once: of a walk it says only that its position never exceeds
  the page size plus the number of all emails. `Bottom` is why: a page that is
  fetched behind the last message is empty, and an empty page ends the walk.
* `BackfilledIsTrue` (`BackfilledTrue`) under `OneCall` and `NoOverlap`, as long as no log has been forgotten (`horizon = 0` is a premise of the
  property; afterwards it fails, see below). The invariant is that of the first part and `BatchTrue`: a page on its way to the cache is right but for what the log names after
  the cursor. `Turns` (a batch or a call, never both) keeps the cursor where it was while the batch holds the page.
* `HistoryIsKept` (`HistoryKept`) under `OneBox` and `NoOverlap`, through any restarts, failed requests, resets, forgotten logs and arrivals,
  as long as no message was destroyed (a premise of the property: a removal moves the pages up, and one message is skipped).
  With `Overlap` a head sync prunes what a batch has saved and not yet entered in its progress row; with a second mailbox a message
  that moves leaves the folder as a destroyed one does, and those behind it move up past the position. `PagesKept` says
  of each batch and call what the cache and the page in its hands hold together: the old messages up to the position. `Sinks` says
  why positions are safe: an old message never moves up. The property looks at the progress rows and is not inductive: a page
  is in the cache before its row is.

`FolderSync_proofs` proves, for every tree the server may have, every set of mailboxes, messages and names, one place or several for a message,
names given once or handed on, and every bound:

* `FoldersTyped` (`TypeOK`), `FoldersAreAsOf` (`FoldersAsOf`) and `MailIsKept` (`MailKept`), with no hypothesis: when a transaction is refused
  the state stays with the table, so that the cases that keep the two from converging leave these three alone. `FoldersAsOf` exempts the
  path of a mailbox when one above it was renamed after its own last change: `Mailbox/changes` does not name it then. `MailKept`
  speaks of the time before a folder delta starts over.
* The lemmas of `FolderTables` say that both keys hold after every transaction that commits, that the folders of a full save
  are those of the list and a delta touches no other than it names (`UpsertKeeps`, `SaveFacts`, `DeltaFacts`), and that the save of an email delta keeps the foreign key (`BatchFacts`).
* The invariant is `Types`, `MailTrue` and `FoldersTrue`. `DeltaNames`: the window a delta was answered with names every mailbox
  that changed in it. `DeltaPaths` and `SavePaths`: what was fetched is right of each mailbox that has not changed since, nor any above
  it. `TreeKept` says that a change of one mailbox leaves the paths and the ancestors of those that do not lie below it. `MailTrue` says the same of
  an email delta on its way. `FoldersAsOf` compares tables with the server and knows nothing of a
  call between its requests and its transaction; so it is not inductive.

`Cache_proofs` proves, for every set of messages, views, subjects and bodies, every length of the channel and number of restarts:

* `CacheTyped` (`TypeOK`), `SearchFindsTheRows` (`SearchFindsRows`), `BodiesAreWhole` (`BodyWhole`), `MigrationsFinish` (`Migrated`) and
  `BodiesAreKept` (`BodyKept`), without hypotheses. A lemma for each statement (`Follows`) and each command (`Serves`) says that the foreign
  keys hold after it, that the index follows when all three triggers exist, and that no body loses its attachments. `BodyWhole` and
  `Migrated` exempt by `torn` what a stop between the two deletions of `remove_message`, or inside the batches of `message_mailboxes` and
  `pending_op_at`, leaves: there the code does not keep the promise. `StatementKeepsBody` and the marker `MigrateOpens`
  finds missing before the UPDATE of `migrate_invalidate_body_cache` give `BodyKept` at a start, `Serves` gives it of the commands.
* The invariant is `IInv`. `FileOK` says at each place of `open` what the statements behind it have made of the file: a
  marker that comes last in its batch stands for what the batch promises, so that a start cut short there is made good by the next one; the two
  migrations that go by an object they create first (`message_mailboxes`, `pending_op_at`) promise it unless `torn` says that a start was cut short in them. `ChannelOK` says what each command and each waiting view carries, `HalfOK` where
  a removal stands between its two statements. The properties speak of an open store and are not inductive: nothing in
  them survives a restart.

`EventStream_proofs` proves, for every set of streams of any number of events, either line end, every `close_after`, and chunks cut anywhere:

* `StreamTyped` (`TypeOK`) and `ChunkingIsHidden` (`ChunksDoNotMatter`), without hypotheses.
* Of one event: `LinesOfFacts`, `FramesLF` and `FramesCRLF` say that its blank line is its only one; `CutsLF` and `CutsCRLF`, that `Split` waits
  while the buffer holds less than an event and then cuts off just that event, whatever follows it; `BlockTells`, that what was cut off
  is read as the change of its kind, or as none. Of a stream: `SentLaysOut`, that its events stand one behind
  the other where `ends` says; `ToldByComplete`, that what the events tell at a position is what those tell that are complete there.
* The invariant is `IInv`: some number k of events has been cut off, the buffer is what has arrived behind the end of event k, the
  first k events tell what was handed on, and between chunks event k + 1 is not complete unless `close_after` is reached. The property does not say
  where in the stream the buffer begins, so that nothing in it tells what the next cut brings; it is not inductive. One lemma per action follows.

Assumed: `NullAssumption` (NULL is neither a number nor a row) of `FlagRow`, `AgeAssumption` of `DualTruth`, `FlowAssumption` of `FlagFlow`,
`RequestsAssumption` and `AnswerAssumption` of `Requests` (the bounds are numbers, NULL is none of the
values), `AccountsAssumption` of `Accounts`, `ServerAssumption`, `ContentAssumption` and `SyncAssumption` of `MailServer`
and `EmailSync`, `BackfillAssumption` of `Backfill`, `TablesAssumption` and `RowAssumption` of `FolderTables` (ids are a finite set of numbers),
`FolderSyncAssumption` and `InitialAssumption` of `FolderSync` (the server's first tree has no two mailboxes of one path), `CacheAssumption`,
`StoreAssumption` and `NameAssumption` of `CacheTables` and `Cache` (a statement of a migration is not the id of a message),
`StreamAssumption` of `EventStream` (streams are sequences of the seven kinds, NULL is no number and no cut of a buffer); each is
evaluated by TLC in the run of its module.

Only model-checked: liveness under fairness (`PendingResolves`, `Converges`, `HistoryArrives`, `FoldersConverge`, `EveryCallEnds`,
`Served`), which the prover cannot reach, nor ENABLED. The theorems that induct over data take an operator and cannot be used. Where a proof
needs induction over numbers it takes the least number of a set (`LeastNumber` in `Backfill_proofs`) or a set closed under the step
(`SetInduction` in `FolderSync_proofs`, for the paths of `build_path`). `Recursion` in `EventStream_proofs` gives the functions that are
defined by their value before (what `FlattenSeq` builds, `Values`, `Told`), and induction over them then goes the same way.

## Known divergences

Three disagreements of code and documentation have runs of their own and are described with their
quotes under "findings" in `PROJECT.json`:

* *`flags_server` of a pending row* (`src/store/message_queries.rs:94`, run `flag_settled`). `docs/cache.md:93` says that a save
  updates the column while an operation is pending; the upsert keeps it. So a reversal returns to older flags than the
  document has it, and a change of another client that arrives during an operation is lost for good.
* *The cursor of the account* (`src/sync.rs:282`, run `second_mailbox`). The first head sync of a second folder moves the
  account-wide cursor past changes the first folder has not received; `docs/cache.md:162` promises that no data is lost.
* *The legacy `mailbox_id`* (`src/store/schema.rs:44`, run `folder_deadlock`). `docs/cache.md:32` calls it unused; its foreign key makes
  a folder delta and an email delta wait for each other.

More are known; the models have the steps, and the configurations or the properties keep out the case, since
the property fails in it:

* *A forgotten log of a backfilled folder* (`src/sync.rs:301`). After cannotCalculateChanges a head
  sync fetches the first page and skips the prune because the folder is backfilled. Messages
  destroyed in the gap beyond the page are neither pruned nor named by any later delta: `NothingStale` fails
  over the steps of `Backfill` when its scenarios have `forgets` with a finished walk.
* *A path handed on within one delta* (`src/store/folder_queries.rs:153`). The upserts come before the removals
  and in an order of their own, so that a mailbox that takes the name another one gives up in the same delta breaks the
  primary key; the transaction is refused, the state stays, and the delta is the same the next time.
  `FoldersConverge` fails with `Reuse = TRUE`.
* *The token in the file* (`src/session.rs:64`). Without a keyring the next refresh token goes to
  the configuration file, while the next `connect` of the same process presents the one its
  configuration was resolved with; it was replaced, and the server refuses it. A connect while the keyring is out of reach
  presents that one, too, though a newer one is in the keyring. `RatchetHeld` therefore speaks of connects for which the keyring
  answers, and of accounts whose token reached it (`unsaved`).
* *Bodies of the first session* (`src/store/schema.rs:192`). `migrate_invalidate_body_cache` returns before its marker when no body is cached, so that the
  first start of a new file leaves none, and the second drops the bodies the first session fetched. `docs/cache.md:176` calls bodies "stored
  forever once fetched", and the comment of the migration (`schema.rs:177`) speaks of "cached bodies from older runs". `BodyKept`
  allows the drop while the marker is missing and nowhere else.
* *Starts and removals cut short* (`src/store/schema.rs:267` and `:319`, `src/store/message_queries.rs:314`). What a stop leaves inside these
  three is not made good by a later start; `Migrated` and `BodyWhole` exempt it (`torn`).
* *Two operations on one email in a batch* (`src/email/flags.rs:44`). The later replaces the earlier in the map that is sent, and Ok is
  returned for both. `SetFlags` has each email of a batch once, so that `OkIsTrue` speaks of the patch that was sent.

And one comment is narrower than the code: `src/client.rs:132` names 429 and 503 as what is tried again,
while a request without an answer is too, so that a message may go out twice. `OnlySilenceRepeats` states the bound
that does hold.

## Not modelled

* Reads that change nothing and that no property needs: `load_thread`, the text of a search query and the
  order of its results, `search` on the server, `get_identities` and `find_identity_for_address`.
* The text of messages, names, roles, counts and threads; MIME, addresses and rendering (`mime.rs`, `parse.rs`); `types.rs` and `models.rs`.
* Push: the URL with its parameters, streams that mix line endings, characters cut by a chunk.
* `set_auth` and the session's URLs; discovery, which is one request and parsing; the healing of capabilities in
  `session.rs`, which loads the file, sets two booleans of an account and saves it.
* The migrations that touch no row of a message (the old Email states, `backfill_progress`, indexes); an `open` that fails.
* `upsert_folders`, `remove_folders`, `save_folders`, `remove_account`: public commands no code
  in `src/` calls. `upsert_folders` names another conflict target than the transaction used by the sync.
* `delete_password` and `delete_oauth_refresh`, which no code in `src/` calls; the account from the environment; the layout file.
* Several accounts in the cache: every statement is keyed by `account_id`; the models of the cache have one account.

## Plan

1. Done: the flag columns, the flag round trip, email sync, backfill, mailbox sync; accounts; the store's thread with
   migrations, bodies and the index; requests; the event stream.
2. Done: proofs for `DualTruth`, `FlagFlow`, `Accounts`, `Requests`, `EmailSync`, `Backfill`, `FolderSync`, `Cache` and `EventStream`: every
   safety and action property of the passing runs.
3. A proof that is left: a weaker hypothesis for `HistoryIsKept` (several mailboxes when no message moves).
4. Healing of capabilities, and two writers of the configuration file at once.
5. Runs for two calls at once (`Tasks` of two) if a document comes to state what is promised then.
