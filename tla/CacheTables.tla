---------------------------- MODULE CacheTables ----------------------------
(***************************************************************************)
(* The parts of the cache database that belong to one message: its row,    *)
(* its attachments, its message_mailboxes rows, and its entry in the full- *)
(* text index, which three triggers on `messages` keep (src/store/         *)
(* schema.rs).  Each operator is one statement or one transaction.         *)
(*                                                                         *)
(* A database d has objs (the tables, triggers, columns and markers that   *)
(* were created), rows[e] (NULL for none), atts[e] (the attachments),      *)
(* filed (the messages with a message_mailboxes row) and fts (the index).  *)
(* A body is what wrote it, this version or an old one, and the            *)
(* attachments that were saved with it.                                    *)
(***************************************************************************)
EXTENDS Naturals, FiniteSets

CONSTANTS
  NULL,
  Emails,
  Subjects,
  Parts        \* the attachments of a message

Body == [by : {"old", "new"}, parts : SUBSET Parts]

Row == [subject : Subjects, body : Body \cup {NULL}, pending : {"none", "timed", "untimed"}]

ASSUME CacheAssumption == NULL \notin Row /\ NULL \notin Body /\ NULL \notin Emails

Stored(d)  == {e \in Emails : d.rows[e] # NULL}
Entry(e, row) == <<e, row.subject, row.body>>

\* What the index should hold: an entry for every row, as the row is now.
Mirror(d) == {Entry(e, d.rows[e]) : e \in Stored(d)}

\* Mutant: the UPDATE trigger does not delete the old entry.
IndexAdds(d, e, new) ==
  IF new = NULL THEN {f \in d.fts : f[1] # e} ELSE d.fts \cup {Entry(e, new)}

\* The triggers on INSERT, DELETE and UPDATE, those of them that exist.
Index(d, e, new) ==
  LET old  == d.rows[e]
      gone == /\ old # NULL
              /\ (IF new = NULL THEN "messages_fts_ad" ELSE "messages_fts_au") \in d.objs
      come == /\ new # NULL
              /\ (IF old = NULL THEN "messages_fts_ai" ELSE "messages_fts_au") \in d.objs
  IN  (d.fts \ IF gone THEN {Entry(e, old)} ELSE {}) \cup IF come THEN {Entry(e, new)} ELSE {}

SetRow(d, e, new) == [d EXCEPT !.rows[e] = new, !.fts = Index(d, e, new)]

\* save_messages_in_tx: a new row, or one whose body stays; its mailboxes.
Upsert(d, e, subject) ==
  LET new == IF d.rows[e] = NULL
             THEN [subject |-> subject, body |-> NULL, pending |-> "none"]
             ELSE [d.rows[e] EXCEPT !.subject = subject]
  IN  [SetRow(d, e, new) EXCEPT !.filed = @ \cup {e}]

\* Mutant: the attachments stay where foreign keys are not enforced.
RemoveBare(d, e) == [SetRow(d, e, NULL) EXCEPT !.filed = @ \ {e}]

\* delta_email_batch for destroyed messages: ON DELETE CASCADE takes attachments
\* and mailboxes with the row.
Remove(d, e) == [SetRow(d, e, NULL) EXCEPT !.atts[e] = {}, !.filed = @ \ {e}]

\* do_prune_mailbox: messages leave a mailbox, then every message that is in none
\* is deleted.
Prune(d, leave) ==
  LET keep == d.filed \ leave
  IN  [d EXCEPT !.rows  = [e \in Emails |-> IF e \in keep THEN d.rows[e] ELSE NULL],
                !.atts  = [e \in Emails |-> IF e \in keep THEN d.atts[e] ELSE {}],
                !.filed = keep,
                !.fts   = @ \ {Entry(e, d.rows[e]) : e \in Stored(d) \ keep}]

\* do_update_flags: a pending operation and the time it began.
MarkPending(d, e) ==
  IF d.rows[e] = NULL THEN d ELSE SetRow(d, e, [d.rows[e] EXCEPT !.pending = "timed"])

\* do_save_body is refused where attachments would have no message.
BodyRefused(d, e, parts) == d.rows[e] = NULL /\ parts # {}

\* Mutant: the attachments of the body before stay.
SaveBodyAdds(d, e, parts) ==
  IF d.rows[e] = NULL THEN d
  ELSE [SetRow(d, e, [d.rows[e] EXCEPT !.body = [by |-> "new", parts |-> parts]])
          EXCEPT !.atts[e] = @ \cup parts]

\* do_save_body: body and attachments in one transaction; nothing without a row.
SaveBody(d, e, parts) ==
  IF d.rows[e] = NULL THEN d
  ELSE [SetRow(d, e, [d.rows[e] EXCEPT !.body = [by |-> "new", parts |-> parts]])
          EXCEPT !.atts[e] = parts]

-----------------------------------------------------------------------------
\* Migrations.

\* Mutant: the markers first.
MigrationsMarkFirst ==
  << [marker |-> NULL, run |-> <<"message_fts">>],
     [marker |-> NULL, run |-> <<"messages_fts_ai">>],
     [marker |-> NULL, run |-> <<"messages_fts_ad">>],
     [marker |-> NULL, run |-> <<"messages_fts_au">>],
     [marker |-> "_fts_rebuild_v1",    run |-> <<"_fts_rebuild_v1", "rebuild">>],
     [marker |-> "_body_cache_v2",     run |-> <<"_body_cache_v2", "invalidate">>],
     [marker |-> "message_mailboxes",  run |-> <<"message_mailboxes", "backfill">>],
     [marker |-> "_pending_op_at_v1",  run |-> <<"pending_op_at", "stamp", "_pending_op_at_v1">>] >>

\* run_migrations, in its order: the statements of each batch, and the object
\* whose presence says that it is done.  A statement that is no object changes
\* rows; the tables without rows of messages are left out.
Migrations ==
  << [marker |-> NULL, run |-> <<"message_fts">>],
     [marker |-> NULL, run |-> <<"messages_fts_ai">>],
     [marker |-> NULL, run |-> <<"messages_fts_ad">>],
     [marker |-> NULL, run |-> <<"messages_fts_au">>],
     [marker |-> "_fts_rebuild_v1",    run |-> <<"rebuild", "_fts_rebuild_v1">>],
     [marker |-> "_body_cache_v2",     run |-> <<"invalidate", "_body_cache_v2">>],
     [marker |-> "message_mailboxes",  run |-> <<"message_mailboxes", "backfill">>],
     [marker |-> "_pending_op_at_v1",  run |-> <<"pending_op_at", "stamp", "_pending_op_at_v1">>] >>

\* Mutant: migrate_invalidate_body_cache goes by the bodies alone, not by its marker.
DoneByBodies(d, migration) ==
  IF migration.marker = "_body_cache_v2" THEN \A e \in Stored(d) : d.rows[e].body = NULL
  ELSE migration.marker \in d.objs

\* A migration does not start when its marker is there, migrate_invalidate_body_cache
\* also not when no body is cached; it then leaves no marker.
Done(d, migration) ==
  \/ migration.marker \in d.objs
  \/ migration.marker = "_body_cache_v2" /\ \A e \in Stored(d) : d.rows[e].body = NULL

\* ALTER TABLE ADD COLUMN knows no IF NOT EXISTS: an error ends the batch.
Fails(d, statement) == statement = "pending_op_at" /\ statement \in d.objs

\* The rows of a statement that changes all of them; the UPDATE trigger runs.
Rewrite(d, f) ==
  [d EXCEPT !.rows = f,
            !.fts = IF "messages_fts_au" \in d.objs
                    THEN (@ \ Mirror(d)) \cup {Entry(e, f[e]) : e \in Stored(d)} ELSE @]

Execute(d, statement) ==
  CASE statement = "rebuild"    -> [d EXCEPT !.fts = Mirror(d)]
    [] statement = "invalidate" ->
         Rewrite(d, [e \in Emails |-> IF d.rows[e] = NULL THEN NULL
                                      ELSE [d.rows[e] EXCEPT !.body = NULL]])
    [] statement = "backfill"   -> [d EXCEPT !.filed = Stored(d)]
    [] statement = "stamp"      ->
         Rewrite(d, [e \in Emails |-> IF d.rows[e] # NULL /\ d.rows[e].pending = "untimed"
                                      THEN [d.rows[e] EXCEPT !.pending = "timed"] ELSE d.rows[e]])
    [] OTHER -> [d EXCEPT !.objs = @ \cup {statement}]
=============================================================================
