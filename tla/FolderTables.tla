---------------------------- MODULE FolderTables ----------------------------
(***************************************************************************)
(* The `folders` and `messages` tables under the transactions of           *)
(* src/store/folder_queries.rs and delta_email_batch, with the constraints *)
(* of src/store/schema.rs (PRAGMA foreign_keys = ON): a path belongs to    *)
(* one folder, and a message names in its legacy mailbox_id column a       *)
(* folder that exists.  A transaction that breaks one of them is rolled    *)
(* back: its value is Refused.                                             *)
(*                                                                         *)
(* folders[i] is the path of mailbox i, table[m] the mailbox_id column     *)
(* ("context") of message m and its message_mailboxes rows; NULL for a row *)
(* that is not there.  Names, roles and counts have no constraint.         *)
(***************************************************************************)
EXTENDS Naturals, FiniteSets, SequencesExt

CONSTANTS
  NULL,
  Boxes,      \* mailbox ids, in the order of their strings
  Mails,      \* email ids
  Names       \* mailbox names, 1..n

\* What build_path may return: the depth guard ends a path at 22 names.
Paths == {p \in Seq(Names) : Len(p) \in 1..22}

ASSUME TablesAssumption ==
  /\ Boxes \subseteq Nat /\ IsFiniteSet(Boxes) /\ Mails # {}
  /\ NULL \notin Boxes /\ NULL \notin Paths

MailRow == [context : Boxes, boxes : SUBSET Boxes]

Tables == [folders : [Boxes -> Paths \cup {NULL}],
           table   : [Mails -> MailRow \cup {NULL}]]

ASSUME RowAssumption == NULL \notin MailRow /\ NULL \notin Tables

Refused == NULL

Stored(fs) == {i \in Boxes : fs[i] # NULL}

\* INSERT ... ON CONFLICT(account_id, mailbox_id) DO UPDATE, one folder after
\* the other in the order of the list: the k-th meets the table the others
\* before it have left, and PRIMARY KEY (account_id, path).
UpsertFolders(fs, paths, order) ==
  LET After(k) == [i \in Boxes |-> IF \E l \in 1..k : order[l] = i THEN paths[i] ELSE fs[i]]
      Clash(k) == \E j \in Boxes \ {order[k]} : After(k - 1)[j] = paths[order[k]]
  IN  IF \E k \in 1..Len(order) : Clash(k) THEN Refused ELSE After(Len(order))

\* Junction rows of the gone mailboxes, the messages this leaves without any.
LeaveFolders(tab, gone) ==
  [m \in Mails |->
     IF tab[m] = NULL \/ tab[m].boxes \subseteq gone THEN NULL
     ELSE [tab[m] EXCEPT !.boxes = @ \ gone]]

\* DELETE FROM folders: FOREIGN KEY (account_id, mailbox_id) of messages.
RemoveFolders(fs, tab, gone) ==
  LET left == LeaveFolders(tab, gone)
  IN  IF \E m \in Mails : left[m] # NULL /\ left[m].context \in gone THEN Refused
      ELSE [folders |-> [i \in Boxes |-> IF i \in gone THEN NULL ELSE fs[i]],
            table |-> left]

\* save_folders_and_set_state: upserts, then everything that is not in the list.
SaveFolders(fs, tab, paths, order) ==
  LET up == UpsertFolders(fs, paths, order)
  IN  IF up = Refused THEN Refused
      ELSE RemoveFolders(up, tab, Boxes \ DOMAIN paths)

\* Mutant: the delta prunes what it does not mention, as a full save does.
DeltaFoldersPruning(fs, tab, paths, order, gone) == SaveFolders(fs, tab, paths, order)

\* delta_folders_and_set_state: upserts, then removals.
DeltaFolders(fs, tab, paths, order, gone) ==
  LET up == UpsertFolders(fs, paths, order)
  IN  IF up = Refused THEN Refused
      ELSE IF gone = {} THEN [folders |-> up, table |-> tab]
      ELSE RemoveFolders(up, tab, gone)

\* Mutant: foreign keys are not enforced.
EmailBatchUnchecked(fs, tab, destroyed, got) ==
  [m \in Mails |-> IF m \in DOMAIN got THEN got[m]
                   ELSE IF m \in destroyed THEN NULL ELSE tab[m]]

\* delta_email_batch: destroyed rows, then saves whose context must be stored.
EmailBatch(fs, tab, destroyed, got) ==
  IF \E m \in DOMAIN got : fs[got[m].context] = NULL THEN Refused
  ELSE [m \in Mails |-> IF m \in DOMAIN got THEN got[m]
                        ELSE IF m \in destroyed THEN NULL ELSE tab[m]]
=============================================================================
