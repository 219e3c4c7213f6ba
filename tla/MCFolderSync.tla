---------------------------- MODULE MCFolderSync ----------------------------
(* FolderSync for TLC: three mailboxes, the third still to be created.       *)
EXTENDS FolderSync, TLC

\* An inbox, with a folder beside it or below it.
Trees == { [i \in Boxes |-> IF i = 1 THEN [name |-> 1, parent |-> NULL]
                            ELSE IF i = 2 THEN [name |-> 2, parent |-> p] ELSE NULL]
           : p \in {NULL, 1} }

Filed == { [m \in Mails |-> bs] : bs \in {{2}} }

FiledTwice == { [m \in Mails |-> bs] : bs \in {{2}, {1, 2}} }
=============================================================================
