---------------------------- MODULE MCEmailSync ----------------------------
(* EmailSync for TLC: two messages that move between two mailboxes.          *)
EXTENDS EmailSync, TLC

CONSTANTS b1, b2

Two == {b1, b2}

In(bs) == [boxes |-> bs, flags |-> 0]

\* Empty; one message in both folders; two in one folder; one in each.
FewMails == { [m \in Emails |-> NULL],
              [m \in Emails |-> IF m = 1 THEN In(Two) ELSE NULL],
              [m \in Emails |-> In({b1})],
              [m \in Emails |-> IF m = 1 THEN In({b1}) ELSE In({b2})] }

\* A new cache and one folder opened (with a restart, or with a token grown too
\* old), and an account whose folders have both been opened before.
SteadyScenarios ==
  { [fresh |-> TRUE,  open |-> {b1}, crashes |-> 1, fails |-> 0, forgets |-> 0],
    [fresh |-> TRUE,  open |-> {b1}, crashes |-> 0, fails |-> 1, forgets |-> 1],
    [fresh |-> FALSE, open |-> Two,  crashes |-> 1, fails |-> 0, forgets |-> 0] }

\* A new cache, two folders to open, nothing that goes wrong.
TwoFolders ==
  { [fresh |-> TRUE, open |-> Two, crashes |-> 0, fails |-> 0, forgets |-> 0] }
=============================================================================
