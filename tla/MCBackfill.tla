----------------------------- MODULE MCBackfill -----------------------------
(* Backfill for TLC: one folder whose history is longer than the head page.  *)
EXTENDS Backfill, TLC

CONSTANT b1

One == {b1}

Full(n) == [m \in Emails |-> IF m <= n THEN [boxes |-> One, flags |-> 0] ELSE NULL]

\* All ids but the newest are there; the newest may still arrive.
History == { Full(Cardinality(Emails) - 1) }

NoLimit == {NULL, 2}

\* A new cache: with a restart, or with a failed request and a token grown too
\* old, at any moment.
Walks ==
  { [fresh |-> TRUE,  open |-> One, crashes |-> 1, fails |-> 0, forgets |-> 0],
    [fresh |-> TRUE,  open |-> One, crashes |-> 0, fails |-> 1, forgets |-> 1] }
=============================================================================
