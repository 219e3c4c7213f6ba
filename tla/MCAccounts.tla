---------------------------- MODULE MCAccounts ----------------------------
(* Two accounts that may come to share a login, for TLC. *)
EXTENDS Accounts, TLC

CONSTANTS l1, l2, p1

MCIds       == {1, 2}
MCLogins    == {l1, l2}
MCPasswords == {p1}
MCFlaky     == {TRUE, FALSE}
Symmetry    == Permutations(MCLogins)
=============================================================================
