---------------------------- MODULE MCReminders ----------------------------
(* The runs of Reminders: two calendar rows, and a token.                  *)
EXTENDS Reminders, TLC

CONSTANTS row, lone, token

P(open, due, days, reachable) ==
    [open |-> open, due |-> due, days |-> days, reachable |-> reachable]

\* A row whose due date moves between the two days and that then has nobody to
\* write to, and beside it a row that never has anybody.
RowProfiles == [s \in {row, lone} |->
    IF s = row THEN {P(TRUE, 0, {0}, TRUE), P(TRUE, 1, {0}, FALSE)}
    ELSE {P(TRUE, 0, {0}, FALSE)}]

\* A token whose expiry is cleared and set again.
TokenProfiles == [s \in {token} |-> {P(TRUE, 1, {1}, TRUE), P(TRUE, None, {1}, TRUE)}]

RequestSymmetry == Permutations(Requests)
=============================================================================
