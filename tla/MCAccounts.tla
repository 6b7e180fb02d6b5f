----------------------------- MODULE MCAccounts ----------------------------
(* One browser, two tabs of which may send a request at the same time. *)
EXTENDS Accounts, TLC

CONSTANTS b1, q1, q2, e1, e2

Symmetric == Permutations({q1, q2})
=============================================================================
