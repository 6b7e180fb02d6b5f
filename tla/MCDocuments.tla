---------------------------- MODULE MCDocuments ----------------------------
(* One board meeting whose pack is a notice and the minutes. *)
EXTENDS Documents, TLC

CONSTANTS board, notice, minutes, d1, q1, q2

Packs == [type \in {board} |-> <<notice, minutes>>]
NoticeChanges == [c \in {notice, minutes} |-> IF c = notice THEN 2 ELSE 1]
Symmetric == Permutations({q1, q2})
=============================================================================
