------------------------------ MODULE MCPapers ------------------------------
(* Two LLPs, one (fy, form), and three requests that overlap.              *)
EXTENDS Papers, TLC

CONSTANTS i1, i2, l1, l2, q1, q2, q3

requests == Permutations(Requests)
=============================================================================
