---------------------------- MODULE MCRegisters ----------------------------
\* The runs of Registers.
EXTENDS Registers, TLC

CONSTANTS k1, k2, q1, q2, q3

Symmetric == Permutations(Requests) \cup Permutations(Keys)
=============================================================================
