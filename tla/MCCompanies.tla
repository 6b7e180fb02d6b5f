---------------------------- MODULE MCCompanies ----------------------------
(* Two CINs: one typed or imported, one only imported; two files that list *)
(* them in opposite orders.                                                *)
EXTENDS Companies, TLC

CONSTANTS c1, c2, q1, q2

MCNames == {"n1", "n2"}
MCFiles == {<<[cin |-> c1, name |-> "n1"], [cin |-> c2, name |-> "n1"]>>,
            <<[cin |-> c2, name |-> "n2"], [cin |-> c1, name |-> "n1"]>>}
=============================================================================
