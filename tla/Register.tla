------------------------------ MODULE Register ------------------------------
(***************************************************************************)
(* What a statutory register promises (PRD section 8): every entry is one  *)
(* chain of versions that only grows; a version is amended by somebody who *)
(* had loaded it; a deletion is a last version that keeps the payload.     *)
(***************************************************************************)
EXTENDS Naturals, Sequences

CONSTANTS Keys, Payloads

VARIABLE chain  \* [Keys -> Seq(Entry)]: the versions of each entry, in order

Entry == [payload: Payloads, deleted: BOOLEAN]

Init == chain = [k \in Keys |-> <<>>]

Live(k) == chain[k] # <<>> /\ ~chain[k][Len(chain[k])].deleted

Appends(k, payload, deleted) ==
    chain' = [chain EXCEPT ![k] = Append(@, [payload |-> payload, deleted |-> deleted])]

Create(k) == chain[k] = <<>> /\ \E p \in Payloads : Appends(k, p, FALSE)

\* The caller names the version it amends: it must still be the last one.
Amend(k, expected) ==
    /\ Live(k) /\ expected = Len(chain[k])
    /\ \E p \in Payloads : Appends(k, p, FALSE)

Delete(k) == Live(k) /\ Appends(k, chain[k][Len(chain[k])].payload, TRUE)

Next == \E k \in Keys : Create(k) \/ Delete(k) \/ \E n \in 1..Len(chain[k]) : Amend(k, n)

Spec == Init /\ [][Next]_chain

=============================================================================
