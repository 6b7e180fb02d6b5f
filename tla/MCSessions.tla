----------------------------- MODULE MCSessions -----------------------------
(* The runs of CalendarSessions.  Two requests are enough for every race   *)
(* of a read with a commit; requests are interchangeable.                  *)
EXTENDS CalendarSessions, MCCalendarData

CONSTANTS q1, q2

Symmetric == Permutations(Requests)

\* A user files a row, or withdraws its SRN.
RacePatches == {[status |-> "filed"], [srn |-> None], [srn |-> srn1]}
AnyPatch == {[status |-> "in_progress"]}
=============================================================================
