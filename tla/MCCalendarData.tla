--------------------------- MODULE MCCalendarData ---------------------------
(***************************************************************************)
(* Constants shared by the calendar runs.  A payload is a number of days   *)
(* from the anchor and a fact the AGM day (0 = no AGM yet), so two payloads *)
(* never give the same date and DateTraces can tell their dates apart.     *)
(***************************************************************************)
EXTENDS CalendarData, TLC

CONSTANTS s1, s2, r1, r2, e1, e2, e3, exec, manager, srn1, note1

OneRule == [s \in {s1} |-> r1]

\* Payloads 1 and 2 are offsets from the AGM; without one, the first waits for
\* its anchor and the second does not apply.
MCEvaluate == [x \in Slots \X Payloads \X Facts |->
    IF x[2] = 2 /\ x[3] = 0 THEN None
    ELSE IF x[3] = 0 THEN [due |-> None, flag |-> TRUE, why |-> "missing_anchor"]
    ELSE [due |-> x[3] + x[2], flag |-> FALSE, why |-> None]]

\* The second payload of r2 supersedes r1 until there is an AGM; then it may or may not.
MCSupersede == [x \in [Rules -> Optional(Payloads)] \X Facts |-> [s \in Slots |->
    IF r2 \notin Rules THEN "keep"
    ELSE IF x[1][r2] # 2 \/ RuleOf[s] # r1 THEN "keep"
    ELSE IF x[2] = 0 THEN "drop" ELSE "flag"]]

NoExt == [e \in {} |-> None]
OwnRuleOne == [e \in {e1} |-> r1]
OwnRefOne == [e \in {e1} |-> "ref1"]
\* One circular extends both rules, another only r2.
TwoRulesExt == (e1 :> r1) @@ (e2 :> r2) @@ (e3 :> r2)
SharedRef == (e1 :> "ref1") @@ (e2 :> "ref1") @@ (e3 :> "ref2")
\* e1 applies for sure once the AGM fact is known; the others to everyone.
MCApplies == [x \in Extensions \X Facts |->
    IF x[1] # e1 THEN "TRUE" ELSE IF x[2] = 0 THEN "UNKNOWN" ELSE "TRUE"]

CalendarPatches == {[status |-> "filed"], [srn |-> None], [ack |-> TRUE], [ack |-> FALSE],
                    [srn |-> srn1, assignee |-> exec]}
=============================================================================
