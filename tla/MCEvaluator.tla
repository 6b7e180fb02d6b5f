---------------------------- MODULE MCEvaluator ----------------------------
(***************************************************************************)
(* Small datasets for Evaluator.  turnover is this year's and the one of   *)
(* the year before, tp the transfer pricing flag, category a text.         *)
(***************************************************************************)
EXTENDS Evaluator

CONSTANTS turnover, before, tp, category, private, public, x1

Test1(a, o, v) == [kind |-> "attr", attr |-> a, op |-> o, value |-> v]
Always == [kind |-> "always"]
Large == Test1(turnover, "gte", 5)
LargeBefore == Test1(before, "gt", 5)
Tp == Test1(tp, "eq", 1)
Untyped == Test1(category, "lt", 5)
Private == [kind |-> "attr", attr |-> category, op |-> "in", among |-> {private}]
NotPrivate == [kind |-> "not", of |-> Private]
SmallPrivate == [kind |-> "all", of |-> {Private, Test1(turnover, "lt", 5)}]
Csr == [kind |-> "any", of |-> {LargeBefore, [kind |-> "all", of |-> {Large, Tp}]}]
MCPreds == {Always, Large, LargeBefore, Tp, Untyped, Private, NotPrivate, SmallPrivate,
            Test1(turnover, "lt", 5), Csr, [kind |-> "all", of |-> {Large, Tp}]}

MCValues == [a \in Attrs |-> IF a = category THEN {private, public}
                             ELSE IF a = tp THEN {0, 1} ELSE {2, 9}]

AgmAnchor == <<[at |-> "agm_date"]>>
AgmOrLate == <<[at |-> "agm_date"], [at |-> "fy_end", plus |-> 6]>>
Days30 == [type |-> "days", amount |-> 30]
Months(n) == [type |-> "months", amount |-> n]
Fixed(y, m, d) == [type |-> "fixed", year |-> y, month |-> m, day |-> d]

R(code, applies, anchor, offset) ==
    [code |-> code, applicability |-> applies, anchor |-> anchor, offset |-> offset,
     variants |-> <<>>, occurrences |-> <<>>, supersedes |-> {}, subject |-> "company",
     phase |-> 1]

General == R("B", Always, AgmAnchor, Days30)
Specific == [R("A", SmallPrivate, AgmOrLate, Months(5)) EXCEPT !.supersedes = {"B"}]
Later == [R("C", Csr, AgmAnchor, Months(1)) EXCEPT !.supersedes = {"B"}]
\* Two variants over half-yearly occurrences.
Itr == [R("D", NotPrivate, <<[at |-> "fixed_date"]>>, None) EXCEPT
    !.occurrences = <<[label |-> "H1", offset |-> Fixed(-1, 10, 31)],
                      [label |-> "H2", offset |-> Fixed(0, 4, 30)]>>,
    !.variants = <<[when |-> Tp, offset |-> Fixed(0, 11, 30)],
                   [when |-> Large, offset |-> Fixed(1, 1, 31)]>>]
Kyc == [R("E", Large, <<[at |-> "fixed_date"]>>, Fixed(0, 9, 30)) EXCEPT !.subject = "director"]
Kyc2 == [R("E", Always, <<>>, None) EXCEPT !.subject = "director"]
Odd == [R("F", Untyped, <<[at |-> "fy_end", plus |-> 0]>>, Months(6)) EXCEPT !.supersedes = {"B"}]
NotYet == [R("G", Always, <<>>, None) EXCEPT !.phase = 2]

MCDatasets == {<<Specific, General, Later>>, <<General, Later, Odd>>,
               <<Itr, Kyc>>, <<General, Kyc2, NotYet>>}

MCExtensions == <<[rule |-> "B", ref |-> "x", applies |-> Tp],
                  [rule |-> "B", ref |-> "y", applies |-> Large],
                  [rule |-> "E", ref |-> "z", applies |-> Always]>>

MCAgms == {On(2026, 3, 31), On(2026, 8, 31), On(2027, 3, 31)}
MCAllocations == {On(2026, 3, 31), On(2026, 4, 1)}

\* tests/unit/test_evaluator.py: an AGM and 30 days; and across a leap February.
ASSUME GoldenDates ==
    /\ AddDays(On(2026, 9, 30), 30) = On(2026, 10, 30)
    /\ AddDays(On(2027, 12, 31), 60) = On(2028, 2, 29)
=============================================================================
