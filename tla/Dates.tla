------------------------------- MODULE Dates -------------------------------
(***************************************************************************)
(* Calendar dates, the financial year and the two ways a due date is       *)
(* computed (rules/dates.py).  A financial year is its ending year.        *)
(***************************************************************************)
EXTENDS Integers, Sequences

CONSTANT None  \* Python None

IsLeap(y) == y % 4 = 0 /\ (y % 100 # 0 \/ y % 400 = 0)

DaysIn(y, m) == CASE m \in {4, 6, 9, 11} -> 30
                  [] m = 2               -> IF IsLeap(y) THEN 29 ELSE 28
                  [] OTHER               -> 31

On(y, m, d) == [year |-> y, month |-> m, day |-> d]

IsDate(d) == /\ DOMAIN d = {"year", "month", "day"}
             /\ d.year \in Int /\ d.month \in 1..12 /\ d.day \in 1..DaysIn(d.year, d.month)

\* d1 < d2.
Before(d1, d2) ==
    \/ d1.year < d2.year
    \/ d1.year = d2.year /\ d1.month < d2.month
    \/ d1.year = d2.year /\ d1.month = d2.month /\ d1.day < d2.day

FyEnd(fy) == On(fy, 3, 31)

\* Mutant: no clamping at the end of the month.
AddMonthsUnclamped(d, months) ==
    LET m == d.month - 1 + months IN On(d.year + m \div 12, (m % 12) + 1, d.day)

\* The day is clamped to the length of the month.
AddMonths(d, months) ==
    LET m == d.month - 1 + months
        last == DaysIn(d.year + m \div 12, (m % 12) + 1)
    IN  On(d.year + m \div 12, (m % 12) + 1, IF d.day <= last THEN d.day ELSE last)

\* Days up to the first of a month, and up to a date.
DaysBefore(y, m) == <<0, 31, 59, 90, 120, 151, 181, 212, 243, 273, 304, 334>>[m]
                    + IF m > 2 /\ IsLeap(y) THEN 1 ELSE 0

Ordinal(d) == LET y == d.year - 1
              IN  365 * y + y \div 4 - y \div 100 + y \div 400
                  + DaysBefore(d.year, d.month) + d.day

\* The date that many days later: the month it falls in, and the day there.
AddDays(d, days) ==
    LET First(k) == AddMonths([d EXCEPT !.day = 1], k)
        Day(k) == Ordinal(d) + days - Ordinal(First(k)) + 1
        k == CHOOSE k \in 0..days : Day(k) \in 1..DaysIn(First(k).year, First(k).month)
    IN  [First(k) EXCEPT !.day = Day(k)]

-----------------------------------------------------------------------------
(* An anchor is an ordered list of entries: [at |-> "agm_date"],           *)
(* [at |-> "fy_end", plus |-> months] and [at |-> "fixed_date"].           *)

\* Only an AGM of this year's cycle counts.
InCycle(agm, fy) ==
    agm # None /\ Before(FyEnd(fy), agm) /\ ~Before(AddMonths(FyEnd(fy), 12), agm)

Anchor(entry, agm, fy) ==
    CASE entry.at = "agm_date"   -> IF InCycle(agm, fy) THEN agm ELSE None
      [] entry.at = "fy_end"     -> AddMonths(FyEnd(fy), entry.plus)
      [] entry.at = "fixed_date" -> FyEnd(fy)

Resolved(spec, agm, fy) == {n \in DOMAIN spec : Anchor(spec[n], agm, fy) # None}

\* The first entry that resolves, None when none does.
ResolveAnchor(spec, agm, fy) ==
    IF Resolved(spec, agm, fy) = {} THEN None
    ELSE LET n == CHOOSE n \in Resolved(spec, agm, fy) : \A k \in Resolved(spec, agm, fy) : n <= k
         IN  Anchor(spec[n], agm, fy)

\* A fixed offset carries its own month and day and needs no anchor; year is
\* -1, 0 or 1 for fy_start_year, fy_end_year and fy_end_year_plus_1.
ApplyOffset(offset, anchor, fy) ==
    IF offset.type = "fixed" THEN On(fy + offset.year, offset.month, offset.day)
    ELSE IF anchor = None THEN None
    ELSE IF offset.type = "days" THEN AddDays(anchor, offset.amount)
    ELSE AddMonths(anchor, offset.amount)

=============================================================================
