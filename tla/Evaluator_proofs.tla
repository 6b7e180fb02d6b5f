-------------------------- MODULE Evaluator_proofs --------------------------
(***************************************************************************)
(* Theorems of the rules engine, for every dataset, every attribute and    *)
(* every date.  evaluate recurs over the parts of a predicate, and         *)
(* supersession, extensions and the months of a day offset are loops:      *)
(* their results come by induction on the depth of a predicate and on the  *)
(* number of steps (Induction).                                            *)
(***************************************************************************)
EXTENDS Evaluator, WellFoundedInduction, TLAPS

-----------------------------------------------------------------------------
(* Induction on the naturals, for sets: the library's order on them is     *)
(* well-founded, so a set of counterexamples has a least one.              *)

Less == {pair \in Nat \X Nat : pair[1] < pair[2]}

\* The library's theorem on the order of the naturals, for a set of pairs.
LEMMA LessFounded == IsWellFoundedOn(Less, Nat)
<1>1. IsWellFoundedOn(OpToRel(<, Nat), Nat)
    BY NatLessThanWellFounded
<1> QED
    BY <1>1, Zenon DEF OpToRel, Less

\* A set of naturals that is not empty has a least element.
LEMMA Least ==
    ASSUME NEW T \in SUBSET Nat, T # {}
    PROVE  \E n \in T : \A m \in T : n <= m
<1>1. PICK n \in T : \A m \in T : <<m, n>> \notin Less
    BY LessFounded, WFMin
<1>2. \A m \in T : ~(m < n)
    BY <1>1 DEF Less
<1> QED
    BY <1>2

\* A set that has 0 and the successors of its numbers has every natural.
LEMMA Induction ==
    ASSUME NEW T, 0 \in T, \A n \in Nat : n \in T => n + 1 \in T
    PROVE  \A n \in Nat : n \in T
<1> SUFFICES ASSUME Nat \ T # {} PROVE FALSE
    OBVIOUS
<1>1. PICK n \in Nat \ T : \A m \in Nat \ T : n <= m
    BY Least
<1>2. n - 1 \in Nat /\ n - 1 < n /\ (n - 1) + 1 = n
    BY <1>1
<1> QED
    BY <1>1, <1>2

-----------------------------------------------------------------------------
(* Predicates: the recursion of evaluate is well-founded.                  *)

\* The value of a node depends on the answers for its parts only.
LEMMA ValueOfParts ==
    ASSUME NEW p \in Preds, NEW attrs, NEW f, NEW g, \A part \in Parts(p) : f[part] = g[part]
    PROVE  Value(f, p, attrs) = Value(g, p, attrs)
<1>1. CASE p.kind \in {"all", "any"}
    <2>1. {f[part] : part \in p.of} = {g[part] : part \in p.of}
        BY <1>1 DEF Parts
    <2> QED
        BY <1>1, <2>1 DEF Value
<1>2. CASE p.kind = "not"
    BY <1>2 DEF Parts, Value
<1>3. CASE p.kind \notin {"all", "any", "not"}
    BY <1>3, PredsClosed DEF Value, Kinds
<1> QED
    BY <1>1, <1>2, <1>3

\* A function with the answers exists, by induction on the depth.
LEMMA EvaluationExists ==
    ASSUME NEW attrs
    PROVE  \E f : f = [p \in Preds |-> Value(f, p, attrs)]
<1>1. PICK depth \in [Preds -> 0..Nesting] :
          \A p \in Preds : \A part \in Parts(p) : depth[part] < depth[p]
    BY PredsFounded
<1> DEFINE Below(n) == {p \in Preds : depth[p] < n}
           T == {n \in Nat : \E f : f = [p \in Below(n) |-> Value(f, p, attrs)]}
<1>2. 0 \in T
    <2>1. Below(0) = {}
        BY <1>1, PredsFounded
    <2> DEFINE f == [p \in Below(0) |-> 0]
    <2>2. f = [p \in Below(0) |-> Value(f, p, attrs)]
        BY <2>1
    <2> QED
        BY <2>2
<1>3. ASSUME NEW n \in Nat, n \in T PROVE n + 1 \in T
    <2>1. PICK f : f = [p \in Below(n) |-> Value(f, p, attrs)]
        BY <1>3
    <2> DEFINE g == [p \in Below(n + 1) |-> IF p \in Below(n) THEN f[p] ELSE Value(f, p, attrs)]
    <2>2. ASSUME NEW p \in Below(n + 1) PROVE g[p] = Value(g, p, attrs)
        <3>1. Below(n) \subseteq Below(n + 1)
            BY <1>1, PredsFounded
        <3>2. \A part \in Parts(p) : part \in Below(n)
            BY <1>1, PredsClosed, PredsFounded
        <3>3. \A part \in Parts(p) : f[part] = g[part]
            BY <3>1, <3>2
        <3>4. Value(f, p, attrs) = Value(g, p, attrs)
            BY <3>3, ValueOfParts
        <3>5. g[p] = Value(f, p, attrs)
            BY <2>1
        <3> QED
            BY <3>4, <3>5
    <2>3. g = [p \in Below(n + 1) |-> Value(g, p, attrs)]
        BY <2>2
    <2> HIDE DEF g, Below
    <2> QED
        BY <2>3
<1>4. Nesting + 1 \in T
    <2> HIDE DEF T
    <2> QED
        BY <1>2, <1>3, Induction, PredsFounded
<1>5. Below(Nesting + 1) = Preds
    BY <1>1, PredsFounded
<1> QED
    BY <1>4, <1>5

(* evaluate answers for a node from the answers for its parts.             *)
LEMMA EvaluationDefined ==
    ASSUME NEW attrs
    PROVE  Evaluation(attrs) = [p \in Preds |-> Value(Evaluation(attrs), p, attrs)]
<1>1. Evaluation(attrs) = CHOOSE f : f = [p \in Preds |-> Value(f, p, attrs)]
    BY DEF Evaluation
<1> QED
    BY <1>1, EvaluationExists, Zenon

\* A node has one of the three values when its parts have.
LEMMA ValueTri ==
    ASSUME NEW p \in Preds, NEW attrs, NEW f, \A part \in Parts(p) : f[part] \in Tri
    PROVE  Value(f, p, attrs) \in Tri
<1>1. CASE p.kind \in {"always", "all", "any"}
    BY <1>1 DEF Value, AllOf, AnyOf, Tri
<1>2. CASE p.kind = "not"
    BY <1>2 DEF Value, Negation, Tri
<1>3. CASE p.kind = "attr"
    <2>1. \A v : Compared(p, v) \in Tri
        BY DEF Compared, Test, Tri
    <2> QED
        BY <1>3, <2>1 DEF Value, Leaf, Tri
<1> QED
    BY <1>1, <1>2, <1>3, PredsClosed DEF Kinds

\* The attributes of new are those of old, and perhaps more.
Learnt(old, new) == \A a \in Attrs : old[a] = Absent \/ new[a] = old[a]

\* An answer may settle, and a settled one stays.
Settles(t, u) == t = "UNKNOWN" \/ u = t

\* A node whose parts only settle can only settle (Kleene's operators are monotone).
LEMMA ValueSettles ==
    ASSUME NEW p \in Preds, NEW old, NEW new, Learnt(old, new), NEW f, NEW g,
           \A part \in Parts(p) : f[part] \in Tri /\ Settles(f[part], g[part])
    PROVE  Settles(Value(f, p, old), Value(g, p, new))
<1>1. CASE p.kind = "all"
    <2> DEFINE F == {f[part] : part \in p.of}
               G == {g[part] : part \in p.of}
    <2>1. \A part \in p.of : f[part] \in Tri /\ Settles(f[part], g[part])
        BY <1>1 DEF Parts
    <2>2. "FALSE" \in F => "FALSE" \in G
        BY <2>1 DEF Settles
    <2>3. "FALSE" \notin F /\ "UNKNOWN" \notin F => "FALSE" \notin G /\ "UNKNOWN" \notin G
        BY <2>1 DEF Settles
    <2>4. Value(f, p, old) = AllOf(F) /\ Value(g, p, new) = AllOf(G)
        BY <1>1 DEF Value
    <2> HIDE DEF F, G
    <2> QED
        BY <2>2, <2>3, <2>4 DEF Settles, AllOf
<1>2. CASE p.kind = "any"
    <2> DEFINE F == {f[part] : part \in p.of}
               G == {g[part] : part \in p.of}
    <2>1. \A part \in p.of : f[part] \in Tri /\ Settles(f[part], g[part])
        BY <1>2 DEF Parts
    <2>2. "TRUE" \in F => "TRUE" \in G
        BY <2>1 DEF Settles
    <2>3. "TRUE" \notin F /\ "UNKNOWN" \notin F => "TRUE" \notin G /\ "UNKNOWN" \notin G
        BY <2>1 DEF Settles
    <2>4. Value(f, p, old) = AnyOf(F) /\ Value(g, p, new) = AnyOf(G)
        BY <1>2 DEF Value
    <2> HIDE DEF F, G
    <2> QED
        BY <2>2, <2>3, <2>4 DEF Settles, AnyOf
<1>3. CASE p.kind = "not"
    <2>1. f[p.of] \in Tri /\ Settles(f[p.of], g[p.of])
        BY <1>3 DEF Parts
    <2> QED
        BY <1>3, <2>1 DEF Value, Negation, Settles, Tri
<1>4. CASE p.kind = "attr"
    <2>1. old[p.attr] = Absent \/ new[p.attr] = old[p.attr]
        BY <1>4, PredsClosed DEF Learnt
    <2> QED
        BY <1>4, <2>1 DEF Value, Leaf, Settles
<1>5. CASE p.kind = "always"
    BY <1>5 DEF Value, Settles
<1> QED
    BY <1>1, <1>2, <1>3, <1>4, <1>5, PredsClosed DEF Kinds

(* Kleene's logic: a new fact never changes an answer that was settled.    *)
LEMMA AnswersSettle ==
    ASSUME NEW old, NEW new, Learnt(old, new)
    PROVE  \A p \in Preds : /\ Evaluation(old)[p] \in Tri
                            /\ Settles(Evaluation(old)[p], Evaluation(new)[p])
<1> DEFINE f == Evaluation(old)
           g == Evaluation(new)
           Good(p) == f[p] \in Tri /\ Settles(f[p], g[p])
<1>1. PICK depth \in [Preds -> 0..Nesting] :
          \A p \in Preds : \A part \in Parts(p) : depth[part] < depth[p]
    BY PredsFounded
<1>2. \A p \in Preds : f[p] = Value(f, p, old) /\ g[p] = Value(g, p, new)
    BY EvaluationDefined
<1> HIDE DEF f, g
<1> DEFINE T == {n \in Nat : \A p \in Preds : depth[p] < n => Good(p)}
<1>3. 0 \in T
    BY <1>1, PredsFounded
<1>4. ASSUME NEW n \in Nat, n \in T PROVE n + 1 \in T
    <2> SUFFICES ASSUME NEW p \in Preds, depth[p] < n + 1 PROVE Good(p)
        OBVIOUS
    <2>1. \A part \in Parts(p) : Good(part)
        BY <1>1, <1>4, PredsClosed, PredsFounded
    <2>2. Value(f, p, old) \in Tri
        BY <2>1, ValueTri
    <2>3. Settles(Value(f, p, old), Value(g, p, new))
        BY <2>1, ValueSettles
    <2> QED
        BY <1>2, <2>2, <2>3
<1>5. Nesting + 1 \in T
    <2> HIDE DEF T
    <2> QED
        BY <1>3, <1>4, Induction, PredsFounded
<1>6. \A p \in Preds : depth[p] < Nesting + 1
    BY <1>1, PredsFounded
<1> QED
    BY <1>5, <1>6 DEF f, g

-----------------------------------------------------------------------------
(* Dates.                                                                  *)

LEMMA MonthLengths ==
    ASSUME NEW y \in Int, NEW m \in 1..12
    PROVE  DaysIn(y, m) \in 28..31
BY DEF DaysIn, IsLeap

\* add_months clamps to the end of the month: the result is a date.
LEMMA AddMonthsDate ==
    ASSUME NEW d \in Days, NEW months \in Int
    PROVE  AddMonths(d, months) \in Days
<1> DEFINE m == d.month - 1 + months
           y == d.year + m \div 12
           n == (m % 12) + 1
<1>1. d.year \in Int /\ d.month \in 1..12 /\ d.day \in 1..31 /\ m \in Int
    BY DEF Days
<1>2. y \in Int /\ n \in 1..12
    BY <1>1
<1>3. DaysIn(y, n) \in 28..31
    BY <1>2, MonthLengths
<1> HIDE DEF m, y, n
<1> DEFINE day == IF d.day <= DaysIn(y, n) THEN d.day ELSE DaysIn(y, n)
<1>4. day \in 1..DaysIn(y, n) /\ day \in 1..31
    BY <1>1, <1>3
<1>5. On(y, n, day) \in Days
    BY <1>2, <1>4, Zenon DEF On, Days, IsDate
<1> QED
    BY <1>5 DEF AddMonths, m, y, n

\* 31 March is a date.
LEMMA FyEndDate == FyEnd(Fy) \in Days
BY FactsTyped DEF FyEnd, On, Days, IsDate, DaysIn

\* The first of the month, k months after the one of d.
FirstOf(d, k) == AddMonths([d EXCEPT !.day = 1], k)

\* The first of every later month is a date, and no clamping is needed.
LEMMA Firsts ==
    ASSUME NEW d \in Days, NEW k \in Nat
    PROVE  LET m == d.month - 1 + k IN
           /\ FirstOf(d, k) = On(d.year + m \div 12, (m % 12) + 1, 1)
           /\ FirstOf(d, k) \in Days
<1> DEFINE e == [d EXCEPT !.day = 1]
<1>1. /\ d.year \in Int /\ d.month \in 1..12
      /\ e = [year |-> d.year, month |-> d.month, day |-> 1]
    BY DEF Days
<1>2. DaysIn(d.year, d.month) \in 28..31
    BY <1>1, MonthLengths
<1>3. e \in Days
    <2>1. e.year = d.year /\ e.month = d.month /\ e.day = 1 /\ DOMAIN e = {"year", "month", "day"}
        BY <1>1
    <2>2. e \in [year: Int, month: 1..12, day: 1..31]
        BY <1>1
    <2>3. 1 \in 1..DaysIn(d.year, d.month)
        BY <1>2
    <2> QED
        BY <1>1, <2>1, <2>2, <2>3, Zenon DEF Days, IsDate
<1>4. FirstOf(d, k) \in Days
    BY <1>3, AddMonthsDate DEF FirstOf
<1> DEFINE m == d.month - 1 + k
           last == DaysIn(d.year + m \div 12, (m % 12) + 1)
<1>5. last \in 28..31
    <2>1. d.year + m \div 12 \in Int /\ (m % 12) + 1 \in 1..12
        BY <1>1
    <2> QED
        BY <2>1, MonthLengths
<1>6. (IF 1 <= last THEN 1 ELSE last) = 1
    BY <1>5
<1> HIDE DEF last
<1>7. FirstOf(d, k) = On(d.year + m \div 12, (m % 12) + 1, IF 1 <= last THEN 1 ELSE last)
    BY <1>1 DEF FirstOf, AddMonths, last
<1> QED
    BY <1>4, <1>6, <1>7

LEMMA DaysBeforeInt ==
    ASSUME NEW y \in Int, NEW m \in 1..12
    PROVE  DaysBefore(y, m) \in Int
BY DEF DaysBefore

\* The first of a month comes after all the days of the one before.
LEMMA NextMonth ==
    ASSUME NEW y \in Int, NEW m \in 1..11
    PROVE  Ordinal(On(y, m + 1, 1)) = Ordinal(On(y, m, 1)) + DaysIn(y, m)
<1>1. DaysBefore(y, m + 1) = DaysBefore(y, m) + DaysIn(y, m)
    BY DEF DaysBefore, DaysIn
<1>2. DaysBefore(y, m) \in Int /\ DaysIn(y, m) \in Int
    <2>1. m \in 1..12
        OBVIOUS
    <2>2. DaysIn(y, m) \in 28..31
        BY <2>1, MonthLengths
    <2>3. DaysBefore(y, m) \in Int
        BY <2>1, DaysBeforeInt, Zenon
    <2> QED
        BY <2>2, <2>3
<1> QED
    BY <1>1, <1>2 DEF Ordinal, On

\* So does the first of January, whatever the year.
LEMMA NextYear ==
    ASSUME NEW y \in Int
    PROVE  Ordinal(On(y + 1, 1, 1)) = Ordinal(On(y, 12, 1)) + 31
<1>1. /\ DaysBefore(y + 1, 1) = 0
      /\ DaysBefore(y, 12) = 334 + IF IsLeap(y) THEN 1 ELSE 0
    BY DEF DaysBefore
<1> DEFINE q(n) == y \div n - (y - 1) \div n
<1>2. q(4) = IF y % 4 = 0 THEN 1 ELSE 0
    OBVIOUS
<1>3. q(100) = IF y % 100 = 0 THEN 1 ELSE 0
    OBVIOUS
<1>4. q(400) = IF y % 400 = 0 THEN 1 ELSE 0
    OBVIOUS
<1>5. (y % 400 = 0 => y % 100 = 0) /\ (y % 100 = 0 => y % 4 = 0)
    OBVIOUS
<1>6. q(4) - q(100) + q(400) = IF IsLeap(y) THEN 1 ELSE 0
    BY <1>2, <1>3, <1>4, <1>5 DEF IsLeap
<1>7. (y + 1) - 1 = y
    OBVIOUS
<1> QED
    BY <1>1, <1>6, <1>7 DEF Ordinal, On

LEMMA OrdinalInt ==
    ASSUME NEW d \in Days
    PROVE  Ordinal(d) \in Int
<1>1. d.year \in Int /\ d.month \in 1..12 /\ d.day \in 1..31
    BY DEF Days
<1>2. DaysBefore(d.year, d.month) \in Int
    BY <1>1, DaysBeforeInt, Zenon
<1> QED
    BY <1>1, <1>2 DEF Ordinal

\* A twelfth month carries into the year.
LEMMA MonthCarry ==
    ASSUME NEW n \in Nat
    PROVE  /\ n % 12 < 11 => (n + 1) \div 12 = n \div 12 /\ (n + 1) % 12 = (n % 12) + 1
           /\ n % 12 = 11 => (n + 1) \div 12 = n \div 12 + 1 /\ (n + 1) % 12 = 0
OBVIOUS

\* The month after k months is one month later.
LEMMA NextFirst ==
    ASSUME NEW d \in Days, NEW k \in Nat
    PROVE  LET f == FirstOf(d, k) IN
               Ordinal(FirstOf(d, k + 1)) = Ordinal(f) + DaysIn(f.year, f.month)
<1> DEFINE n == d.month - 1 + k
           y == d.year + n \div 12
           m == (n % 12) + 1
<1>1. d.year \in Int /\ d.month \in 1..12
    BY DEF Days
<1>2. y \in Int /\ m \in 1..12
    BY <1>1
<1>3. FirstOf(d, k) = On(y, m, 1)
    BY Firsts
<1>4. FirstOf(d, k + 1) = On(d.year + (n + 1) \div 12, ((n + 1) % 12) + 1, 1)
    <2>1. k + 1 \in Nat /\ d.month - 1 + (k + 1) = n + 1
        BY <1>1
    <2> QED
        BY <2>1, Firsts
<1>7. n \in Nat /\ n % 12 \in 0..11 /\ n \div 12 \in Int
    BY <1>1
<1> HIDE DEF n
<1>5. CASE m < 12
    <2>1. d.year + (n + 1) \div 12 = y /\ ((n + 1) % 12) + 1 = m + 1
        BY <1>1, <1>5, <1>7, MonthCarry
    <2>2. m \in 1..11
        BY <1>2, <1>5
    <2>3. Ordinal(On(y, m + 1, 1)) = Ordinal(On(y, m, 1)) + DaysIn(y, m)
        BY <1>2, <2>2, NextMonth, Zenon
    <2>4. On(y, m, 1).year = y /\ On(y, m, 1).month = m
        BY DEF On
    <2> QED
        BY <1>3, <1>4, <2>1, <2>3, <2>4, Zenon
<1>6. CASE m = 12
    <2>1. d.year + (n + 1) \div 12 = y + 1 /\ ((n + 1) % 12) + 1 = 1
        BY <1>1, <1>6, <1>7, MonthCarry
    <2> HIDE DEF m, y
    <2>2. DaysIn(y, 12) = 31
        BY DEF DaysIn
    <2> QED
        BY <1>2, <1>3, <1>4, <1>6, <2>1, <2>2, NextYear DEF On
<1> QED
    BY <1>2, <1>5, <1>6

\* timedelta: the month that a number of days leads to exists.
LEMMA AddDaysDate ==
    ASSUME NEW d \in Days, NEW days \in Nat
    PROVE  AddDays(d, days) \in Days
<1> DEFINE g(k) == Ordinal(FirstOf(d, k))
           len(k) == DaysIn(FirstOf(d, k).year, FirstOf(d, k).month)
           Day(k) == Ordinal(d) + days - g(k) + 1
           end == Ordinal(d) + days
<1>1. \A k \in Nat : g(k) \in Int /\ len(k) \in 28..31 /\ FirstOf(d, k) \in Days
    <2> TAKE k \in Nat
    <2>1. FirstOf(d, k) \in Days
        BY Firsts
    <2>2. FirstOf(d, k).year \in Int /\ FirstOf(d, k).month \in 1..12
        BY <2>1 DEF Days
    <2> QED
        BY <2>1, <2>2, OrdinalInt, MonthLengths
<1>2. \A k \in Nat : g(k + 1) = g(k) + len(k)
    BY NextFirst
<1>3. Ordinal(d) \in Int /\ d.day \in Nat \ {0} /\ d.day <= len(0) /\ Ordinal(d) = g(0) + d.day - 1
    <2>1. d.year \in Int /\ d.month \in 1..12 /\ d.day \in 1..DaysIn(d.year, d.month)
        BY DEF Days, IsDate
    <2>2. FirstOf(d, 0) = On(d.year + (d.month - 1) \div 12, ((d.month - 1) % 12) + 1, 1)
        <3>1. d.month - 1 + 0 = d.month - 1 /\ 0 \in Nat
            BY <2>1
        <3> QED
            BY <3>1, Firsts
    <2>3. d.year + (d.month - 1) \div 12 = d.year /\ ((d.month - 1) % 12) + 1 = d.month
        BY <2>1
    <2>4. FirstOf(d, 0) = On(d.year, d.month, 1)
        BY <2>2, <2>3
    <2>5. DaysIn(d.year, d.month) \in 28..31 /\ DaysBefore(d.year, d.month) \in Int
        BY <2>1, MonthLengths, DaysBeforeInt
    <2> QED
        BY <2>1, <2>4, <2>5 DEF Ordinal, On
<1> HIDE DEF g, len
<1> DEFINE T == {n \in Nat : g(n + 1) > Ordinal(d) + n}
<1>4. days \in T
    <2>1. 0 \in T
        BY <1>1, <1>2, <1>3
    <2>2. ASSUME NEW n \in Nat, n \in T PROVE n + 1 \in T
        <3>1. g((n + 1) + 1) = g(n + 1) + len(n + 1) /\ len(n + 1) \in 28..31 /\ g(n + 1) \in Int
            BY <1>1, <1>2
        <3> QED
            BY <1>3, <2>2, <3>1
    <2> HIDE DEF T
    <2> QED
        BY <2>1, <2>2, Induction
<1> DEFINE Past == {n \in Nat : g(n + 1) > end}
<1>5. PICK k \in Past : \A n \in Past : k <= n
    <2>1. days \in Past
        BY <1>4
    <2> HIDE DEF Past
    <2> QED
        BY <2>1, Least DEF Past
<1>6. k \in 0..days
    BY <1>4, <1>5
<1>7. g(k) <= end
    <2>1. CASE k = 0
        BY <1>1, <1>3, <2>1
    <2>2. CASE k # 0
        <3>1. k - 1 \in Nat /\ (k - 1) + 1 = k /\ ~(k <= k - 1)
            BY <1>5, <2>2
        <3>2. k - 1 \notin Past
            BY <1>5, <3>1
        <3>3. ~(g(k) > end)
            BY <3>1, <3>2
        <3>4. g(k) \in Int /\ end \in Int
            BY <1>1, <1>3, <1>5
        <3> QED
            BY <3>3, <3>4
    <2> QED
        BY <2>1, <2>2
<1>8. Day(k) \in 1..len(k)
    <2>1. k \in Nat /\ g(k + 1) > end /\ g(k + 1) = g(k) + len(k)
        BY <1>2, <1>5
    <2>2. g(k) \in Int /\ len(k) \in 28..31 /\ end \in Int
        BY <1>1, <1>3, <2>1
    <2>3. Ordinal(d) + days - g(k) + 1 = (end - g(k)) + 1
        BY <1>3, <2>2
    <2> HIDE DEF end
    <2>4. (end - g(k)) + 1 \in 1..len(k)
        BY <1>7, <2>1, <2>2
    <2> QED
        BY <2>3, <2>4
<1> DEFINE c == CHOOSE j \in 0..days : Day(j) \in 1..len(j)
<1>9. c \in 0..days /\ Day(c) \in 1..len(c)
    BY <1>6, <1>8
<1>10. AddDays(d, days) = [FirstOf(d, c) EXCEPT !.day = Day(c)]
    BY Zenon DEF AddDays, FirstOf, g, len
<1>11. FirstOf(d, c) \in Days
    BY <1>1, <1>9
<1>12. Day(c) \in 1..31
    <2>1. len(c) \in 28..31
        BY <1>1, <1>9
    <2> QED
        BY <1>9, <2>1
<1> HIDE DEF c
<1> DEFINE f == FirstOf(d, c)
           e == [f EXCEPT !.day = Day(c)]
<1>13. /\ e \in [year: Int, month: 1..12, day: 1..31] /\ DOMAIN e = {"year", "month", "day"}
      /\ e.year = f.year /\ e.month = f.month /\ e.day = Day(c)
      /\ f.year \in Int /\ f.month \in 1..12
    BY <1>11, <1>12 DEF Days
<1>14. e.day \in 1..DaysIn(e.year, e.month)
    BY <1>9, <1>13 DEF len
<1> QED
    BY <1>10, <1>13, <1>14, Zenon DEF Days, IsDate

-----------------------------------------------------------------------------
(* Rows.                                                                   *)

Reasons == {"missing_anchor", "applicability_unknown"}
Row == [code: Codes, label: {""} \cup STRING, subject: {"company", "director"},
        director: Directors \cup {None}, due: Days \cup {None}, ext: STRING \cup {None},
        flag: BOOLEAN, why: Reasons \cup {None}]

\* A row without a date is in the review queue, and a reason says why.
DraftRow == {d \in Row : (d.flag <=> d.why # None) /\ (d.due = None => d.flag)}

Agms == AgmDates \cup {None}
Truths == [Preds -> Tri]

\* A rule of a dataset, and its place.
LEMMA RuleTyped ==
    ASSUME NEW ds \in Datasets, NEW n \in DOMAIN ds
    PROVE  ds[n] \in RuleData /\ n \in Nat \ {0}
BY RulesTyped

\* An entry of an anchor resolves to a date or to nothing.
LEMMA AnchorDate ==
    ASSUME NEW entry \in Entries, NEW date \in Agms
    PROVE  Anchor(entry, date, Fy) \in Days \cup {None}
<1>1. CASE entry \in [at: {"fy_end"}, plus: Int]
    <2>1. entry.at = "fy_end" /\ entry.plus \in Int
        BY <1>1
    <2>2. AddMonths(FyEnd(Fy), entry.plus) \in Days
        BY <2>1, AddMonthsDate, FyEndDate
    <2> QED
        BY <2>1, <2>2 DEF Anchor
<1>2. CASE entry \in [at: {"agm_date", "fixed_date"}]
    <2>1. entry.at \in {"agm_date", "fixed_date"}
        BY <1>2
    <2>2. date \in Days \cup {None}
        BY FactsTyped DEF Agms
    <2> QED
        BY <2>1, <2>2, FyEndDate DEF Anchor
<1> QED
    BY <1>1, <1>2 DEF Entries

\* An anchor resolves to a date or to nothing.
LEMMA ResolvedDate ==
    ASSUME NEW spec \in Seq(Entries), NEW date \in Agms
    PROVE  ResolveAnchor(spec, date, Fy) \in Days \cup {None}
<1> DEFINE S == Resolved(spec, date, Fy)
<1>1. CASE S = {}
    BY <1>1 DEF ResolveAnchor
<1>2. CASE S # {}
    <2>1. S \in SUBSET Nat /\ S \subseteq DOMAIN spec
        BY DEF Resolved
    <2> DEFINE n == CHOOSE n \in S : \A k \in S : n <= k
    <2>2. n \in S
        <3> HIDE DEF S
        <3>1. \E m \in S : \A k \in S : m <= k
            BY <1>2, <2>1, Least
        <3> QED
            BY <3>1
    <2>3. ResolveAnchor(spec, date, Fy) = Anchor(spec[n], date, Fy)
        BY <1>2 DEF ResolveAnchor
    <2> HIDE DEF n, S
    <2>4. spec[n] \in Entries
        BY <2>1, <2>2
    <2> QED
        BY <2>3, <2>4, AnchorDate
<1> QED
    BY <1>1, <1>2

LEMMA DueTyped ==
    ASSUME NEW rule \in RuleData, NEW offset \in Offsets \cup {None}, NEW date \in Agms
    PROVE  DueDate(rule, offset, date) \in Days \cup {None}
<1> DEFINE anchor == ResolveAnchor(rule.anchor, date, Fy)
<1>1. anchor \in Days \cup {None}
    BY ResolvedDate DEF RuleData
<1> HIDE DEF anchor
<1> SUFFICES ASSUME offset # None, offset \in Offsets
             PROVE  ApplyOffset(offset, anchor, Fy) \in Days \cup {None}
    BY DEF DueDate, anchor
<1>2. CASE offset \in [type: {"days"}, amount: Nat]
    <2>1. offset.type = "days" /\ offset.amount \in Nat
        BY <1>2
    <2> QED
        BY <1>1, <2>1, AddDaysDate DEF ApplyOffset
<1>3. CASE offset \in [type: {"months"}, amount: Int]
    <2>1. offset.type = "months" /\ offset.amount \in Int
        BY <1>3
    <2> QED
        BY <1>1, <2>1, AddMonthsDate DEF ApplyOffset
<1>4. CASE /\ offset \in [type: {"fixed"}, year: {-1, 0, 1}, month: 1..12, day: 1..31]
           /\ IsDate(On(Fy + offset.year, offset.month, offset.day))
    <2>1. /\ offset.type = "fixed" /\ offset.year \in Int
          /\ offset.month \in 1..12 /\ offset.day \in 1..31
        BY <1>4
    <2>2. On(Fy + offset.year, offset.month, offset.day) \in Days
        BY <1>4, <2>1, FactsTyped DEF Days, On
    <2> QED
        BY <2>1, <2>2 DEF ApplyOffset
<1> QED
    BY <1>2, <1>3, <1>4 DEF Offsets

\* What a variant, an occurrence or the rule itself specifies.
LEMMA SpecsTyped ==
    ASSUME NEW rule \in RuleData, NEW truth, NEW spec \in OffsetSpecs(rule, truth)
    PROVE  spec.label \in {""} \cup STRING /\ spec.offset \in Offsets \cup {None}
<1> DEFINE Optional == Offsets \cup {None}
<1> DEFINE Variants == [when: Preds, offset: Optional]
           Occurrences == [label: STRING, offset: Optional]
<1>1. rule.offset \in Optional /\ rule.variants \in Seq(Variants) /\ rule.occurrences \in Seq(Occurrences)
    BY DEF RuleData
<1>5. /\ \A v \in Variants : v.offset \in Optional
      /\ \A o \in Occurrences : o.label \in STRING /\ o.offset \in Optional
    OBVIOUS
<1> HIDE DEF Optional, Variants, Occurrences
<1>2. CASE Chosen(rule, truth) # {}
    <2>1. PICK n \in Chosen(rule, truth) : spec = [label |-> "", offset |-> rule.variants[n].offset]
        BY <1>2 DEF OffsetSpecs
    <2>2. n \in DOMAIN rule.variants
        BY DEF Chosen, TrueVariants
    <2>3. rule.variants[n] \in Variants
        BY <1>1, <2>2
    <2> QED
        BY <1>5, <2>1, <2>3 DEF Optional
<1>3. CASE Chosen(rule, truth) = {} /\ rule.occurrences # <<>>
    <2>1. PICK n \in DOMAIN rule.occurrences : spec = rule.occurrences[n]
        BY <1>3 DEF OffsetSpecs
    <2>2. rule.occurrences[n] \in Occurrences
        BY <1>1, <2>1
    <2> QED
        BY <1>5, <2>1, <2>2 DEF Optional
<1>4. CASE Chosen(rule, truth) = {} /\ rule.occurrences = <<>>
    <2>1. OffsetSpecs(rule, truth) = {[label |-> "", offset |-> rule.offset]}
        BY <1>4, Zenon DEF OffsetSpecs
    <2>2. spec = [label |-> "", offset |-> rule.offset]
        BY <2>1
    <2>3. spec.label = "" /\ spec.offset = rule.offset
        BY <2>2
    <2> QED
        BY <1>1, <2>3, Zenon DEF Optional
<1> QED
    BY <1>2, <1>3, <1>4

\* Every rule emits a row.
LEMMA SpecsThere ==
    ASSUME NEW rule \in RuleData, NEW truth
    PROVE  OffsetSpecs(rule, truth) # {}
<1>1. CASE Chosen(rule, truth) # {}
    BY <1>1 DEF OffsetSpecs
<1>2. CASE Chosen(rule, truth) = {} /\ rule.occurrences # <<>>
    <2>1. rule.occurrences \in Seq([label: STRING, offset: Offsets \cup {None}])
        BY DEF RuleData
    <2>2. 1 \in DOMAIN rule.occurrences
        <3> DEFINE S == [label: STRING, offset: Offsets \cup {None}]
        <3>1. rule.occurrences \in Seq(S)
            BY <2>1
        <3> HIDE DEF S
        <3> QED
            BY <1>2, <3>1
    <2> QED
        BY <1>2, <2>2 DEF OffsetSpecs
<1>3. CASE Chosen(rule, truth) = {} /\ rule.occurrences = <<>>
    BY <1>3 DEF OffsetSpecs
<1> QED
    BY <1>1, <1>2, <1>3

\* A rule emits rows of its code and subject, and at least one.
LEMMA EmittedRows ==
    ASSUME NEW rule \in RuleData, NEW truth, NEW date \in Agms
    PROVE  /\ EmitRows(rule, truth, date) # {}
           /\ \A d \in EmitRows(rule, truth, date) :
                  /\ d \in DraftRow
                  /\ d.code = rule.code /\ d.subject = rule.subject
                  /\ d.director = None /\ d.ext = None
<1>1. EmitRows(rule, truth, date) # {}
    BY SpecsThere DEF EmitRows
<1>2. ASSUME NEW spec \in OffsetSpecs(rule, truth), NEW due, due = DueDate(rule, spec.offset, date),
             NEW unknown, unknown = VariantUnknown(rule, truth), NEW d,
             d = [code |-> rule.code, label |-> spec.label, subject |-> rule.subject,
                  director |-> None, due |-> due, ext |-> None,
                  flag |-> due = None \/ unknown,
                  why |-> IF due = None THEN "missing_anchor"
                          ELSE IF unknown THEN "applicability_unknown" ELSE None]
      PROVE  /\ d \in DraftRow
             /\ d.code = rule.code /\ d.subject = rule.subject
             /\ d.director = None /\ d.ext = None
    <2>1. rule.code \in Codes /\ rule.subject \in {"company", "director"}
        BY DEF RuleData
    <2>2. spec.label \in {""} \cup STRING /\ due \in Days \cup {None}
        BY <1>2, SpecsTyped, DueTyped
    <2>3. d.flag \in BOOLEAN /\ d.why \in Reasons \cup {None}
        BY <1>2 DEF Reasons
    <2>4. d \in Row
        BY <1>2, <2>1, <2>2, <2>3 DEF Row
    <2>5. (d.flag <=> d.why # None) /\ (d.due = None => d.flag)
        BY <1>2, FactsTyped
    <2> QED
        BY <1>2, <2>4, <2>5 DEF DraftRow
<1> QED
    BY <1>1, <1>2 DEF EmitRows

\* A row put to review is a row of the same obligation, with the flag.
LEMMA ReviewedRow ==
    ASSUME NEW d \in DraftRow
    PROVE  /\ ToReview(d) \in DraftRow /\ ToReview(d).flag
           /\ ToReview(d).code = d.code /\ ToReview(d).subject = d.subject
           /\ ToReview(d).director = d.director
<1> DEFINE e == ToReview(d)
<1>1. e = [d EXCEPT !.flag = TRUE, !.why = IF @ = None THEN "applicability_unknown" ELSE @]
    BY DEF ToReview
<1>2. /\ e \in Row /\ e.flag = TRUE /\ e.why # None
      /\ e.code = d.code /\ e.subject = d.subject /\ e.director = d.director
    BY <1>1, FactsTyped DEF DraftRow, Row, Reasons
<1> QED
    BY <1>2 DEF DraftRow

-----------------------------------------------------------------------------
(* The rows that the rules emit.                                           *)

\* The rules in force that apply, or may apply.
Active(ds, truth) == {n \in DOMAIN ds : ds[n].phase = 1 /\ Applies(ds[n], truth) # "FALSE"}

RowsOf(rule, truth, date) ==
    {IF Applies(rule, truth) = "UNKNOWN" THEN ToReview(d) ELSE d :
        d \in EmitRows(rule, truth, date)}

\* Emitted, rule by rule.
LEMMA EmittedBy ==
    ASSUME NEW ds, NEW truth, NEW date
    PROVE  Emitted(ds, truth, date) = UNION {RowsOf(ds[n], truth, date) : n \in Active(ds, truth)}
BY Zenon DEF Emitted, RowsOf, Active

\* The rows of a rule that applies or may apply; in doubt they are to review.
LEMMA RowsOfRule ==
    ASSUME NEW rule \in RuleData, NEW truth, NEW date \in Agms
    PROVE  /\ RowsOf(rule, truth, date) # {}
           /\ \A d \in RowsOf(rule, truth, date) :
                  /\ d \in DraftRow
                  /\ d.code = rule.code /\ d.subject = rule.subject /\ d.director = None
                  /\ Applies(rule, truth) = "UNKNOWN" => d.flag
<1>1. EmitRows(rule, truth, date) # {}
    BY EmittedRows
<1>2. ASSUME NEW e \in EmitRows(rule, truth, date), NEW d,
             d = IF Applies(rule, truth) = "UNKNOWN" THEN ToReview(e) ELSE e
      PROVE  /\ d \in DraftRow
             /\ d.code = rule.code /\ d.subject = rule.subject /\ d.director = None
             /\ Applies(rule, truth) = "UNKNOWN" => d.flag
    <2>1. /\ e \in DraftRow
          /\ e.code = rule.code /\ e.subject = rule.subject /\ e.director = None
        BY EmittedRows
    <2> QED
        BY <1>2, <2>1, ReviewedRow
<1> QED
    BY <1>1, <1>2 DEF RowsOf

\* The rows that are emitted are those of the active rules, and each has one.
LEMMA EmittedShape ==
    ASSUME NEW ds \in Datasets, NEW truth, NEW date \in Agms
    PROVE  /\ \A d \in Emitted(ds, truth, date) :
                  /\ d \in DraftRow /\ d.director = None
                  /\ \E n \in Active(ds, truth) :
                         /\ d.code = ds[n].code /\ d.subject = ds[n].subject
                         /\ d \in RowsOf(ds[n], truth, date)
           /\ \A n \in Active(ds, truth) :
                  \E d \in Emitted(ds, truth, date) : d.code = ds[n].code
<1>1. \A n \in Active(ds, truth) : ds[n] \in RuleData
    BY RuleTyped DEF Active
<1>2. \A d : d \in Emitted(ds, truth, date) <=>
                 \E n \in Active(ds, truth) : d \in RowsOf(ds[n], truth, date)
    BY EmittedBy
<1>3. ASSUME NEW d \in Emitted(ds, truth, date)
      PROVE  /\ d \in DraftRow /\ d.director = None
             /\ \E n \in Active(ds, truth) :
                    /\ d.code = ds[n].code /\ d.subject = ds[n].subject
                    /\ d \in RowsOf(ds[n], truth, date)
    <2>1. PICK n \in Active(ds, truth) : d \in RowsOf(ds[n], truth, date)
        BY <1>2
    <2>2. ds[n] \in RuleData
        BY <1>1
    <2>3. /\ d \in DraftRow /\ d.code = ds[n].code
          /\ d.subject = ds[n].subject /\ d.director = None
        BY <2>1, <2>2, RowsOfRule
    <2> QED
        BY <2>1, <2>3
<1>4. ASSUME NEW n \in Active(ds, truth)
      PROVE  \E d \in Emitted(ds, truth, date) : d.code = ds[n].code
    <2>1. PICK d : d \in RowsOf(ds[n], truth, date)
        BY <1>1, RowsOfRule
    <2>2. d.code = ds[n].code
        BY <1>1, <2>1, RowsOfRule
    <2> QED
        BY <1>2, <2>1, <2>2
<1> QED
    BY <1>3, <1>4

-----------------------------------------------------------------------------
(* Supersession.  What the loop leaves after n rules depends on which of   *)
(* them apply, not on their order.                                         *)

Removes(ds, truth, n, code) ==
    \E k \in Active(ds, truth) :
        k <= n /\ code \in ds[k].supersedes /\ Applies(ds[k], truth) = "TRUE"

Doubts(ds, truth, n, code) ==
    \E k \in Active(ds, truth) :
        k <= n /\ code \in ds[k].supersedes /\ Applies(ds[k], truth) # "TRUE"

Mark(ds, truth, n, d) == IF Doubts(ds, truth, n, d.code) THEN ToReview(d) ELSE d

After(ds, truth, rows, n) ==
    {Mark(ds, truth, n, d) : d \in {e \in rows : ~Removes(ds, truth, n, e.code)}}

\* Putting a row to review twice is putting it once.
LEMMA ReviewedTwice ==
    ASSUME NEW d \in DraftRow
    PROVE  ToReview(ToReview(d)) = ToReview(d)
<1> DEFINE e == ToReview(d)
<1>1. e \in Row /\ e.flag = TRUE /\ e.why # None
    BY ReviewedRow DEF DraftRow
<1> HIDE DEF e
<1>2. ToReview(e) = [e EXCEPT !.flag = TRUE, !.why = e.why]
    BY <1>1, Zenon DEF ToReview
<1>3. [e EXCEPT !.flag = TRUE, !.why = e.why] = e
    BY <1>1 DEF Row
<1> QED
    BY <1>2, <1>3 DEF e

\* A mark changes the flag and the reason, not the obligation.
LEMMA Marked ==
    ASSUME NEW ds, NEW truth, NEW n, NEW d \in DraftRow
    PROVE  LET m == Mark(ds, truth, n, d) IN
           /\ m \in DraftRow /\ m.code = d.code /\ m.subject = d.subject
           /\ m.director = d.director
           /\ Doubts(ds, truth, n, d.code) => m.flag
           /\ ~Doubts(ds, truth, n, d.code) => m = d
BY ReviewedRow DEF Mark

\* One turn of the loop takes what n rules leave to what n + 1 leave.
LEMMA SupersessionStep ==
    ASSUME NEW ds \in Datasets, NEW truth, NEW date \in Agms,
           NEW n \in Nat, n + 1 \in DOMAIN ds
    PROVE  LET rows == Emitted(ds, truth, date)
           IN  SupersededBy(ds[n + 1], truth, After(ds, truth, rows, n))
                   = After(ds, truth, rows, n + 1)
<1> DEFINE rows == Emitted(ds, truth, date)
           rule == ds[n + 1]
           old == After(ds, truth, rows, n)
           new == After(ds, truth, rows, n + 1)
<1>1. rule \in RuleData /\ rule.supersedes \in SUBSET Codes
    BY RuleTyped DEF RuleData
<1>2. \A k \in Active(ds, truth) : k \in Nat /\ (k <= n + 1 <=> k <= n \/ k = n + 1)
    BY RuleTyped DEF Active
<1>3. \A c : Removes(ds, truth, n + 1, c) <=>
                 \/ Removes(ds, truth, n, c)
                 \/ /\ n + 1 \in Active(ds, truth) /\ c \in rule.supersedes
                    /\ Applies(rule, truth) = "TRUE"
    BY <1>2 DEF Removes
<1>4. \A c : Doubts(ds, truth, n + 1, c) <=>
                 \/ Doubts(ds, truth, n, c)
                 \/ /\ n + 1 \in Active(ds, truth) /\ c \in rule.supersedes
                    /\ Applies(rule, truth) # "TRUE"
    BY <1>2 DEF Doubts
<1>5. \A d \in rows : d \in DraftRow
    BY EmittedShape
<1>6. \A d \in old : d \in DraftRow /\ \E e \in rows : d.code = e.code
    BY <1>5, Marked DEF After
<1>7. SupersededBy(rule, truth, old) =
          IF ~HasRows(rule, old) THEN old
          ELSE IF Applies(rule, truth) = "TRUE" THEN {d \in old : d.code \notin rule.supersedes}
          ELSE {IF d.code \in rule.supersedes THEN ToReview(d) ELSE d : d \in old}
    BY Zenon DEF SupersededBy, OnRows
<1>8. n + 1 \notin Active(ds, truth) => ~HasRows(rule, old)
    <2> SUFFICES ASSUME HasRows(rule, old) PROVE n + 1 \in Active(ds, truth)
        OBVIOUS
    <2>1. PICK e \in rows : e.code = rule.code
        BY <1>6 DEF HasRows
    <2>2. PICK k \in Active(ds, truth) : e.code = ds[k].code
        BY <2>1, EmittedShape
    <2>3. k = n + 1
        BY <2>1, <2>2, RulesTyped DEF Active
    <2> QED
        BY <2>2, <2>3
<1>9. n + 1 \in Active(ds, truth) /\ rule.supersedes # {} => HasRows(rule, old)
    <2> SUFFICES ASSUME n + 1 \in Active(ds, truth), rule.supersedes # {}
                 PROVE  HasRows(rule, old)
        OBVIOUS
    <2>1. PICK e \in rows : e.code = rule.code
        BY EmittedShape
    <2>2. ~Removes(ds, truth, n, rule.code)
        BY NoChains DEF Removes, Active
    <2>3. Mark(ds, truth, n, e) \in old /\ Mark(ds, truth, n, e).code = rule.code
        BY <1>5, <2>1, <2>2, Marked DEF After
    <2> QED
        BY <2>3 DEF HasRows
<1> HIDE DEF rows, rule
<1>10. CASE n + 1 \notin Active(ds, truth)
    <2>1. new = old
        BY <1>3, <1>4, <1>10 DEF After, Mark
    <2> QED
        BY <1>7, <1>8, <1>10, <2>1 DEF rows, rule
<1>11. CASE n + 1 \in Active(ds, truth) /\ rule.supersedes = {}
    <2>1. new = old
        BY <1>3, <1>4, <1>11 DEF After, Mark
    <2>2. SupersededBy(rule, truth, old) = old
        <3> HIDE DEF old
        <3> QED
            BY <1>7, <1>11
    <2> QED
        BY <2>1, <2>2 DEF rows, rule
<1>12. CASE n + 1 \in Active(ds, truth) /\ rule.supersedes # {} /\ Applies(rule, truth) = "TRUE"
    <2>1. SupersededBy(rule, truth, old) = {d \in old : d.code \notin rule.supersedes}
        BY <1>7, <1>9, <1>12
    <2>2. \A d \in rows : Mark(ds, truth, n + 1, d) = Mark(ds, truth, n, d)
        BY <1>4, <1>12 DEF Mark
    <2>3. \A d \in rows : Mark(ds, truth, n, d).code = d.code
        BY <1>5, Marked
    <2>4. {d \in old : d.code \notin rule.supersedes} = new
        BY <1>3, <1>12, <2>2, <2>3 DEF After
    <2> QED
        BY <2>1, <2>4 DEF rows, rule
<1>13. CASE n + 1 \in Active(ds, truth) /\ rule.supersedes # {} /\ Applies(rule, truth) # "TRUE"
    <2> DEFINE Again(d) == IF d.code \in rule.supersedes THEN ToReview(d) ELSE d
    <2>1. SupersededBy(rule, truth, old) = {Again(d) : d \in old}
        BY <1>7, <1>9, <1>13
    <2>2. ASSUME NEW d \in rows
          PROVE  Again(Mark(ds, truth, n, d)) = Mark(ds, truth, n + 1, d)
        <3>1. d \in DraftRow /\ Mark(ds, truth, n, d).code = d.code
            BY <1>5, Marked
        <3>2. ToReview(ToReview(d)) = ToReview(d)
            BY <3>1, ReviewedTwice
        <3> QED
            BY <1>4, <1>13, <3>1, <3>2 DEF Mark
    <2>3. \A c : Removes(ds, truth, n + 1, c) <=> Removes(ds, truth, n, c)
        BY <1>3, <1>13
    <2> HIDE DEF Again
    <2>4. {Again(d) : d \in old} = new
        BY <2>2, <2>3 DEF After
    <2> QED
        BY <2>1, <2>4 DEF rows, rule
<1> QED
    BY <1>10, <1>11, <1>12, <1>13

\* The function that ApplySupersession evaluates, up to the n-th rule.
SupersessionRun(f, ds, truth, rows) ==
    f = [n \in 0..Len(ds) |-> IF n = 0 THEN rows ELSE SupersededBy(ds[n], truth, f[n - 1])]

(* The loop over the rules leaves what the rules declare.                  *)
LEMMA Supersession ==
    ASSUME NEW ds \in Datasets, NEW truth, NEW date \in Agms
    PROVE  LET rows == Emitted(ds, truth, date)
           IN  ApplySupersession(ds, truth, rows) = After(ds, truth, rows, Len(ds))
<1> DEFINE rows == Emitted(ds, truth, date)
           g == [n \in 0..Len(ds) |-> After(ds, truth, rows, n)]
           after[n \in 0..Len(ds)] ==
               IF n = 0 THEN rows ELSE SupersededBy(ds[n], truth, after[n - 1])
<1>1. Len(ds) \in Nat /\ DOMAIN ds = 1..Len(ds)
    BY RulesTyped
<1>2. After(ds, truth, rows, 0) = rows
    <2>1. \A c : ~Removes(ds, truth, 0, c) /\ ~Doubts(ds, truth, 0, c)
        BY RuleTyped DEF Removes, Doubts, Active
    <2> QED
        BY <2>1 DEF After, Mark
<1>3. \A n \in 1..Len(ds) :
          After(ds, truth, rows, n) = SupersededBy(ds[n], truth, After(ds, truth, rows, n - 1))
    <2> TAKE n \in 1..Len(ds)
    <2>1. n - 1 \in Nat /\ (n - 1) + 1 = n /\ n \in DOMAIN ds
        BY <1>1
    <2> QED
        BY <2>1, SupersessionStep
<1> HIDE DEF rows
<1>4. SupersessionRun(g, ds, truth, rows)
    <2>1. \A n \in 0..Len(ds) :
              g[n] = IF n = 0 THEN rows ELSE SupersededBy(ds[n], truth, g[n - 1])
        BY <1>1, <1>2, <1>3
    <2> QED
        BY <2>1 DEF SupersessionRun
<1>5. SupersessionRun(after, ds, truth, rows)
    <2>1. after = CHOOSE f : SupersessionRun(f, ds, truth, rows)
        BY DEF SupersessionRun
    <2> HIDE DEF after, g
    <2> QED
        BY <1>4, <2>1, Zenon
<1>6. ApplySupersession(ds, truth, rows) = after[Len(ds)]
    BY DEF ApplySupersession
<1> HIDE DEF after, g
<1> DEFINE T == {n \in Nat : n <= Len(ds) => after[n] = After(ds, truth, rows, n)}
<1>7. 0 \in T
    BY <1>1, <1>2, <1>5 DEF SupersessionRun
<1>8. ASSUME NEW n \in Nat, n \in T PROVE n + 1 \in T
    <2> SUFFICES ASSUME n + 1 <= Len(ds)
                 PROVE  after[n + 1] = After(ds, truth, rows, n + 1)
        OBVIOUS
    <2>1. n + 1 \in 1..Len(ds) /\ (n + 1) - 1 = n /\ n <= Len(ds) /\ n + 1 \in 0..Len(ds) /\ n + 1 # 0
        BY <1>1
    <2>2. after[n] = After(ds, truth, rows, n)
        BY <1>8, <2>1
    <2>3. after[n + 1] = SupersededBy(ds[n + 1], truth, after[(n + 1) - 1])
        BY <1>5, <2>1, Zenon DEF SupersessionRun
    <2>4. After(ds, truth, rows, n + 1) =
              SupersededBy(ds[n + 1], truth, After(ds, truth, rows, (n + 1) - 1))
        BY <1>3, <2>1, Zenon
    <2> QED
        BY <2>1, <2>2, <2>3, <2>4, Zenon
<1>9. Len(ds) \in T
    <2> HIDE DEF T
    <2> QED
        BY <1>1, <1>7, <1>8, Induction
<1> QED
    BY <1>1, <1>6, <1>9 DEF rows

-----------------------------------------------------------------------------
(* Extensions change a row, never which rows there are.                    *)

ExtensionRow(ext, truth, d) ==
    IF truth[ext.applies] = "FALSE" \/ d.code # ext.rule THEN d
    ELSE IF truth[ext.applies] = "TRUE" THEN [d EXCEPT !.ext = ext.ref]
    ELSE ToReview([d EXCEPT !.ext = ext.ref])

\* An extension changes the rows one by one.
LEMMA ExtendedRows ==
    ASSUME NEW ext, NEW truth, NEW rows
    PROVE  ExtendedBy(ext, truth, rows) = {ExtensionRow(ext, truth, d) : d \in rows}
<1>1. CASE truth[ext.applies] = "FALSE"
    BY <1>1 DEF ExtendedBy, ExtensionRow
<1>2. CASE truth[ext.applies] = "TRUE"
    BY <1>2 DEF ExtendedBy, ExtensionRow, OnRows
<1>3. CASE truth[ext.applies] \notin {"TRUE", "FALSE"}
    BY <1>3 DEF ExtendedBy, ExtensionRow, OnRows
<1> QED
    BY <1>1, <1>2, <1>3

\* One row for another of the same obligation; what was to review still is.
Follows(d, e) == /\ d \in DraftRow
                 /\ d.code = e.code /\ d.subject = e.subject /\ d.director = e.director
                 /\ e.flag => d.flag

\* An extension's reference and predicate.
LEMMA ExtensionTyped ==
    ASSUME NEW n \in DOMAIN Extensions
    PROVE  Extensions[n].ref \in STRING /\ Extensions[n].applies \in Preds
<1> DEFINE S == [rule: Codes, ref: STRING, applies: Preds]
<1>1. Extensions \in Seq(S)
    BY FactsTyped
<1>2. \A ext \in S : ext.ref \in STRING /\ ext.applies \in Preds
    OBVIOUS
<1> HIDE DEF S
<1> QED
    BY <1>1, <1>2

\* A row that is extended is the same obligation, and in doubt to review.
LEMMA ExtensionRowFollows ==
    ASSUME NEW n \in DOMAIN Extensions, NEW truth, NEW e \in DraftRow
    PROVE  LET ext == Extensions[n]
               d == ExtensionRow(ext, truth, e)
           IN  /\ Follows(d, e)
               /\ e.code = ext.rule /\ truth[ext.applies] \notin {"TRUE", "FALSE"} => d.flag
<1> DEFINE ext == Extensions[n]
           f == [e EXCEPT !.ext = ext.ref]
<1>1. ext.ref \in STRING
    BY ExtensionTyped
<1> HIDE DEF ext
<1>2. /\ f \in DraftRow /\ f.code = e.code /\ f.subject = e.subject
      /\ f.director = e.director /\ f.flag = e.flag
    BY <1>1 DEF DraftRow, Row
<1> HIDE DEF f
<1>3. /\ ToReview(f) \in DraftRow /\ ToReview(f).flag
      /\ ToReview(f).code = e.code /\ ToReview(f).subject = e.subject
      /\ ToReview(f).director = e.director
    BY <1>2, ReviewedRow
<1>4. ExtensionRow(ext, truth, e) =
          IF truth[ext.applies] = "FALSE" \/ e.code # ext.rule THEN e
          ELSE IF truth[ext.applies] = "TRUE" THEN f ELSE ToReview(f)
    BY Zenon DEF ExtensionRow, f
<1> QED
    BY <1>2, <1>3, <1>4 DEF ext, Follows

\* The function that ApplyExtensions evaluates, up to the n-th extension.
ExtensionRun(f, n, truth, rows) ==
    f = [m \in 0..n |-> IF m = 0 THEN rows ELSE ExtendedBy(Extensions[m], truth, f[m - 1])]

\* The rows after each extension exist, by induction on the extensions.
LEMMA ExtensionRuns ==
    ASSUME NEW truth, NEW rows, NEW N \in Nat
    PROVE  \E f : ExtensionRun(f, N, truth, rows)
<1> DEFINE T == {n \in Nat : \E f : ExtensionRun(f, n, truth, rows)}
<1>1. 0 \in T
    <2> DEFINE f == [m \in 0..0 |-> rows]
    <2>1. f = [m \in 0..0 |-> IF m = 0 THEN rows ELSE ExtendedBy(Extensions[m], truth, f[m - 1])]
        OBVIOUS
    <2> HIDE DEF f
    <2> QED
        BY <2>1 DEF ExtensionRun
<1>2. ASSUME NEW n \in Nat, n \in T PROVE n + 1 \in T
    <2>1. PICK f : ExtensionRun(f, n, truth, rows)
        BY <1>2
    <2> DEFINE g == [m \in 0..(n + 1) |->
                        IF m \in 0..n THEN f[m] ELSE ExtendedBy(Extensions[m], truth, f[m - 1])]
    <2>2. ASSUME NEW m \in 0..(n + 1)
          PROVE  g[m] = IF m = 0 THEN rows ELSE ExtendedBy(Extensions[m], truth, g[m - 1])
        <3>1. CASE m = 0
            BY <2>1, <3>1 DEF ExtensionRun
        <3>2. CASE m \in 1..n
            <4>1. m \in 0..n /\ m - 1 \in 0..n /\ m - 1 \in 0..(n + 1) /\ m # 0
                BY <3>2
            <4>2. f[m] = ExtendedBy(Extensions[m], truth, f[m - 1])
                BY <2>1, <4>1, Zenon DEF ExtensionRun
            <4> QED
                BY <4>1, <4>2, Zenon
        <3>3. CASE m = n + 1
            <4>1. m \notin 0..n /\ m - 1 \in 0..n /\ m - 1 \in 0..(n + 1) /\ m # 0
                BY <3>3
            <4> QED
                BY <4>1, Zenon
        <3> QED
            BY <3>1, <3>2, <3>3
    <2>3. g = [m \in 0..(n + 1) |->
                  IF m = 0 THEN rows ELSE ExtendedBy(Extensions[m], truth, g[m - 1])]
        BY <2>2
    <2> HIDE DEF g
    <2> QED
        BY <2>3 DEF ExtensionRun
<1>3. N \in T
    <2> HIDE DEF T
    <2> QED
        BY <1>1, <1>2, Induction
<1> QED
    BY <1>3

\* f has the rows after each extension.
Extends(f, truth, rows) ==
    /\ ApplyExtensions(truth, rows) = f[Len(Extensions)] /\ f[0] = rows
    /\ \A n \in Nat : n + 1 \in DOMAIN Extensions =>
           f[n + 1] = {ExtensionRow(Extensions[n + 1], truth, d) : d \in f[n]}

\* So the loop over the extensions has a result.
LEMMA ExtensionLoop ==
    ASSUME NEW truth, NEW rows
    PROVE  \E f : Extends(f, truth, rows)
<1> DEFINE after[n \in 0..Len(Extensions)] ==
               IF n = 0 THEN rows ELSE ExtendedBy(Extensions[n], truth, after[n - 1])
<1>1. Len(Extensions) \in Nat /\ DOMAIN Extensions = 1..Len(Extensions)
    BY FactsTyped
<1>2. ExtensionRun(after, Len(Extensions), truth, rows)
    <2>1. after = CHOOSE f : ExtensionRun(f, Len(Extensions), truth, rows)
        BY DEF ExtensionRun
    <2>2. \E f : ExtensionRun(f, Len(Extensions), truth, rows)
        BY <1>1, ExtensionRuns
    <2> HIDE DEF after
    <2> QED
        BY <2>1, <2>2, Zenon
<1>3. ApplyExtensions(truth, rows) = after[Len(Extensions)]
    BY DEF ApplyExtensions
<1> HIDE DEF after
<1>4. after[0] = rows
    BY <1>1, <1>2 DEF ExtensionRun
<1>5. ASSUME NEW n \in Nat, n + 1 \in DOMAIN Extensions
      PROVE  after[n + 1] = {ExtensionRow(Extensions[n + 1], truth, d) : d \in after[n]}
    <2>1. n + 1 \in 0..Len(Extensions) /\ n + 1 # 0 /\ (n + 1) - 1 = n
        BY <1>1, <1>5
    <2>2. after[n + 1] = ExtendedBy(Extensions[n + 1], truth, after[(n + 1) - 1])
        BY <1>2, <2>1, Zenon DEF ExtensionRun
    <2> QED
        BY <2>1, <2>2, ExtendedRows, Zenon
<1> QED
    BY <1>3, <1>4, <1>5 DEF Extends

\* Extensions keep every row's obligation, and its flag when it has one.
LEMMA ExtensionsKeep ==
    ASSUME NEW truth, NEW rows \in SUBSET DraftRow
    PROVE  LET new == ApplyExtensions(truth, rows)
           IN  /\ \A d \in new : d \in DraftRow /\ \E e \in rows : Follows(d, e)
               /\ \A e \in rows : \E d \in new : Follows(d, e)
<1>1. PICK f : Extends(f, truth, rows)
    BY ExtensionLoop
<1>2. Len(Extensions) \in Nat /\ DOMAIN Extensions = 1..Len(Extensions)
    BY FactsTyped
<1> DEFINE Kept(n) == /\ \A d \in f[n] : d \in DraftRow /\ \E e \in rows : Follows(d, e)
                      /\ \A e \in rows : \E d \in f[n] : Follows(d, e)
           T == {n \in Nat : n <= Len(Extensions) => Kept(n)}
<1>3. 0 \in T
    BY <1>1 DEF Extends, Follows
<1>4. ASSUME NEW n \in Nat, n \in T PROVE n + 1 \in T
    <2> SUFFICES ASSUME n + 1 <= Len(Extensions) PROVE Kept(n + 1)
        OBVIOUS
    <2>1. n + 1 \in DOMAIN Extensions /\ n <= Len(Extensions)
        BY <1>2
    <2>2. Kept(n)
        BY <1>4, <2>1
    <2> DEFINE Row2(d) == ExtensionRow(Extensions[n + 1], truth, d)
    <2>3. f[n + 1] = {Row2(d) : d \in f[n]}
        BY <1>1, <2>1 DEF Extends
    <2>4. \A d \in f[n] : Row2(d) \in DraftRow /\ \A e : Follows(d, e) => Follows(Row2(d), e)
        BY <2>1, <2>2, ExtensionRowFollows DEF Follows
    <2> HIDE DEF Row2
    <2>5. \A d \in f[n + 1] : d \in DraftRow /\ \E e \in rows : Follows(d, e)
        BY <2>2, <2>3, <2>4
    <2>6. \A e \in rows : \E d \in f[n + 1] : Follows(d, e)
        BY <2>2, <2>3, <2>4
    <2> QED
        BY <2>5, <2>6
<1>5. Len(Extensions) \in T
    <2> HIDE DEF T
    <2> QED
        BY <1>2, <1>3, <1>4, Induction
<1> QED
    BY <1>1, <1>2, <1>5 DEF Extends

Settled(rows) == {d \in rows : ~d.flag}

(* A row that the extensions leave settled is left so when more is known.  *)
LEMMA ExtensionsSettle ==
    ASSUME NEW old, NEW new,
           \A p \in Preds : old[p] \in Tri /\ Settles(old[p], new[p]),
           NEW before \in SUBSET DraftRow, NEW now \in SUBSET DraftRow,
           Settled(before) \subseteq now
    PROVE  Settled(ApplyExtensions(old, before)) \subseteq ApplyExtensions(new, now)
<1>1. PICK f : Extends(f, old, before)
    BY ExtensionLoop
<1>2. PICK g : Extends(g, new, now)
    BY ExtensionLoop
<1>3. Len(Extensions) \in Nat /\ DOMAIN Extensions = 1..Len(Extensions)
    BY FactsTyped
<1> DEFINE T == {n \in Nat : n <= Len(Extensions) =>
                                 f[n] \subseteq DraftRow /\ Settled(f[n]) \subseteq g[n]}
<1>4. 0 \in T
    BY <1>1, <1>2 DEF Extends
<1>5. ASSUME NEW n \in Nat, n \in T PROVE n + 1 \in T
    <2> SUFFICES ASSUME n + 1 <= Len(Extensions)
                 PROVE  f[n + 1] \subseteq DraftRow /\ Settled(f[n + 1]) \subseteq g[n + 1]
        OBVIOUS
    <2> DEFINE ext == Extensions[n + 1]
    <2>1. n + 1 \in DOMAIN Extensions /\ n <= Len(Extensions)
        BY <1>3
    <2>2. f[n] \subseteq DraftRow /\ Settled(f[n]) \subseteq g[n]
        BY <1>5, <2>1
    <2>3. /\ f[n + 1] = {ExtensionRow(ext, old, d) : d \in f[n]}
          /\ g[n + 1] = {ExtensionRow(ext, new, d) : d \in g[n]}
        BY <1>1, <1>2, <2>1 DEF Extends
    <2>4. ext.applies \in Preds
        BY <2>1, ExtensionTyped
    <2>5. /\ old[ext.applies] \in {"TRUE", "FALSE"} => new[ext.applies] = old[ext.applies]
        BY <2>4 DEF Settles
    <2>6. ASSUME NEW e \in f[n]
          PROVE  /\ ExtensionRow(ext, old, e) \in DraftRow
                 /\ ~ExtensionRow(ext, old, e).flag =>
                        ~e.flag /\ ExtensionRow(ext, old, e) = ExtensionRow(ext, new, e)
        <3>1. /\ ExtensionRow(ext, old, e) \in DraftRow
              /\ e.flag => ExtensionRow(ext, old, e).flag
              /\ e.code = ext.rule /\ old[ext.applies] \notin {"TRUE", "FALSE"} =>
                     ExtensionRow(ext, old, e).flag
            BY <2>1, <2>2, ExtensionRowFollows DEF Follows
        <3> HIDE DEF ext
        <3>2. e.code # ext.rule \/ old[ext.applies] \in {"TRUE", "FALSE"} =>
                  ExtensionRow(ext, old, e) = ExtensionRow(ext, new, e)
            BY <2>5, Zenon DEF ExtensionRow
        <3> QED
            BY <3>1, <3>2
    <2> HIDE DEF ext
    <2>7. f[n + 1] \subseteq DraftRow
        BY <2>3, <2>6
    <2>8. ASSUME NEW d \in Settled(f[n + 1]) PROVE d \in g[n + 1]
        <3>1. PICK e \in f[n] : d = ExtensionRow(ext, old, e)
            BY <2>3 DEF Settled
        <3>2. ~e.flag /\ d = ExtensionRow(ext, new, e)
            BY <2>6, <3>1 DEF Settled
        <3>3. e \in g[n]
            BY <2>2, <3>2 DEF Settled
        <3> QED
            BY <2>3, <3>2, <3>3
    <2> QED
        BY <2>7, <2>8
<1>6. Len(Extensions) \in T
    <2> HIDE DEF T
    <2> QED
        BY <1>3, <1>4, <1>5, Induction
<1> QED
    BY <1>1, <1>2, <1>3, <1>6 DEF Extends

-----------------------------------------------------------------------------
(* The calendar of a company.                                              *)

\* The rules in force that no rule which definitely applies supersedes.
Declared(ds, truth) ==
    {n \in Active(ds, truth) : \A k \in Active(ds, truth) :
        ds[n].code \in ds[k].supersedes => Applies(ds[k], truth) # "TRUE"}

\* What is removed and what is doubted after the last rule.
LEMMA AfterAll ==
    ASSUME NEW ds \in Datasets, NEW truth
    PROVE  /\ \A c : Removes(ds, truth, Len(ds), c) <=>
                         \E k \in Active(ds, truth) : c \in ds[k].supersedes /\ Applies(ds[k], truth) = "TRUE"
           /\ \A c : Doubts(ds, truth, Len(ds), c) <=>
                         \E k \in Active(ds, truth) : c \in ds[k].supersedes /\ Applies(ds[k], truth) # "TRUE"
<1>1. \A k \in Active(ds, truth) : k <= Len(ds)
    BY RulesTyped DEF Active
<1> QED
    BY <1>1 DEF Removes, Doubts

\* Supersession leaves the declared rules, doubted ones to review.
LEMMA SupersededShape ==
    ASSUME NEW ds \in Datasets, NEW truth, NEW date \in Agms
    PROVE  LET rows == ApplySupersession(ds, truth, Emitted(ds, truth, date))
           IN  /\ \A d \in rows :
                      /\ d \in DraftRow /\ d.director = None
                      /\ \E n \in Declared(ds, truth) :
                             d.code = ds[n].code /\ d.subject = ds[n].subject
                      /\ \A k \in Active(ds, truth) : d.code \in ds[k].supersedes => d.flag
               /\ \A n \in Declared(ds, truth) : \E d \in rows : d.code = ds[n].code
<1> DEFINE emitted == Emitted(ds, truth, date)
           rows == ApplySupersession(ds, truth, emitted)
           N == Len(ds)
<1>1. rows = {Mark(ds, truth, N, d) : d \in {e \in emitted : ~Removes(ds, truth, N, e.code)}}
    BY Supersession DEF After
<1>2. /\ \A c : Removes(ds, truth, N, c) <=>
                    \E k \in Active(ds, truth) : c \in ds[k].supersedes /\ Applies(ds[k], truth) = "TRUE"
      /\ \A c : Doubts(ds, truth, N, c) <=>
                    \E k \in Active(ds, truth) : c \in ds[k].supersedes /\ Applies(ds[k], truth) # "TRUE"
    BY AfterAll
<1>3. /\ \A d \in emitted :
             /\ d \in DraftRow /\ d.director = None
             /\ \E n \in Active(ds, truth) : d.code = ds[n].code /\ d.subject = ds[n].subject
      /\ \A n \in Active(ds, truth) : \E d \in emitted : d.code = ds[n].code
    BY EmittedShape
<1> HIDE DEF emitted, rows, N
<1>4. ASSUME NEW d \in rows
      PROVE  /\ d \in DraftRow /\ d.director = None
             /\ \E n \in Declared(ds, truth) : d.code = ds[n].code /\ d.subject = ds[n].subject
             /\ \A k \in Active(ds, truth) : d.code \in ds[k].supersedes => d.flag
    <2>1. PICK e \in emitted : d = Mark(ds, truth, N, e) /\ ~Removes(ds, truth, N, e.code)
        BY <1>1
    <2>2. /\ d \in DraftRow /\ d.code = e.code /\ d.subject = e.subject /\ d.director = e.director
          /\ Doubts(ds, truth, N, e.code) => d.flag
        BY <1>3, <2>1, Marked
    <2>3. PICK n \in Active(ds, truth) : e.code = ds[n].code /\ e.subject = ds[n].subject
        BY <1>3
    <2>4. n \in Declared(ds, truth)
        BY <1>2, <2>1, <2>3 DEF Declared
    <2>5. \A k \in Active(ds, truth) : d.code \in ds[k].supersedes => d.flag
        BY <1>2, <2>1, <2>2
    <2> QED
        BY <1>3, <2>2, <2>3, <2>4, <2>5
<1>5. ASSUME NEW n \in Declared(ds, truth) PROVE \E d \in rows : d.code = ds[n].code
    <2>1. n \in Active(ds, truth)
        BY DEF Declared
    <2>2. PICK e \in emitted : e.code = ds[n].code
        BY <1>3, <2>1
    <2>3. ~Removes(ds, truth, N, e.code)
        BY <1>2, <2>2 DEF Declared
    <2>4. Mark(ds, truth, N, e) \in rows
        BY <1>1, <2>3
    <2>5. Mark(ds, truth, N, e).code = e.code
        BY <1>3, Marked
    <2> QED
        BY <2>2, <2>4, <2>5
<1> QED
    BY <1>4, <1>5 DEF rows, emitted

\* So does the whole of compute_calendar, for what is known of the company.
LEMMA CalendarShape ==
    ASSUME NEW ds \in Datasets, NEW attrs, NEW date \in Agms
    PROVE  LET truth == Evaluation(attrs)
               rows == ComputeCalendar(ds, attrs, date)
           IN  /\ \A d \in rows :
                      /\ d \in DraftRow /\ d.director = None
                      /\ \E n \in Declared(ds, truth) :
                             d.code = ds[n].code /\ d.subject = ds[n].subject
                      /\ \A k \in Active(ds, truth) : d.code \in ds[k].supersedes => d.flag
               /\ \A n \in Declared(ds, truth) : \E d \in rows : d.code = ds[n].code
<1> DEFINE truth == Evaluation(attrs)
           kept == ApplySupersession(ds, truth, Emitted(ds, truth, date))
           rows == ComputeCalendar(ds, attrs, date)
<1>1. rows = ApplyExtensions(truth, kept)
    BY DEF ComputeCalendar
<1> HIDE DEF truth
<1>2. /\ \A d \in kept :
             /\ d \in DraftRow /\ d.director = None
             /\ \E n \in Declared(ds, truth) : d.code = ds[n].code /\ d.subject = ds[n].subject
             /\ \A k \in Active(ds, truth) : d.code \in ds[k].supersedes => d.flag
      /\ \A n \in Declared(ds, truth) : \E d \in kept : d.code = ds[n].code
    BY SupersededShape
<1> HIDE DEF kept, rows
<1>3. kept \in SUBSET DraftRow
    BY <1>2
<1>4. /\ \A d \in rows : d \in DraftRow /\ \E e \in kept : Follows(d, e)
      /\ \A e \in kept : \E d \in rows : Follows(d, e)
    BY <1>1, <1>3, ExtensionsKeep
<1>5. ASSUME NEW d \in rows
      PROVE  /\ d \in DraftRow /\ d.director = None
             /\ \E n \in Declared(ds, truth) : d.code = ds[n].code /\ d.subject = ds[n].subject
             /\ \A k \in Active(ds, truth) : d.code \in ds[k].supersedes => d.flag
    <2>1. PICK e \in kept : Follows(d, e)
        BY <1>4
    <2> QED
        BY <1>2, <2>1 DEF Follows
<1>6. ASSUME NEW n \in Declared(ds, truth) PROVE \E d \in rows : d.code = ds[n].code
    <2>1. PICK e \in kept : e.code = ds[n].code
        BY <1>2
    <2>2. PICK d \in rows : Follows(d, e)
        BY <1>4
    <2> QED
        BY <2>1, <2>2 DEF Follows
<1> QED
    BY <1>5, <1>6 DEF truth, rows

-----------------------------------------------------------------------------
(* What stays when more is known.                                          *)

\* The answers of old, settled where they were known.
Firmer(old, new) == \A p \in Preds : old[p] \in Tri /\ Settles(old[p], new[p])

\* Learning a fact makes the answers firmer.
LEMMA LearntIsFirmer ==
    ASSUME NEW old, NEW new, Learnt(old, new)
    PROVE  Firmer(Evaluation(old), Evaluation(new))
BY AnswersSettle DEF Firmer

\* So a rule that applies, or does not, stays so.
LEMMA AppliesFirmer ==
    ASSUME NEW ds \in Datasets, NEW n \in DOMAIN ds, NEW old, NEW new, Firmer(old, new)
    PROVE  /\ Applies(ds[n], old) \in Tri
           /\ Applies(ds[n], old) = "UNKNOWN" \/ Applies(ds[n], new) = Applies(ds[n], old)
BY RuleTyped DEF Firmer, Settles, Applies, RuleData

\* A variant that was chosen without doubt is chosen again.
LEMMA VariantsSettle ==
    ASSUME NEW rule \in RuleData, NEW old, NEW new, Firmer(old, new), ~VariantUnknown(rule, old)
    PROVE  Chosen(rule, new) = Chosen(rule, old) /\ ~VariantUnknown(rule, new)
<1> DEFINE D == DOMAIN rule.variants
           When(n) == rule.variants[n].when
           First == Chosen(rule, old)
<1>1. D \subseteq Nat /\ \A n \in D : When(n) \in Preds
    <2> DEFINE S == [when: Preds, offset: Offsets \cup {None}]
    <2>1. rule.variants \in Seq(S)
        BY DEF RuleData
    <2>2. \A v \in S : v.when \in Preds
        OBVIOUS
    <2> HIDE DEF S
    <2> QED
        BY <2>1, <2>2
<1>2. \A n \in D : /\ old[When(n)] \in Tri
                   /\ old[When(n)] # "UNKNOWN" => new[When(n)] = old[When(n)]
    BY <1>1 DEF Firmer, Settles
<1>3. /\ TrueVariants(rule, old) = {n \in D : old[When(n)] = "TRUE"}
      /\ TrueVariants(rule, new) = {n \in D : new[When(n)] = "TRUE"}
    BY DEF TrueVariants
<1>4. /\ First = {n \in TrueVariants(rule, old) : \A k \in TrueVariants(rule, old) : n <= k}
      /\ Chosen(rule, new) = {n \in TrueVariants(rule, new) : \A k \in TrueVariants(rule, new) : n <= k}
    BY DEF Chosen
<1>5. \A n \in D : (\A first \in First : n < first) => old[When(n)] # "UNKNOWN"
    BY DEF VariantUnknown
<1>6. VariantUnknown(rule, new) <=>
          \E n \in D : new[When(n)] = "UNKNOWN" /\ \A first \in Chosen(rule, new) : n < first
    BY Zenon DEF VariantUnknown
<1> HIDE DEF D, When, First
<1>7. CASE First = {}
    <2>1. TrueVariants(rule, old) = {}
        <3> SUFFICES ASSUME TrueVariants(rule, old) # {} PROVE FALSE
            OBVIOUS
        <3>1. TrueVariants(rule, old) \in SUBSET Nat
            BY <1>1, <1>3
        <3>2. \E n \in TrueVariants(rule, old) : \A k \in TrueVariants(rule, old) : n <= k
            BY <3>1, Least
        <3> QED
            BY <1>4, <1>7, <3>2
    <2>2. \A n \in D : old[When(n)] = "FALSE" /\ new[When(n)] = "FALSE"
        BY <1>2, <1>3, <1>5, <1>7, <2>1 DEF Tri
    <2>3. TrueVariants(rule, new) = {}
        BY <1>3, <2>2
    <2> QED
        BY <1>4, <1>6, <1>7, <2>2, <2>3 DEF First
<1>8. CASE First # {}
    <2>1. PICK f \in First : TRUE
        BY <1>8
    <2>2. f \in D /\ old[When(f)] = "TRUE" /\ new[When(f)] = "TRUE" /\ f \in Nat
        BY <1>1, <1>2, <1>3, <1>4, <2>1
    <2>3. \A g \in First : g = f
        <3> TAKE g \in First
        <3>1. g \in D /\ g <= f /\ f <= g
            BY <1>3, <1>4, <2>1
        <3>2. f \in Nat /\ g \in Nat
            BY <1>1, <2>2, <3>1
        <3> QED
            BY <3>1, <3>2
    <2>4. \A n \in D : n < f => old[When(n)] = "FALSE" /\ new[When(n)] = "FALSE"
        <3> SUFFICES ASSUME NEW n \in D, n < f
                     PROVE  old[When(n)] = "FALSE" /\ new[When(n)] = "FALSE"
            OBVIOUS
        <3>1. old[When(n)] # "UNKNOWN"
            BY <1>5, <2>3
        <3>2. old[When(n)] # "TRUE"
            BY <1>1, <1>3, <1>4, <2>1, <2>2
        <3> QED
            BY <1>2, <3>1, <3>2 DEF Tri
    <2>5. \A k \in TrueVariants(rule, new) : f <= k
        <3> TAKE k \in TrueVariants(rule, new)
        <3>1. k \in D /\ new[When(k)] = "TRUE"
            BY <1>3
        <3>2. ~(k < f)
            BY <2>4, <3>1
        <3> QED
            BY <1>1, <2>2, <3>1, <3>2
    <2>6. f \in Chosen(rule, new)
        BY <1>3, <1>4, <2>2, <2>5
    <2>7. \A g \in Chosen(rule, new) : g = f
        <3> TAKE g \in Chosen(rule, new)
        <3>1. g \in D /\ g <= f /\ f <= g
            BY <1>3, <1>4, <2>2, <2>5
        <3>2. f \in Nat /\ g \in Nat
            BY <1>1, <2>2, <3>1
        <3> QED
            BY <3>1, <3>2
    <2>8. First = {f} /\ Chosen(rule, new) = {f}
        BY <2>1, <2>3, <2>6, <2>7
    <2>9. ~VariantUnknown(rule, new)
        BY <1>6, <2>4, <2>8
    <2> QED
        BY <2>8, <2>9 DEF First
<1> QED
    BY <1>7, <1>8

\* A rule emits a row that is not to review again when more is known.
LEMMA EmitSettles ==
    ASSUME NEW rule \in RuleData, NEW old, NEW new, Firmer(old, new), NEW date \in Agms
    PROVE  Settled(EmitRows(rule, old, date)) \subseteq EmitRows(rule, new, date)
<1> DEFINE Emit(spec, unknown) ==
               LET due == DueDate(rule, spec.offset, date)
               IN  [code |-> rule.code, label |-> spec.label, subject |-> rule.subject,
                    director |-> None, due |-> due, ext |-> None,
                    flag |-> due = None \/ unknown,
                    why |-> IF due = None THEN "missing_anchor"
                            ELSE IF unknown THEN "applicability_unknown" ELSE None]
<1> SUFFICES ASSUME NEW d \in EmitRows(rule, old, date), ~d.flag
             PROVE  d \in EmitRows(rule, new, date)
    BY DEF Settled
<1>1. PICK spec \in OffsetSpecs(rule, old) : d = Emit(spec, VariantUnknown(rule, old))
    BY DEF EmitRows
<1>2. ~VariantUnknown(rule, old)
    BY <1>1
<1>3. Chosen(rule, new) = Chosen(rule, old) /\ ~VariantUnknown(rule, new)
    BY <1>2, VariantsSettle
<1>4. OffsetSpecs(rule, new) = OffsetSpecs(rule, old)
    BY <1>3, Zenon DEF OffsetSpecs
<1>5. VariantUnknown(rule, new) = VariantUnknown(rule, old)
    BY <1>2, <1>3 DEF VariantUnknown
<1>6. EmitRows(rule, new, date) =
          {Emit(s, VariantUnknown(rule, new)) : s \in OffsetSpecs(rule, new)}
    BY DEF EmitRows
<1> HIDE DEF Emit
<1> QED
    BY <1>1, <1>4, <1>5, <1>6

\* So do all the rules.
LEMMA EmittedSettles ==
    ASSUME NEW ds \in Datasets, NEW old, NEW new, Firmer(old, new), NEW date \in Agms
    PROVE  Settled(Emitted(ds, old, date)) \subseteq Emitted(ds, new, date)
<1> SUFFICES ASSUME NEW d \in Emitted(ds, old, date), ~d.flag
             PROVE  d \in Emitted(ds, new, date)
    BY DEF Settled
<1>1. PICK n \in Active(ds, old) : d \in RowsOf(ds[n], old, date)
    BY EmittedBy
<1>2. n \in DOMAIN ds /\ ds[n] \in RuleData /\ ds[n].phase = 1 /\ Applies(ds[n], old) # "FALSE"
    BY RuleTyped DEF Active
<1>3. Applies(ds[n], old) # "UNKNOWN"
    BY <1>1, <1>2, RowsOfRule
<1>4. Applies(ds[n], new) = Applies(ds[n], old)
    BY <1>2, <1>3, AppliesFirmer
<1>5. d \in EmitRows(ds[n], old, date)
    BY <1>1, <1>3 DEF RowsOf
<1>6. d \in EmitRows(ds[n], new, date)
    BY <1>2, <1>5, EmitSettles DEF Settled
<1>7. d \in RowsOf(ds[n], new, date)
    BY <1>3, <1>4, <1>6 DEF RowsOf
<1>8. n \in Active(ds, new)
    BY <1>2, <1>4 DEF Active
<1> QED
    BY <1>7, <1>8, EmittedBy

\* Supersession leaves it again: no rule that may supersede it is left.
LEMMA SupersessionSettles ==
    ASSUME NEW ds \in Datasets, NEW old, NEW new, Firmer(old, new), NEW date \in Agms
    PROVE  Settled(ApplySupersession(ds, old, Emitted(ds, old, date)))
               \subseteq ApplySupersession(ds, new, Emitted(ds, new, date))
<1> DEFINE before == Emitted(ds, old, date)
           now == Emitted(ds, new, date)
           N == Len(ds)
<1>1. /\ ApplySupersession(ds, old, before) = After(ds, old, before, N)
      /\ ApplySupersession(ds, new, now) = After(ds, new, now, N)
    BY Supersession
<1>2. /\ Settled(before) \subseteq now
      /\ before \subseteq DraftRow
    BY EmittedSettles, EmittedShape
<1>3. \A k \in Active(ds, new) :
          /\ k \in Active(ds, old)
          /\ Applies(ds[k], old) = "UNKNOWN" \/ Applies(ds[k], new) = Applies(ds[k], old)
    BY AppliesFirmer DEF Active, Tri
<1> HIDE DEF before, now
<1> SUFFICES ASSUME NEW d \in After(ds, old, before, N), ~d.flag
             PROVE  d \in After(ds, new, now, N)
    BY <1>1 DEF Settled, before, now
<1>4. PICK e \in before : d = Mark(ds, old, N, e) /\ ~Removes(ds, old, N, e.code)
    BY DEF After
<1>5. e \in DraftRow
    BY <1>2
<1>6. ~Doubts(ds, old, N, e.code) /\ d = e
    BY <1>4, <1>5, Marked
<1>7. \A k \in Active(ds, old) : e.code \notin ds[k].supersedes
    BY <1>4, <1>6, AfterAll
<1>8. ~Doubts(ds, new, N, e.code) /\ ~Removes(ds, new, N, e.code)
    BY <1>3, <1>7 DEF Doubts, Removes
<1>9. e \in now
    BY <1>2, <1>6 DEF Settled
<1>10. Mark(ds, new, N, e) = e
    BY <1>8 DEF Mark
<1> QED
    BY <1>6, <1>8, <1>9, <1>10 DEF After

\* And so does compute_calendar.
LEMMA CalendarSettles ==
    ASSUME NEW ds \in Datasets, NEW old, NEW new, Learnt(old, new), NEW date \in Agms
    PROVE  Settled(ComputeCalendar(ds, old, date)) \subseteq ComputeCalendar(ds, new, date)
<1> DEFINE t == Evaluation(old)
           u == Evaluation(new)
           before == ApplySupersession(ds, t, Emitted(ds, t, date))
           now == ApplySupersession(ds, u, Emitted(ds, u, date))
<1>1. Firmer(t, u)
    BY LearntIsFirmer
<1>2. /\ ComputeCalendar(ds, old, date) = ApplyExtensions(t, before)
      /\ ComputeCalendar(ds, new, date) = ApplyExtensions(u, now)
    BY DEF ComputeCalendar
<1> HIDE DEF t, u
<1>3. Settled(before) \subseteq now
    BY <1>1, SupersessionSettles
<1>4. before \in SUBSET DraftRow /\ now \in SUBSET DraftRow
    BY SupersededShape
<1> HIDE DEF before, now
<1> QED
    BY <1>1, <1>2, <1>3, <1>4, ExtensionsSettle DEF Firmer

\* What may apply when more is known, may apply before.
LEMMA DeclaredBefore ==
    ASSUME NEW ds \in Datasets, NEW old, NEW new, Firmer(old, new)
    PROVE  Declared(ds, new) \subseteq Declared(ds, old)
<1>1. \A k \in DOMAIN ds :
          /\ Applies(ds[k], old) = "FALSE" => Applies(ds[k], new) = "FALSE"
          /\ Applies(ds[k], old) = "TRUE" => Applies(ds[k], new) = "TRUE"
    BY AppliesFirmer
<1>2. \A k \in Active(ds, new) : k \in Active(ds, old)
    BY <1>1 DEF Active
<1>3. \A k \in Active(ds, old) : Applies(ds[k], old) = "TRUE" =>
          k \in Active(ds, new) /\ Applies(ds[k], new) = "TRUE"
    BY <1>1 DEF Active
<1> QED
    BY <1>2, <1>3 DEF Declared

-----------------------------------------------------------------------------
(* The rows of the directors.                                              *)

\* The directors who have rows.
Subjects(alloc) ==
    {x \in Directors : /\ alloc[x] # NoDin
                       /\ alloc[x] # None => ~Before(FyEnd(Fy), alloc[x])}

DirectorRow(d, x, alloc) ==
    IF alloc[x] = None
    THEN [d EXCEPT !.director = x, !.flag = TRUE, !.why = "applicability_unknown"]
    ELSE [d EXCEPT !.director = x]

\* A draft is a company row, or the row of a director.
LEMMA Expanded ==
    ASSUME NEW rows, NEW alloc, NEW d
    PROVE  d \in ExpandDirectorSubjects(rows, alloc) <=>
               \/ d \in rows /\ d.subject # "director"
               \/ \E e \in rows, x \in Subjects(alloc) :
                      e.subject = "director" /\ d = DirectorRow(e, x, alloc)
<1>1. ExpandDirectorSubjects(rows, alloc) =
          {e \in rows : e.subject # "director"} \cup
          {DirectorRow(e, x, alloc) : e \in {f \in rows : f.subject = "director"}, x \in Subjects(alloc)}
    BY DEF ExpandDirectorSubjects, DirectorRow, Subjects
<1> QED
    BY <1>1

\* The row of a director is a row, to review when the allocation date is missing.
LEMMA DirectorRowTyped ==
    ASSUME NEW d \in DraftRow, NEW x \in Directors, NEW alloc
    PROVE  LET e == DirectorRow(d, x, alloc)
           IN  /\ e \in DraftRow /\ e.code = d.code /\ e.director = x
               /\ alloc[x] = None => e.flag
               /\ alloc[x] # None => e.flag = d.flag
<1>1. CASE alloc[x] = None
    <2> DEFINE e == [d EXCEPT !.director = x, !.flag = TRUE, !.why = "applicability_unknown"]
    <2>1. /\ e \in Row /\ e.code = d.code /\ e.director = x /\ e.flag = TRUE
          /\ e.why = "applicability_unknown"
        BY DEF DraftRow, Row, Reasons
    <2>2. e \in DraftRow
        BY <2>1, FactsTyped DEF DraftRow
    <2>3. DirectorRow(d, x, alloc) = e
        BY <1>1 DEF DirectorRow
    <2> HIDE DEF e
    <2> QED
        BY <1>1, <2>1, <2>2, <2>3
<1>2. CASE alloc[x] # None
    <2> DEFINE e == [d EXCEPT !.director = x]
    <2>1. /\ e \in Row /\ e.code = d.code /\ e.director = x /\ e.flag = d.flag
          /\ e.why = d.why /\ e.due = d.due
        BY DEF DraftRow, Row
    <2>2. e \in DraftRow
        BY <2>1 DEF DraftRow
    <2>3. DirectorRow(d, x, alloc) = e
        BY <1>2 DEF DirectorRow
    <2> HIDE DEF e
    <2> QED
        BY <1>2, <2>1, <2>2, <2>3
<1> QED
    BY <1>1, <1>2

-----------------------------------------------------------------------------
(* The theorems.                                                           *)

Current == drafts = Drafts(rules, bag, agm, allocated)

IInv ==
    /\ rules \in Datasets
    /\ bag \in [Attrs -> (UNION {ValuesOf[a] : a \in Attrs}) \cup {Absent}]
    /\ agm \in Agms
    /\ allocated \in [Directors -> Allocations \cup {None, NoDin}]
    /\ Current

\* At first nothing is known, and the calendar is the one of nothing.
LEMMA Starting == Init => IInv
<1> DEFINE U == UNION {ValuesOf[b] : b \in Attrs}
           V == U \cup {Absent}
<1> HIDE DEF U
<1>0. Absent \in V
    OBVIOUS
<1>2. ASSUME NEW f \in [Directors -> {None, NoDin}]
      PROVE  f \in [Directors -> Allocations \cup {None, NoDin}]
    <2>1. \A x \in Directors : f[x] \in Allocations \cup {None, NoDin}
        OBVIOUS
    <2> QED
        BY <2>1
<1> HIDE DEF V
<1>1. [a \in Attrs |-> Absent] \in [Attrs -> V]
    BY <1>0
<1>3. Init => bag \in [Attrs -> V] /\ allocated \in [Directors -> Allocations \cup {None, NoDin}]
    BY <1>1, <1>2 DEF Init
<1>4. Init => rules \in Datasets /\ agm \in Agms /\ Current
    BY DEF Init, Agms, Current
<1>5. Init => bag \in [Attrs -> (UNION {ValuesOf[a] : a \in Attrs}) \cup {Absent}]
    BY <1>3 DEF V, U
<1> QED
    BY <1>3, <1>4, <1>5, Zenon DEF IInv

\* Every fact keeps its type, and the drafts are recomputed.
LEMMA Inductive == IInv /\ [Next]_vars => IInv'
<1> SUFFICES ASSUME IInv, [Next]_vars PROVE IInv'
    OBVIOUS
<1>1. ASSUME NEW a \in Attrs, Learn(a) PROVE IInv'
    <2>1. PICK v \in ValuesOf[a] : bag' = [bag EXCEPT ![a] = v]
        BY <1>1 DEF Learn
    <2>2. v \in UNION {ValuesOf[b] : b \in Attrs}
        OBVIOUS
    <2>3. bag' \in [Attrs -> (UNION {ValuesOf[b] : b \in Attrs}) \cup {Absent}]
        <3> DEFINE V == (UNION {ValuesOf[b] : b \in Attrs}) \cup {Absent}
        <3>1. v \in V /\ bag \in [Attrs -> V]
            BY <2>2 DEF IInv
        <3> HIDE DEF V
        <3>2. bag' \in [Attrs -> V]
            BY <2>1, <3>1
        <3> QED
            BY <3>2 DEF V
    <2> QED
        BY <1>1, <2>3 DEF Learn, Recompute, IInv, Current
<1>2. ASSUME NEW d \in AgmDates \cup {None}, SetAgm(d) PROVE IInv'
    BY <1>2 DEF SetAgm, Recompute, IInv, Current, Agms
<1>3. ASSUME NEW x \in Directors, LearnDin(x) PROVE IInv'
    BY <1>3 DEF LearnDin, Recompute, IInv, Current
<1>4. CASE UNCHANGED vars
    BY <1>4 DEF vars, facts, IInv, Current
<1> QED
    BY <1>1, <1>2, <1>3, <1>4 DEF Next

LEMMA Always == Spec => []IInv
BY Starting, Inductive, PTL DEF Spec

\* So every draft is a row.
LEMMA DraftsTyped == IInv => drafts \subseteq DraftRow
<1> SUFFICES ASSUME IInv, NEW d \in drafts PROVE d \in DraftRow
    OBVIOUS
<1> DEFINE rows == ComputeCalendar(rules, bag, agm)
<1>1. rows \subseteq DraftRow
    BY CalendarShape DEF IInv
<1>2. d \in ExpandDirectorSubjects(rows, allocated)
    BY DEF IInv, Current, Drafts
<1> HIDE DEF rows
<1>3. CASE d \in rows
    BY <1>1, <1>3
<1>4. CASE \E e \in rows, x \in Subjects(allocated) : d = DirectorRow(e, x, allocated)
    BY <1>1, <1>4, DirectorRowTyped DEF Subjects
<1> QED
    BY <1>2, <1>3, <1>4, Expanded

(* Every draft has its type, for every dataset and every fact: the end of  *)
(* month and the leap days never make a day that is not in the calendar,   *)
(* and a row without a date is in the review queue.                        *)
THEOREM TypeCorrect == Spec => []TypeOK
<1>1. IInv => TypeOK
    <2> SUFFICES ASSUME IInv PROVE TypeOK
        OBVIOUS
    <2>1. ASSUME NEW d \in DraftRow
          PROVE  /\ d.code \in Codes
                 /\ d.flag <=> d.why # None
                 /\ IF d.due = None THEN d.flag ELSE IsDate(d.due)
        BY DEF DraftRow, Row, Days
    <2> QED
        BY <2>1, DraftsTyped DEF IInv, TypeOK, Agms
<1> QED
    BY <1>1, Always, PTL

(* The loop over the rules leaves what the dataset declares, in every      *)
(* order of its codes.                                                     *)
THEOREM Declares == Spec => []SupersessionAsDeclared
<1>1. IInv => SupersessionAsDeclared
    <2> SUFFICES ASSUME IInv PROVE SupersessionAsDeclared
        OBVIOUS
    <2> DEFINE truth == Evaluation(bag)
               active == Active(rules, truth)
               rows == ComputeCalendar(rules, bag, agm)
               Superseders(n) == {k \in active : rules[n].code \in rules[k].supersedes}
    <2>1. /\ \A d \in rows :
                 /\ \E n \in Declared(rules, truth) : d.code = rules[n].code
                 /\ \A k \in active : d.code \in rules[k].supersedes => d.flag
          /\ \A n \in Declared(rules, truth) : \E d \in rows : d.code = rules[n].code
        BY CalendarShape DEF IInv
    <2>2. Declared(rules, truth) =
              {n \in active : \A s \in Superseders(n) : Applies(rules[s], truth) # "TRUE"}
        BY DEF Declared
    <2> HIDE DEF rows, truth
    <2>3. {d.code : d \in rows} = {rules[n].code : n \in Declared(rules, truth)}
        BY <2>1
    <2>4. \A n \in active : Superseders(n) # {} => \A d \in rows : d.code = rules[n].code => d.flag
        BY <2>1
    <2> QED
        BY <2>2, <2>3, <2>4, Zenon DEF SupersessionAsDeclared, Active, rows, truth
<1> QED
    BY <1>1, Always, PTL

\* Apart from the AGM date, a step only adds facts.
LEMMA StepLearns ==
    ASSUME IInv, [Next]_vars
    PROVE  /\ rules' = rules /\ Learnt(bag, bag') /\ agm' \in Agms
           /\ \A x \in Directors : allocated[x] \in {None, NoDin} \/ allocated'[x] = allocated[x]
<1>1. ASSUME NEW a \in Attrs, Learn(a) PROVE Learnt(bag, bag')
    BY <1>1 DEF IInv, Learn, Learnt
<1>2. ASSUME NEW x \in Directors, LearnDin(x)
      PROVE  \A y \in Directors : allocated[y] \in {None, NoDin} \/ allocated'[y] = allocated[y]
    BY <1>2 DEF IInv, LearnDin
<1>3. (\A a \in Attrs : ~Learn(a)) => bag' = bag
    BY DEF Next, vars, facts, SetAgm, LearnDin
<1>4. (\A x \in Directors : ~LearnDin(x)) => allocated' = allocated
    BY DEF Next, vars, facts, SetAgm, Learn
<1>5. rules' = rules
    BY DEF Next, vars, facts, SetAgm, Learn, LearnDin
<1>6. agm' \in Agms
    BY Inductive DEF IInv
<1> QED
    BY <1>1, <1>2, <1>3, <1>4, <1>5, <1>6 DEF Learnt

\* Who has rows when more is known, had them before or had no DIN.
LEMMA SubjectsShrink ==
    ASSUME NEW old, NEW new, \A x \in Directors : old[x] \in {None, NoDin} \/ new[x] = old[x]
    PROVE  /\ \A x \in Subjects(new) : x \in Subjects(old) \/ old[x] = NoDin
           /\ \A x \in Subjects(old) : old[x] # None => x \in Subjects(new) /\ new[x] = old[x]
BY FactsTyped DEF Subjects

\* An obligation of the company, whatever the AGM date, was one when less was known.
LEMMA CalendarKept ==
    ASSUME NEW ds \in Datasets, NEW old, NEW new, Learnt(old, new),
           NEW date \in Agms, NEW later \in Agms, NEW d \in ComputeCalendar(ds, new, later)
    PROVE  \E e \in ComputeCalendar(ds, old, date) : e.code = d.code /\ e.subject = d.subject
<1>1. PICK n \in Declared(ds, Evaluation(new)) : d.code = ds[n].code /\ d.subject = ds[n].subject
    BY CalendarShape
<1>2. n \in Declared(ds, Evaluation(old))
    BY <1>1, LearntIsFirmer, DeclaredBefore
<1>3. PICK e \in ComputeCalendar(ds, old, date) : e.code = ds[n].code
    BY <1>2, CalendarShape
<1>4. PICK m \in Declared(ds, Evaluation(old)) : e.code = ds[m].code /\ e.subject = ds[m].subject
    BY <1>3, CalendarShape
<1>5. m = n
    BY <1>2, <1>3, <1>4, RulesTyped DEF Declared, Active
<1> QED
    BY <1>1, <1>3, <1>4, <1>5

\* What the restated step adds: the duties of a director who had no DIN.
OfNewcomer(duty) == duty.director \in Directors /\ allocated[duty.director] = NoDin

(* A fact that comes in late adds no obligation but those of a director    *)
(* whose DIN it supplies: everything else that the fully known company and *)
(* its directors owe was in the calendar all along.                        *)
THEOREM ObligationsKept == Spec => NothingLost
<1>1. ASSUME IInv, IInv', [Next]_vars
      PROVE  \A duty \in Duties' \ Duties : OfNewcomer(duty)
    <2> DEFINE old == ComputeCalendar(rules, bag, agm)
               new == ComputeCalendar(rules', bag', agm')
    <2>1. /\ rules' = rules /\ Learnt(bag, bag') /\ agm' \in Agms
          /\ \A x \in Directors : allocated[x] \in {None, NoDin} \/ allocated'[x] = allocated[x]
        BY <1>1, StepLearns
    <2>2. /\ drafts = ExpandDirectorSubjects(old, allocated)
          /\ drafts' = ExpandDirectorSubjects(new, allocated')
          /\ rules \in Datasets /\ agm \in Agms
        BY <1>1 DEF IInv, Current, Drafts
    <2>3. /\ \A d \in old : d \in DraftRow /\ d.director = None
          /\ \A d \in new : d \in DraftRow /\ d.director = None
        BY <2>1, <2>2, CalendarShape
    <2>4. \A d \in new : \E e \in old : e.code = d.code /\ e.subject = d.subject
        BY <2>1, <2>2, CalendarKept
    <2>5. \A x \in Subjects(allocated') : x \in Subjects(allocated) \/ allocated[x] = NoDin
        BY <2>1, SubjectsShrink
    <2> HIDE DEF old, new
    <2>0. ASSUME NEW d \in drafts', \E e \in drafts : e.code = d.code /\ e.director = d.director
          PROVE  [code |-> d.code, director |-> d.director] \in Duties
        BY <2>0 DEF Duties
    <2> SUFFICES ASSUME NEW d \in drafts'
                 PROVE  \/ \E e \in drafts : e.code = d.code /\ e.director = d.director
                        \/ d.director \in Directors /\ allocated[d.director] = NoDin
        BY <2>0 DEF Duties, OfNewcomer
    <2>6. CASE d \in new /\ d.subject # "director"
        <3>1. PICK e \in old : e.code = d.code /\ e.subject = d.subject
            BY <2>4, <2>6
        <3>2. e \in drafts
            BY <2>2, <2>6, <3>1, Expanded
        <3> QED
            BY <2>3, <2>6, <3>1, <3>2
    <2>7. ASSUME NEW f \in new, NEW x \in Subjects(allocated'), f.subject = "director",
                 d = DirectorRow(f, x, allocated')
          PROVE  \/ \E e \in drafts : e.code = d.code /\ e.director = d.director
                 \/ d.director \in Directors /\ allocated[d.director] = NoDin
        <3>1. PICK e \in old : e.code = f.code /\ e.subject = f.subject
            BY <2>4
        <3>2. x \in Directors
            BY DEF Subjects
        <3>3. /\ DirectorRow(e, x, allocated).code = e.code /\ d.code = f.code
              /\ DirectorRow(e, x, allocated).director = x /\ d.director = x
            BY <2>3, <2>7, <3>2, DirectorRowTyped
        <3>4. CASE x \in Subjects(allocated)
            <4>1. DirectorRow(e, x, allocated) \in drafts
                BY <2>2, <2>7, <3>1, <3>4, Expanded
            <4> QED
                BY <3>1, <3>3, <4>1
        <3>5. CASE allocated[x] = NoDin
            BY <3>2, <3>3, <3>5
        <3> QED
            BY <2>5, <3>4, <3>5
    <2> QED
        BY <2>2, <2>6, <2>7, Expanded
<1>2. IInv /\ IInv' /\ [Next]_vars =>
          [\A duty \in Duties' \ Duties :
               duty.director \in Directors /\ allocated[duty.director] = NoDin]_vars
    BY <1>1 DEF OfNewcomer
<1> QED
    BY <1>2, Always, PTL DEF Spec, NothingLost

(* While the AGM date stands, no fact that comes in late touches a row     *)
(* that is not in the review queue.                                        *)
THEOREM SettledRowsStay == Spec => SettledStays
<1>1. ASSUME IInv, IInv', [Next]_vars, agm' = agm
      PROVE  {d \in drafts : ~d.flag} \subseteq drafts'
    <2> DEFINE old == ComputeCalendar(rules, bag, agm)
               new == ComputeCalendar(rules', bag', agm')
    <2>1. /\ rules' = rules /\ Learnt(bag, bag')
          /\ \A x \in Directors : allocated[x] \in {None, NoDin} \/ allocated'[x] = allocated[x]
        BY <1>1, StepLearns
    <2>2. /\ drafts = ExpandDirectorSubjects(old, allocated)
          /\ drafts' = ExpandDirectorSubjects(new, allocated')
          /\ rules \in Datasets /\ agm \in Agms
        BY <1>1 DEF IInv, Current, Drafts
    <2>3. \A d \in old : d \in DraftRow
        BY <2>2, CalendarShape
    <2>4. Settled(old) \subseteq new
        BY <1>1, <2>1, <2>2, CalendarSettles
    <2>5. \A x \in Subjects(allocated) : allocated[x] # None =>
              x \in Subjects(allocated') /\ allocated'[x] = allocated[x]
        BY <2>1, SubjectsShrink
    <2> HIDE DEF old, new
    <2> SUFFICES ASSUME NEW d \in drafts, ~d.flag PROVE d \in drafts'
        OBVIOUS
    <2>6. CASE d \in old /\ d.subject # "director"
        BY <2>2, <2>4, <2>6, Expanded DEF Settled
    <2>7. ASSUME NEW e \in old, NEW x \in Subjects(allocated), e.subject = "director",
                 d = DirectorRow(e, x, allocated)
          PROVE  d \in drafts'
        <3>1. allocated[x] # None /\ ~e.flag
            BY <2>3, <2>7, DirectorRowTyped DEF Subjects
        <3>2. x \in Subjects(allocated') /\ allocated'[x] = allocated[x]
            BY <2>5, <3>1
        <3>3. d = DirectorRow(e, x, allocated')
            BY <2>7, <3>1, <3>2 DEF DirectorRow
        <3>4. e \in new
            BY <2>4, <3>1 DEF Settled
        <3> QED
            BY <2>2, <2>7, <3>2, <3>3, <3>4, Expanded
    <2> QED
        BY <2>2, <2>6, <2>7, Expanded
<1>2. IInv /\ IInv' /\ [Next]_vars =>
          [agm' = agm => {d \in drafts : ~d.flag} \subseteq drafts']_vars
    BY <1>1
<1> QED
    BY <1>2, Always, PTL DEF Spec, SettledStays

=============================================================================
