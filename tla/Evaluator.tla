----------------------------- MODULE Evaluator -----------------------------
(***************************************************************************)
(* compute_calendar (rules/evaluator.py) and the director rows that        *)
(* services/calendar.py derives from its drafts, for one company and one   *)
(* financial year.  The steps are the facts that come in: the calendar is  *)
(* a function of what is known so far, and the properties compare it       *)
(* before and after a fact arrives.                                        *)
(***************************************************************************)
EXTENDS Dates, Predicates, FiniteSets

CONSTANTS
    NoDin,       \* a director without a DIN
    Codes,       \* rule codes
    Datasets,    \* sequences of rules in force, in the order of their codes
    Extensions,  \* the sequence of the extensions of the year
    Fy,
    ValuesOf,    \* [Attrs -> values an attribute can get]
    AgmDates,    \* AGM dates of the company
    Directors,   \* directors in office during the year
    Allocations  \* DIN allocation dates

\* Dates, the entries of an anchor, what an offset_spec may be and the rules.
Days == {d \in [year: Int, month: 1..12, day: 1..31] : IsDate(d)}
Entries == [at: {"agm_date", "fixed_date"}] \cup [at: {"fy_end"}, plus: Int]
Offsets == [type: {"days"}, amount: Nat] \cup [type: {"months"}, amount: Int] \cup
           {o \in [type: {"fixed"}, year: {-1, 0, 1}, month: 1..12, day: 1..31] :
               IsDate(On(Fy + o.year, o.month, o.day))}
RuleData == [code: Codes, applicability: Preds, anchor: Seq(Entries),
             offset: Offsets \cup {None},
             variants: Seq([when: Preds, offset: Offsets \cup {None}]),
             occurrences: Seq([label: STRING, offset: Offsets \cup {None}]),
             supersedes: SUBSET Codes, subject: {"company", "director"}, phase: Int]

\* Codes are unique (models/rules.py); on anything else evaluate, resolve_anchor
\* and apply_offset raise.
ASSUME RulesTyped ==
    \A rules \in Datasets : /\ rules \in Seq(RuleData)
                            /\ \A m, n \in DOMAIN rules : rules[m].code = rules[n].code => m = n

ASSUME FactsTyped ==
    /\ Fy \in Int /\ AgmDates \subseteq Days
    /\ Extensions \in Seq([rule: Codes, ref: STRING, applies: Preds])
    /\ None \notin {"missing_anchor", "applicability_unknown", NoDin}

\* A rule that supersedes another is not superseded itself: with chains the
\* result would depend on the order of the codes.
ASSUME NoChains ==
    \A rules \in Datasets : \A a, b \in DOMAIN rules :
        rules[b].code \in rules[a].supersedes => rules[b].supersedes = {}

VARIABLES
    rules,     \* the dataset
    bag,       \* [Attrs -> value or Absent]: the company's columns and FY facts
    agm,       \* the company's agm_date
    allocated, \* [Directors -> DIN allocation date, None or NoDin]
    drafts     \* the calendar of what is known

facts == <<rules, bag, agm, allocated>>
vars == <<facts, drafts>>

-----------------------------------------------------------------------------
(* _emit_rows.                                                             *)

TrueVariants(rule, truth) == {n \in DOMAIN rule.variants : truth[rule.variants[n].when] = "TRUE"}

\* The first TRUE variant, in a set of one or none.
Chosen(rule, truth) ==
    {n \in TrueVariants(rule, truth) : \A k \in TrueVariants(rule, truth) : n <= k}

\* A TRUE variant replaces all the occurrences by a single row.
OffsetSpecs(rule, truth) ==
    IF Chosen(rule, truth) # {}
    THEN {[label |-> "", offset |-> rule.variants[n].offset] : n \in Chosen(rule, truth)}
    ELSE IF rule.occurrences # <<>>
         THEN {rule.occurrences[n] : n \in DOMAIN rule.occurrences}
         ELSE {[label |-> "", offset |-> rule.offset]}

\* Mutant: an unknown variant is taken for a false one.
VariantsKnown(rule, truth) == FALSE

\* The loop stops at the first TRUE variant.
VariantUnknown(rule, truth) ==
    \E n \in DOMAIN rule.variants :
        /\ truth[rule.variants[n].when] = "UNKNOWN"
        /\ \A first \in Chosen(rule, truth) : n < first

DueDate(rule, offset, agmDate) ==
    IF offset = None THEN None
    ELSE ApplyOffset(offset, ResolveAnchor(rule.anchor, agmDate, Fy), Fy)

ToReview(d) == [d EXCEPT !.flag = TRUE,
                         !.why = IF @ = None THEN "applicability_unknown" ELSE @]

EmitRows(rule, truth, agmDate) ==
    {LET due == DueDate(rule, spec.offset, agmDate)
     IN  [code |-> rule.code, label |-> spec.label, subject |-> rule.subject,
          director |-> None, due |-> due, ext |-> None,
          flag |-> due = None \/ VariantUnknown(rule, truth),
          why |-> IF due = None THEN "missing_anchor"
                  ELSE IF VariantUnknown(rule, truth) THEN "applicability_unknown" ELSE None] :
        spec \in OffsetSpecs(rule, truth)}

-----------------------------------------------------------------------------
(* compute_calendar.  A code has rows or it has none.                      *)

Applies(rule, truth) == truth[rule.applicability]

Emitted(dataset, truth, agmDate) ==
    UNION {LET rule == dataset[n]
               Row(d) == IF Applies(rule, truth) = "UNKNOWN" THEN ToReview(d) ELSE d
           IN  {Row(d) : d \in EmitRows(rule, truth, agmDate)} :
              n \in {k \in DOMAIN dataset :
                        dataset[k].phase = 1 /\ Applies(dataset[k], truth) # "FALSE"}}

\* The change, made on the rows of some rules.
OnRows(rows, codes, Change(_)) == {IF d.code \in codes THEN Change(d) ELSE d : d \in rows}

HasRows(rule, rows) == \E d \in rows : d.code = rule.code

\* Mutant: a rule that may apply suppresses the general one.
SupersededByMaybe(rule, truth, rows) ==
    IF ~HasRows(rule, rows) THEN rows ELSE {d \in rows : d.code \notin rule.supersedes}

\* The rule that definitely applies removes the rows of the general one.
SupersededBy(rule, truth, rows) ==
    IF ~HasRows(rule, rows) THEN rows
    ELSE IF Applies(rule, truth) = "TRUE" THEN {d \in rows : d.code \notin rule.supersedes}
    ELSE OnRows(rows, rule.supersedes, ToReview)

ApplySupersession(dataset, truth, rows) ==
    LET after[n \in 0..Len(dataset)] ==
            IF n = 0 THEN rows ELSE SupersededBy(dataset[n], truth, after[n - 1])
    IN  after[Len(dataset)]

\* The extension is recorded beside the date.
ExtendedBy(ext, truth, rows) ==
    LET Extend(d) == [d EXCEPT !.ext = ext.ref]
        ExtendToReview(d) == ToReview(Extend(d))
    IN  CASE truth[ext.applies] = "FALSE" -> rows
          [] truth[ext.applies] = "TRUE"  -> OnRows(rows, {ext.rule}, Extend)
          [] OTHER                        -> OnRows(rows, {ext.rule}, ExtendToReview)

ApplyExtensions(truth, rows) ==
    LET after[n \in 0..Len(Extensions)] ==
            IF n = 0 THEN rows ELSE ExtendedBy(Extensions[n], truth, after[n - 1])
    IN  after[Len(Extensions)]

ComputeCalendar(dataset, attrs, agmDate) ==
    LET truth == Evaluation(attrs)
    IN  ApplyExtensions(truth,
            ApplySupersession(dataset, truth, Emitted(dataset, truth, agmDate)))

\* _expand_director_subjects: a DIN allocated after the year end has no row; an
\* unknown allocation date overwrites the reason of the draft.
ExpandDirectorSubjects(rows, alloc) ==
    {d \in rows : d.subject # "director"} \cup
    {IF alloc[x] = None
     THEN [d EXCEPT !.director = x, !.flag = TRUE, !.why = "applicability_unknown"]
     ELSE [d EXCEPT !.director = x] :
        d \in {e \in rows : e.subject = "director"},
        x \in {y \in Directors : /\ alloc[y] # NoDin
                                 /\ alloc[y] # None => ~Before(FyEnd(Fy), alloc[y])}}

Drafts(dataset, attrs, agmDate, alloc) ==
    ExpandDirectorSubjects(ComputeCalendar(dataset, attrs, agmDate), alloc)

-----------------------------------------------------------------------------
(* The facts.                                                              *)

Init ==
    /\ rules \in Datasets
    /\ bag = [a \in Attrs |-> Absent]
    /\ agm = None
    /\ allocated \in [Directors -> {None, NoDin}]
    /\ drafts = Drafts(rules, bag, agm, allocated)

\* The drafts the next generate gets.
Recompute == drafts' = Drafts(rules', bag', agm', allocated')

\* put_fy_attributes or update_company supplies a missing fact.
Learn(a) ==
    /\ bag[a] = Absent
    /\ \E v \in ValuesOf[a] : bag' = [bag EXCEPT ![a] = v]
    /\ UNCHANGED <<rules, agm, allocated>>
    /\ Recompute

\* update_company sets, moves or clears the AGM date.
SetAgm(d) ==
    /\ d # agm
    /\ agm' = d
    /\ UNCHANGED <<rules, bag, allocated>>
    /\ Recompute

\* update_director supplies a DIN, with or without its allocation date, or the
\* allocation date of the DIN it has.
LearnDin(x) ==
    /\ allocated[x] \in {NoDin, None}
    /\ \E d \in (Allocations \cup {None}) \ {allocated[x]} :
           allocated' = [allocated EXCEPT ![x] = d]
    /\ UNCHANGED <<rules, bag, agm>>
    /\ Recompute

Next ==
    \/ \E a \in Attrs : Learn(a)
    \/ \E d \in AgmDates \cup {None} : SetAgm(d)
    \/ \E x \in Directors : LearnDin(x)

Spec == Init /\ [][Next]_vars

-----------------------------------------------------------------------------
(* Safety.                                                                 *)

\* Every draft has its type, its due date is a date of the calendar (end of
\* month arithmetic clamps), and a row without a date is in the review queue
\* (rules/check.py).
TypeOK ==
    /\ rules \in Datasets
    /\ bag \in [Attrs -> (UNION {ValuesOf[a] : a \in Attrs}) \cup {Absent}]
    /\ agm \in AgmDates \cup {None}
    /\ allocated \in [Directors -> Allocations \cup {None, NoDin}]
    /\ \A d \in drafts : /\ d.code \in Codes
                         /\ d.flag <=> d.why # None
                         /\ IF d.due = None THEN d.flag ELSE IsDate(d.due)

Duties == {[code |-> d.code, director |-> d.director] : d \in drafts}

\* evaluator.py G1, predicates.py: an obligation is never silently dropped for a
\* fact nobody supplied.  A fact that comes in late can only take obligations
\* away, those of the company and of every director with a DIN were shown all
\* along.  A missing DIN is the one fact that hides a duty (docs/milestones/M4.md:
\* "no DIN -> skipped"): what appears late is due from a director who had none.
NothingLost ==
    [][\A duty \in Duties' \ Duties :
           duty.director \in Directors /\ allocated[duty.director] = NoDin]_vars

\* A row that is not in the review queue is settled: while the AGM date stands,
\* no fact still missing can remove it, move its date or change its extension.
SettledStays == [][agm' = agm => {d \in drafts : ~d.flag} \subseteq drafts']_vars

\* G2: the loop over the rules leaves what the dataset declares, whatever its
\* order: a rule in force has rows unless a rule that definitely applies
\* supersedes it, and they are to review when one that may apply does.
SupersessionAsDeclared ==
    LET truth == Evaluation(bag)
        active == {n \in DOMAIN rules : rules[n].phase = 1 /\ Applies(rules[n], truth) # "FALSE"}
        rows == ComputeCalendar(rules, bag, agm)
        Superseders(n) == {k \in active : rules[n].code \in rules[k].supersedes}
    IN  /\ {d.code : d \in rows} =
               {rules[n].code : n \in {k \in active :
                   \A s \in Superseders(k) : Applies(rules[s], truth) # "TRUE"}}
        /\ \A n \in active : Superseders(n) # {} =>
               \A d \in rows : d.code = rules[n].code => d.flag

=============================================================================
