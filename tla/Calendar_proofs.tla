--------------------------- MODULE Calendar_proofs ---------------------------
(***************************************************************************)
(* What Calendar guarantees for every rule dataset, every evaluator, every *)
(* set of patches and every number of versions.                            *)
(***************************************************************************)
EXTENDS Calendar, TLAPS

-----------------------------------------------------------------------------
(* Lemmas about the operators of CalendarData.                             *)

\* The version in force is one of the rule's versions, or there is none.
LEMMA EffectiveVersionInDomain ==
    ASSUME NEW vs \in Seq(Version)
    PROVE  /\ EffectiveVersion(vs) \in Nat
           /\ EffectiveVersion(vs) # 0 => EffectiveVersion(vs) \in DOMAIN vs
<1>1. InForce(vs) \subseteq DOMAIN vs
    BY DEF InForce
<1>2. InForce(vs) # {} => (CHOOSE n \in InForce(vs) : TRUE) \in InForce(vs)
    OBVIOUS
<1>3. DOMAIN vs \subseteq Nat /\ 0 \notin DOMAIN vs
    OBVIOUS
<1> QED
    BY <1>1, <1>2, <1>3 DEF EffectiveVersion

\* What generate holds for a slot is a well-formed draft of the version in force.
LEMMA DraftedTyped ==
    ASSUME NEW vs \in [Rules -> Seq(Version)], NEW f \in Facts,
           NEW xs \in SUBSET Extensions, NEW m \in [Rules -> Optional(xs)],
           NEW s \in Slots, Drafted(s, vs, f, xs, m) # None
    PROVE  LET d == Drafted(s, vs, f, xs, m)
               e == Evaluate[s, vs[RuleOf[s]][d.version].payload, f]
           IN  /\ d \in FullDraft
               /\ d.version = EffectiveVersion(vs[RuleOf[s]])
               /\ d.version \in DOMAIN vs[RuleOf[s]]
               /\ e # None /\ e.due = d.due
<1> DEFINE r == RuleOf[s]
           n == EffectiveVersion(vs[r])
           e == Evaluate[s, vs[r][n].payload, f]
           u == Supersede[InForcePayloads(vs), f][s] = "flag" \/ ExtensionUnknown(r, f, xs)
<1>1. r \in Rules /\ vs[r] \in Seq(Version)
    BY ConstantsTyped
<1>2. n # 0 /\ e # None /\ Supersede[InForcePayloads(vs), f][s] # "drop"
    BY DEF Drafted
<1>3. n \in Nat /\ n \in DOMAIN vs[r]
    BY <1>1, <1>2, EffectiveVersionInDomain
<1>4. vs[r][n] \in Version
    BY <1>1, <1>3
<1>5. vs[r][n].payload \in Payloads
    BY <1>4 DEF Version
<1>6. e \in Draft
    BY <1>2, <1>5, ConstantsTyped DEF Optional
<1>7. Drafted(s, vs, f, xs, m) =
        [version |-> n, due |-> e.due, ext |-> m[r], flag |-> e.flag \/ u,
         why |-> IF e.why = None /\ u THEN "applicability_unknown" ELSE e.why]
    BY <1>2 DEF Drafted
<1>8. m[r] \in Optional(Extensions)
    BY <1>1 DEF Optional
<1>9. (e.flag \/ u) \in BOOLEAN
    OBVIOUS
<1>10. (IF e.why = None /\ u THEN "applicability_unknown" ELSE e.why) \in Optional(Reasons)
    BY <1>6 DEF Draft, Reasons, Optional
<1>11. e.due \in Optional(Dates)
    BY <1>6 DEF Draft
<1>12. Drafted(s, vs, f, xs, m) \in FullDraft
    <2>1. n \in Nat \ {0}
        BY <1>2, <1>3
    <2> DEFINE ver == n  due == e.due  ext == m[r]  flag == e.flag \/ u
               why == IF e.why = None /\ u THEN "applicability_unknown" ELSE e.why
    <2>2. /\ ver \in Nat \ {0} /\ due \in Optional(Dates) /\ ext \in Optional(Extensions)
          /\ flag \in BOOLEAN /\ why \in Optional(Reasons)
        BY <2>1, <1>8, <1>9, <1>10, <1>11
    <2>3. Drafted(s, vs, f, xs, m) =
              [version |-> ver, due |-> due, ext |-> ext, flag |-> flag, why |-> why]
        BY <1>7
    <2> HIDE DEF ver, due, ext, flag, why, n, e, u, r
    <2> QED
        BY <2>2, <2>3 DEF FullDraft
<1>13. Drafted(s, vs, f, xs, m).version = n /\ Drafted(s, vs, f, xs, m).due = e.due
    <2> HIDE DEF n, e, u, r
    <2> QED
        BY <1>7
<1> QED
    <2> DEFINE d == Drafted(s, vs, f, xs, m)
    <2>1. d \in FullDraft /\ d.version = n /\ d.due = e.due /\ n \in DOMAIN vs[r] /\ e # None
        BY <1>2, <1>3, <1>12, <1>13
    <2> HIDE DEF d
    <2>2. Evaluate[s, vs[r][d.version].payload, f] = e
        BY <2>1
    <2> QED
        BY <2>1, <2>2 DEF d

\* generate writes well-formed rows and leaves the user's columns alone.
LEMMA GeneratedTyped ==
    ASSUME NEW row \in Optional(Row), NEW d \in Optional(FullDraft)
    PROVE  /\ Generated(row, d) \in Optional(Row)
           /\ row # None => Generated(row, d) \in Row
<1>1. ASSUME d \in FullDraft PROVE NewRow(d) \in Row
    BY <1>1 DEF NewRow, Row, FullDraft, Statuses, Optional
<1>2. ASSUME d \in FullDraft, row \in Row PROVE Revise(row, d) \in Row
    <2>1. [row EXCEPT !.version = d.version, !.due = d.due,
                      !.flag = TRUE, !.why = "rule_revised"] \in Row
        <3>1. /\ d.version \in Nat \ {0} /\ d.due \in Optional(Dates)
              /\ TRUE \in BOOLEAN /\ "rule_revised" \in Optional(Reasons)
            BY <1>2 DEF FullDraft, Reasons, Optional
        <3> QED
            BY <1>2, <3>1, Zenon DEF Row
    <2> DEFINE flag == row.flag \/ d.flag
               why == IF d.flag /\ ~row.flag THEN d.why ELSE row.why
               ext == IF d.ext # None THEN d.ext ELSE row.ext
    <2>2. flag \in BOOLEAN /\ d.version \in Nat \ {0}
        BY <1>2 DEF FullDraft
    <2>3. why \in Optional(Reasons) /\ ext \in Optional(Extensions)
        BY <1>2 DEF Row, FullDraft
    <2>4. [row EXCEPT !.version = d.version, !.flag = flag, !.why = why, !.ext = ext] \in Row
        <3> HIDE DEF flag, why, ext
        <3> QED
            BY <1>2, <2>2, <2>3, Zenon DEF Row
    <2> QED
        BY <2>1, <2>4 DEF Revise
<1> QED
    BY <1>1, <1>2 DEF Generated, Optional

\* The loader writes well-formed rows.
LEMMA FlaggedTyped == ASSUME NEW row \in Row PROVE Flagged(row) \in Row
    BY DEF Flagged, Row, Reasons, Optional

\* A patch writes well-formed rows.
LEMMA PatchedTyped ==
    ASSUME NEW row \in Row, NEW p, IsPatch(p), NEW acknowledge \in BOOLEAN
    PROVE  Patched(row, p, acknowledge) \in Row
<1>1. PICK v \in PatchValues, fields \in SUBSET UserColumns : p = [c \in fields |-> v[c]]
    BY DEF IsPatch
<1> DEFINE status == Sent(p, "status", row.status)
           srn == Sent(p, "srn", row.srn)
           ack == Sent(p, "ack", row.ack)
           assignee == Sent(p, "assignee", row.assignee)
           override == Sent(p, "override", row.override)
           reason == Sent(p, "reason", row.reason)
           flag == row.flag /\ ~acknowledge
           why == IF acknowledge THEN None ELSE row.why
<1>2. /\ status \in Statuses /\ srn \in Optional(Srns) /\ ack \in BOOLEAN
      /\ assignee \in Optional(Actors) /\ override \in Optional(Dates)
      /\ reason \in Optional(Notes)
    BY <1>1 DEF Sent, PatchValues, Row
<1>3. flag \in BOOLEAN /\ why \in Optional(Reasons)
    BY DEF Row, Optional
<1>4. [row EXCEPT !.status = status, !.srn = srn, !.ack = ack, !.assignee = assignee,
                  !.override = override, !.reason = reason,
                  !.flag = flag, !.why = why] \in Row
    <2> HIDE DEF status, srn, ack, assignee, override, reason, flag, why
    <2> QED
        BY <1>2, <1>3, Zenon DEF Row
<1> QED
    BY <1>4 DEF Patched

-----------------------------------------------------------------------------
(* Type correctness, one step per action.                                  *)

\* Loading a dataset appends well-formed versions and flags well-formed rows.
LEMMA LoadTypeOK ==
    ASSUME TypeOK, NEW entry \in [Rules -> Optional(Payloads)],
           NEW effective \in [Rules -> BOOLEAN], Load(entry, effective)
    PROVE  TypeOK'
<1> DEFINE changed == Changed(versions, entry)
<1>1. versions' \in [Rules -> Seq(Version)]
    <2>1. ASSUME NEW r \in changed
          PROVE  Append(versions[r], [payload |-> entry[r], effective |-> effective[r]])
                     \in Seq(Version)
        <3>1. r \in Rules /\ entry[r] \in Payloads
            BY <2>1 DEF Changed, Optional
        <3>2. [payload |-> entry[r], effective |-> effective[r]] \in Version
            BY <3>1 DEF Version
        <3> QED
            BY <3>1, <3>2 DEF TypeOK
    <2> QED
        BY <2>1 DEF Load, Extended, TypeOK
<1>2. rows' \in [Slots -> Optional(Row)]
    <2>1. \A s \in Slots : rows[s] # None => Flagged(rows[s]) \in Row
        BY FlaggedTyped DEF TypeOK, Optional
    <2> QED
        BY <2>1 DEF Load, TypeOK, Optional
<1> QED
    BY <1>1, <1>2 DEF Load, TypeOK

\* generate writes a well-formed row, or none, on every slot.
LEMMA GenerateTypeOK ==
    ASSUME TypeOK, NEW m \in Resolutions(facts, exts), Generate(m)
    PROVE  TypeOK'
<1>1. m \in [Rules -> Optional(exts)]
    BY DEF Resolutions
<1>2. ASSUME NEW s \in Slots
      PROVE  Generated(rows[s], Drafted(s, versions, facts, exts, m)) \in Optional(Row)
    <2>1. Drafted(s, versions, facts, exts, m) \in Optional(FullDraft)
        BY <1>1, DraftedTyped DEF TypeOK, Optional
    <2>2. rows[s] \in Optional(Row)
        BY DEF TypeOK
    <2> QED
        BY <2>1, <2>2, GeneratedTyped
<1>3. rows' \in [Slots -> Optional(Row)]
    BY <1>2 DEF Generate, Drafts
<1> QED
    BY <1>3 DEF Generate, TypeOK

\* A patch replaces one row by a well-formed one.
LEMMA PatchTypeOK ==
    ASSUME TypeOK, NEW actor \in Actors, NEW s \in Slots, NEW p \in Patches,
           NEW acknowledge \in BOOLEAN, Patch(actor, s, p, acknowledge)
    PROVE  TypeOK'
<1>1. IsPatch(p)
    BY PatchesTyped
<1>2. rows[s] \in Row
    BY DEF Patch, TypeOK, Optional
<1>3. Patched(rows[s], p, acknowledge) \in Optional(Row)
    BY <1>1, <1>2, PatchedTyped DEF Optional
<1>4. rows' \in [Slots -> Optional(Row)]
    BY <1>3 DEF Patch, TypeOK
<1>5. Len(versions[RuleOf[s]]) \in Nat
    BY ConstantsTyped DEF TypeOK
<1>6. seen' \in [Slots -> Nat]
    BY <1>5 DEF Patch, TypeOK
<1> QED
    BY <1>4, <1>6 DEF Patch, TypeOK

\* The state stays well-formed whatever requests arrive.
THEOREM TypeCorrect == Spec => []TypeOK
<1>1. Init => TypeOK
    BY DEF Init, TypeOK, Optional
<1>2. TypeOK /\ [Next]_vars => TypeOK'
    <2> SUFFICES ASSUME TypeOK, [Next]_vars PROVE TypeOK'
        OBVIOUS
    <2>1. CASE LoadSome
        BY <2>1, LoadTypeOK DEF LoadSome
    <2>2. ASSUME NEW e \in Extensions, AddExtension(e) PROVE TypeOK'
        BY <2>2 DEF AddExtension, TypeOK
    <2>3. ASSUME NEW f \in Facts, EditFacts(f) PROVE TypeOK'
        BY <2>3 DEF EditFacts, TypeOK
    <2>4. CASE GenerateSome
        BY <2>4, GenerateTypeOK DEF GenerateSome
    <2>5. ASSUME NEW s \in Slots, PatchSome(s) PROVE TypeOK'
        BY <2>5, PatchTypeOK DEF PatchSome
    <2>6. CASE UNCHANGED vars
        BY <2>6 DEF vars, TypeOK
    <2> QED
        BY <2>1, <2>2, <2>3, <2>4, <2>5, <2>6 DEF Next
<1> QED
    BY <1>1, <1>2, PTL DEF Spec

-----------------------------------------------------------------------------
(* What each kind of write leaves alone.                                   *)

\* generate and the loader leave every column of the users as it was.
LEMMA DerivedWritesKeepUserColumns ==
    ASSUME NEW row \in Row, NEW d \in FullDraft
    PROVE  \A w \in {Revise(row, d), Flagged(row)} :
               w.status = row.status /\ w.srn = row.srn /\ w.ack = row.ack
<1>1. Flagged(row).status = row.status /\ Flagged(row).srn = row.srn /\ Flagged(row).ack = row.ack
    BY DEF Flagged, Row
<1> DEFINE flag == row.flag \/ d.flag
           why == IF d.flag /\ ~row.flag THEN d.why ELSE row.why
           ext == IF d.ext # None THEN d.ext ELSE row.ext
           apart == [row EXCEPT !.version = d.version, !.due = d.due,
                                !.flag = TRUE, !.why = "rule_revised"]
           same == [row EXCEPT !.version = d.version, !.flag = flag, !.why = why, !.ext = ext]
<1>2. Revise(row, d) = apart \/ Revise(row, d) = same
    BY DEF Revise
<1>3. apart.status = row.status /\ apart.srn = row.srn /\ apart.ack = row.ack
    BY DEF Row
<1>4. same.status = row.status /\ same.srn = row.srn /\ same.ack = row.ack
    <2> HIDE DEF flag, why, ext
    <2> QED
        BY DEF Row
<1> HIDE DEF apart, same
<1> QED
    BY <1>1, <1>2, <1>3, <1>4

\* generate re-pins every row it has a draft for, and re-dates it to the draft.
LEMMA GeneratePins ==
    ASSUME NEW row \in Optional(Row), NEW d \in FullDraft
    PROVE  /\ Generated(row, d) # None
           /\ Generated(row, d).version = d.version
           /\ Generated(row, d).due = d.due
<1>1. d # None
    BY NoneIsNoValue
<1>2. CASE row = None
    <2>1. NewRow(d).version = d.version /\ NewRow(d).due = d.due /\ NewRow(d) \in Row
        BY DEF NewRow, Row, FullDraft, Statuses, Optional
    <2> QED
        BY <1>1, <1>2, <2>1, NoneIsNoValue DEF Generated
<1>3. CASE row # None
    <2>1. row \in Row
        BY <1>3 DEF Optional
    <2>2. Generated(row, d) = Revise(row, d)
        BY <1>1, <1>3 DEF Generated
    <2>3. Revise(row, d) \in Row
        BY <1>3, <2>1, <2>2, GeneratedTyped DEF Optional
    <2>4. CASE row.due # d.due
        BY <2>1, <2>2, <2>3, <2>4, NoneIsNoValue DEF Revise, Row
    <2>5. CASE row.due = d.due
        BY <2>1, <2>2, <2>3, <2>5, NoneIsNoValue DEF Revise, Row
    <2> QED
        BY <2>4, <2>5
<1> QED
    BY <1>2, <1>3

\* A patch decides on the row it finds merged with the fields it sends.
LEMMA PatchKeepsEvidence ==
    ASSUME NEW row \in Row, NEW p, NEW actor, NEW acknowledge \in BOOLEAN,
           PatchAllowed(actor, row, p),
           Patched(row, p, acknowledge).status = "filed"
    PROVE  \/ Patched(row, p, acknowledge).srn # None
           \/ Patched(row, p, acknowledge).ack
    BY DEF PatchAllowed, Patched, Row

-----------------------------------------------------------------------------
(* The safety invariants.  Each is inductive together with TypeOK.         *)

\* PRD section 4.5: no sequence of requests leaves a filed row without evidence.
THEOREM FiledEvidence == Spec => []FiledHasEvidence
<1>1. Init => FiledHasEvidence
    BY DEF Init, FiledHasEvidence
<1>2. TypeOK /\ TypeOK' /\ FiledHasEvidence /\ [Next]_vars => FiledHasEvidence'
    <2> SUFFICES ASSUME TypeOK, TypeOK', FiledHasEvidence, [Next]_vars,
                        NEW s \in Slots, rows'[s] # None, rows'[s].status = "filed"
                 PROVE  rows'[s].srn # None \/ rows'[s].ack
        BY DEF FiledHasEvidence
    <2>1. rows[s] = None \/ rows[s] \in Row
        BY DEF TypeOK, Optional
    <2>2. ASSUME rows'[s] = rows[s] PROVE rows'[s].srn # None \/ rows'[s].ack
        BY <2>2 DEF FiledHasEvidence
    <2>3. CASE LoadSome
        <3>1. CASE rows'[s] = rows[s]
            BY <2>2, <3>1
        <3>2. CASE rows[s] # None /\ rows'[s] = Flagged(rows[s])
            BY <2>1, <3>2 DEF Flagged, Row, FiledHasEvidence
        <3> QED
            BY <2>3, <3>1, <3>2 DEF LoadSome, Load
    <2>4. ASSUME NEW m \in Resolutions(facts, exts), Generate(m)
          PROVE  rows'[s].srn # None \/ rows'[s].ack
        <3> DEFINE d == Drafted(s, versions, facts, exts, m)
        <3>1. rows'[s] = Generated(rows[s], d)
            BY <2>4 DEF Generate, Drafts
        <3>2. CASE d = None
            BY <2>2, <3>1, <3>2 DEF Generated
        <3>3. CASE d # None /\ rows[s] = None
            BY <3>1, <3>3 DEF Generated, NewRow
        <3>4. CASE d # None /\ rows[s] # None
            <4>1. rows'[s] = Revise(rows[s], d)
                BY <3>1, <3>4 DEF Generated
            <4>2. m \in [Rules -> Optional(exts)]
                BY DEF Resolutions
            <4>3. d \in FullDraft
                BY <3>4, <4>2, DraftedTyped DEF TypeOK
            <4> HIDE DEF d
            <4>4. /\ rows'[s].status = rows[s].status /\ rows'[s].srn = rows[s].srn
                  /\ rows'[s].ack = rows[s].ack
                BY <2>1, <3>4, <4>1, <4>3, DerivedWritesKeepUserColumns
            <4> QED
                BY <3>4, <4>4 DEF FiledHasEvidence
        <3> QED
            BY <3>2, <3>3, <3>4
    <2>5. ASSUME NEW actor \in Actors, NEW t \in Slots, NEW p \in Patches,
                 NEW acknowledge \in BOOLEAN, Patch(actor, t, p, acknowledge)
          PROVE  rows'[s].srn # None \/ rows'[s].ack
        <3>1. CASE t = s
            <4>1. /\ rows[s] \in Row /\ PatchAllowed(actor, rows[s], p)
                  /\ rows'[s] = Patched(rows[s], p, acknowledge)
                BY <2>1, <2>5, <3>1 DEF Patch, TypeOK
            <4> QED
                BY <4>1, PatchKeepsEvidence
        <3>2. CASE t # s
            BY <2>2, <2>5, <3>2 DEF Patch, TypeOK
        <3> QED
            BY <3>1, <3>2
    <2>6. CASE UNCHANGED rows
        BY <2>2, <2>6
    <2> QED
        BY <2>3, <2>4, <2>5, <2>6
        DEF Next, GenerateSome, PatchSome, AddExtension, EditFacts, vars
<1> QED
    BY <1>1, <1>2, TypeCorrect, PTL DEF Spec

\* PRD section 7: the version a row pins computes the row's date.
THEOREM Traceability == Spec => []DateTraces
<1>1. Init => DateTraces
    BY DEF Init, DateTraces
<1>2. TypeOK /\ TypeOK' /\ DateTraces /\ [Next]_vars => DateTraces'
    <2> SUFFICES ASSUME TypeOK, TypeOK', DateTraces, [Next]_vars,
                        NEW s \in Slots, rows'[s] # None
                 PROVE  /\ rows'[s].version \in DOMAIN versions'[RuleOf[s]]
                        /\ \E f \in Facts :
                              LET e == Evaluate[s, versions'[RuleOf[s]][rows'[s].version].payload, f]
                              IN  e # None /\ e.due = rows'[s].due
        BY DEF DateTraces
    <2> DEFINE r == RuleOf[s]
               Traced(vs, n, due) ==
                   /\ n \in DOMAIN vs
                   /\ \E f \in Facts : LET e == Evaluate[s, vs[n].payload, f]
                                        IN  e # None /\ e.due = due
    <2>1. r \in Rules /\ versions[r] \in Seq(Version) /\ (rows[s] = None \/ rows[s] \in Row)
        BY ConstantsTyped DEF TypeOK, Optional
    <2>2. rows[s] # None => Traced(versions[r], rows[s].version, rows[s].due)
        BY DEF DateTraces
    <2>3. ASSUME versions'[r] = versions[r], rows[s] # None,
                 rows'[s].version = rows[s].version, rows'[s].due = rows[s].due
          PROVE  Traced(versions'[r], rows'[s].version, rows'[s].due)
        BY <2>2, <2>3
    <2>4. ASSUME NEW entry \in [Rules -> Optional(Payloads)],
                 NEW effective \in [Rules -> BOOLEAN], Load(entry, effective)
          PROVE  Traced(versions'[r], rows'[s].version, rows'[s].due)
        <3>1. /\ rows[s] # None
              /\ rows'[s].version = rows[s].version /\ rows'[s].due = rows[s].due
            BY <2>1, <2>4 DEF Load, Flagged, Row
        <3>2. \A n \in DOMAIN versions[r] :
                  n \in DOMAIN versions'[r] /\ versions'[r][n] = versions[r][n]
            <4>1. \/ versions'[r] = versions[r]
                  \/ \E v : versions'[r] = Append(versions[r], v)
                BY <2>1, <2>4 DEF Load, Extended
            <4> QED
                BY <2>1, <4>1
        <3> HIDE DEF r
        <3> QED
            BY <2>2, <3>1, <3>2
    <2>5. ASSUME NEW m \in Resolutions(facts, exts), Generate(m)
          PROVE  Traced(versions'[r], rows'[s].version, rows'[s].due)
        <3> DEFINE d == Drafted(s, versions, facts, exts, m)
        <3>1. rows'[s] = Generated(rows[s], d) /\ versions' = versions
            BY <2>5 DEF Generate, Drafts
        <3>2. CASE d = None
            BY <2>3, <3>1, <3>2 DEF Generated
        <3>3. CASE d # None
            <4>1. m \in [Rules -> Optional(exts)]
                BY DEF Resolutions
            <4>2. /\ d \in FullDraft /\ d.version \in DOMAIN versions[r]
                  /\ LET e == Evaluate[s, versions[r][d.version].payload, facts]
                     IN  e # None /\ e.due = d.due
                <5>1. /\ versions \in [Rules -> Seq(Version)] /\ exts \in SUBSET Extensions
                      /\ facts \in Facts
                    BY DEF TypeOK
                <5> QED
                    BY <3>3, <4>1, <5>1, DraftedTyped
            <4>3. Traced(versions[r], d.version, d.due)
                BY <4>2 DEF TypeOK
            <4> HIDE DEF d, Traced
            <4>4. rows'[s].version = d.version /\ rows'[s].due = d.due
                <5>1. rows[s] \in Optional(Row)
                    BY DEF TypeOK
                <5> QED
                    BY <3>1, <4>2, <5>1, GeneratePins
            <4> QED
                BY <3>1, <4>3, <4>4
        <3> QED
            BY <3>2, <3>3
    <2>6. ASSUME NEW actor \in Actors, NEW t \in Slots, NEW p \in Patches,
                 NEW acknowledge \in BOOLEAN, Patch(actor, t, p, acknowledge)
          PROVE  Traced(versions'[r], rows'[s].version, rows'[s].due)
        <3>1. /\ rows[s] # None
              /\ rows'[s].version = rows[s].version /\ rows'[s].due = rows[s].due
            BY <2>1, <2>6 DEF Patch, Patched, Row, TypeOK
        <3> QED
            BY <2>3, <2>6, <3>1 DEF Patch
    <2>7. CASE UNCHANGED <<versions, rows>>
        BY <2>3, <2>7
    <2>8. Traced(versions'[r], rows'[s].version, rows'[s].due)
        BY <2>4, <2>5, <2>6, <2>7
        DEF Next, LoadSome, GenerateSome, PatchSome, AddExtension, EditFacts, vars
    <2> QED
        BY <2>8
<1> QED
    BY <1>1, <1>2, TypeCorrect, PTL DEF Spec

\* load.py: a row on a superseded version is in the review queue until somebody
\* acknowledges it with the newer version loaded.  seen is a history variable:
\* no action reads it, only this statement does.
THEOREM StaleRowsQueued == Spec => []StaleRowFlagged
<1>1. Init => StaleRowFlagged
    BY DEF Init, StaleRowFlagged
<1>2. TypeOK /\ TypeOK' /\ StaleRowFlagged /\ [Next]_vars => StaleRowFlagged'
    <2> DEFINE Fresh(row, vs, k) ==
                   row.version < EffectiveVersion(vs) => row.flag \/ k >= EffectiveVersion(vs)
    <2> SUFFICES ASSUME TypeOK, TypeOK', StaleRowFlagged, [Next]_vars,
                        NEW s \in Slots, rows'[s] # None
                 PROVE  Fresh(rows'[s], versions'[RuleOf[s]], seen'[s])
        BY DEF StaleRowFlagged
    <2> DEFINE r == RuleOf[s]
    <2>1. r \in Rules /\ versions[r] \in Seq(Version) /\ (rows[s] = None \/ rows[s] \in Row)
        BY ConstantsTyped DEF TypeOK, Optional
    <2>2. rows[s] # None => Fresh(rows[s], versions[r], seen[s])
        BY DEF StaleRowFlagged
    <2>3. ASSUME versions'[r] = versions[r], rows'[s] = rows[s], seen'[s] = seen[s]
          PROVE  Fresh(rows'[s], versions'[r], seen'[s])
        <3> HIDE DEF Fresh
        <3> QED
            BY <2>2, <2>3
    <2>4. ASSUME NEW entry \in [Rules -> Optional(Payloads)],
                 NEW effective \in [Rules -> BOOLEAN], Load(entry, effective)
          PROVE  Fresh(rows'[s], versions'[r], seen'[s])
        <3>1. CASE r \in Changed(versions, entry) /\ rows[s] # None
            <4>1. rows'[s] = Flagged(rows[s])
                BY <2>4, <3>1 DEF Load
            <4>2. rows'[s].flag
                BY <2>1, <3>1, <4>1 DEF Flagged, Row
            <4> QED
                BY <4>2
        <3>2. CASE ~(r \in Changed(versions, entry) /\ rows[s] # None)
            BY <2>1, <2>3, <2>4, <3>2 DEF Load, Extended
        <3> QED
            BY <3>1, <3>2
    <2>5. ASSUME NEW m \in Resolutions(facts, exts), Generate(m)
          PROVE  Fresh(rows'[s], versions'[r], seen'[s])
        <3> DEFINE d == Drafted(s, versions, facts, exts, m)
        <3>1. rows'[s] = Generated(rows[s], d) /\ versions' = versions /\ seen' = seen
            BY <2>5 DEF Generate, Drafts
        <3>2. CASE d = None
            BY <2>3, <3>1, <3>2 DEF Generated
        <3>3. CASE d # None
            <4>1. m \in [Rules -> Optional(exts)]
                BY DEF Resolutions
            <4>2. d \in FullDraft /\ d.version = EffectiveVersion(versions[r])
                <5>1. /\ versions \in [Rules -> Seq(Version)] /\ exts \in SUBSET Extensions
                      /\ facts \in Facts
                    BY DEF TypeOK
                <5> QED
                    BY <3>3, <4>1, <5>1, DraftedTyped
            <4> HIDE DEF d
            <4>3. rows'[s].version = d.version
                <5>1. rows[s] \in Optional(Row)
                    BY DEF TypeOK
                <5> QED
                    BY <3>1, <4>2, <5>1, GeneratePins
            <4>4. EffectiveVersion(versions[r]) \in Nat
                BY <2>1, EffectiveVersionInDomain
            <4> QED
                BY <3>1, <4>2, <4>3, <4>4
        <3> QED
            BY <3>2, <3>3
    <2>6. ASSUME NEW actor \in Actors, NEW t \in Slots, NEW p \in Patches,
                 NEW acknowledge \in BOOLEAN, Patch(actor, t, p, acknowledge)
          PROVE  Fresh(rows'[s], versions'[r], seen'[s])
        <3>1. versions' = versions
            BY <2>6 DEF Patch
        <3>2. CASE t # s
            BY <2>3, <2>6, <3>2 DEF Patch, TypeOK
        <3>3. CASE t = s /\ acknowledge
            <4>1. seen'[s] = Len(versions[r])
                BY <2>6, <3>3 DEF Patch, TypeOK
            <4>2. EffectiveVersion(versions[r]) \in Nat
                  /\ EffectiveVersion(versions[r]) <= Len(versions[r])
                BY <2>1, EffectiveVersionInDomain
            <4> QED
                BY <2>1, <3>1, <4>1, <4>2
        <3>4. CASE t = s /\ ~acknowledge
            <4>1. /\ rows[s] # None /\ rows[s] \in Row
                  /\ rows'[s] = Patched(rows[s], p, acknowledge)
                  /\ seen'[s] = seen[s]
                BY <2>1, <2>6, <3>4 DEF Patch, TypeOK
            <4>2. rows'[s].version = rows[s].version /\ rows'[s].flag = rows[s].flag
                BY <3>4, <4>1 DEF Patched, Row
            <4> QED
                BY <2>2, <3>1, <4>1, <4>2
        <3> QED
            BY <3>2, <3>3, <3>4
    <2>7. CASE UNCHANGED <<versions, rows, seen>>
        BY <2>3, <2>7
    <2>8. Fresh(rows'[s], versions'[r], seen'[s])
        BY <2>4, <2>5, <2>6, <2>7
        DEF Next, LoadSome, GenerateSome, PatchSome, AddExtension, EditFacts, vars
    <2> QED
        BY <2>8
<1> QED
    BY <1>1, <1>2, TypeCorrect, PTL DEF Spec

\* PRD section 7: no step re-dates a row without putting it in the review queue.
THEOREM DatesNeverSilent == Spec => NeverSilent
<1>1. TypeOK /\ [Next]_vars =>
          [\A s \in Slots : rows[s] # None /\ rows'[s].due # rows[s].due =>
               rows'[s].flag /\ rows'[s].why = "rule_revised"]_vars
    <2> SUFFICES ASSUME TypeOK, Next, NEW s \in Slots,
                        rows[s] # None, rows'[s].due # rows[s].due
                 PROVE  rows'[s].flag /\ rows'[s].why = "rule_revised"
        OBVIOUS
    <2>1. rows[s] \in Row
        BY DEF TypeOK, Optional
    <2>2. ASSUME NEW entry \in [Rules -> Optional(Payloads)],
                 NEW effective \in [Rules -> BOOLEAN], Load(entry, effective)
          PROVE  FALSE
        BY <2>1, <2>2 DEF Load, Flagged, Row
    <2>3. ASSUME NEW m \in Resolutions(facts, exts), Generate(m)
          PROVE  rows'[s].flag /\ rows'[s].why = "rule_revised"
        <3> DEFINE d == Drafted(s, versions, facts, exts, m)
        <3>1. rows'[s] = Generated(rows[s], d)
            BY <2>3 DEF Generate, Drafts
        <3>2. d # None /\ rows'[s] = Revise(rows[s], d)
            BY <3>1 DEF Generated
        <3>3. d \in FullDraft
            <4>1. /\ versions \in [Rules -> Seq(Version)] /\ exts \in SUBSET Extensions
                  /\ facts \in Facts /\ m \in [Rules -> Optional(exts)]
                BY DEF TypeOK, Resolutions
            <4> QED
                BY <3>2, <4>1, DraftedTyped
        <3> HIDE DEF d
        <3>4. rows[s].due # d.due
            <4>1. rows'[s].due = d.due
                BY <2>1, <3>1, <3>3, GeneratePins DEF Optional
            <4> QED
                BY <4>1
        <3>5. rows'[s] = [rows[s] EXCEPT !.version = d.version, !.due = d.due,
                                         !.flag = TRUE, !.why = "rule_revised"]
            BY <3>2, <3>4 DEF Revise
        <3> QED
            BY <2>1, <3>5 DEF Row
    <2>4. ASSUME NEW actor \in Actors, NEW t \in Slots, NEW p \in Patches,
                 NEW acknowledge \in BOOLEAN, Patch(actor, t, p, acknowledge)
          PROVE  FALSE
        BY <2>1, <2>4 DEF Patch, Patched, Row, TypeOK
    <2>5. CASE UNCHANGED rows
        BY <2>5
    <2> QED
        BY <2>2, <2>3, <2>4, <2>5
        DEF Next, LoadSome, GenerateSome, PatchSome, AddExtension, EditFacts
<1> QED
    BY <1>1, TypeCorrect, PTL DEF Spec, NeverSilent

-----------------------------------------------------------------------------
(* The circular a row shows.                                               *)

\* Extension e belongs to a circular that extends rule r, and that some state
\* of the company comes under.
Extends(e, r, xs) ==
    \E x \in xs, f \in Facts :
        ExtRule[x] = r /\ ExtApplies[x, f] # "FALSE" /\ ExtRef[x] = ExtRef[e]

\* The extension the index gives for a rule is of a circular of the rule.
LEMMA ResolvedOfRule ==
    ASSUME NEW f \in Facts, NEW xs \in SUBSET Extensions, NEW m \in Resolutions(f, xs),
           NEW r \in Rules, m[r] # None
    PROVE  Extends(m[r], r, xs)
<1>1. PICK rank : Resolves(m[r], r, f, xs, rank)
    BY DEF Resolutions
<1>2. PICK last \in LastOf(Applicable(r, f, xs), rank) :
          m[r] \in LastOf({x \in xs : ExtRef[x] = ExtRef[last]}, rank)
    BY <1>1 DEF Resolves
<1>3. /\ last \in xs /\ ExtRule[last] = r /\ ExtApplies[last, f] # "FALSE"
      /\ ExtRef[last] = ExtRef[m[r]]
    BY <1>2 DEF LastOf, Applicable
<1> QED
    BY <1>3 DEF Extends

\* generate leaves the extension of the row or writes the one of the draft.
LEMMA GeneratedExtension ==
    ASSUME NEW row \in Optional(Row), NEW d \in FullDraft
    PROVE  \/ Generated(row, d).ext = d.ext
           \/ row # None /\ Generated(row, d).ext = row.ext
<1>1. CASE row = None
    <2>1. Generated(row, d) = NewRow(d)
        BY <1>1, NoneIsNoValue DEF Generated
    <2> QED
        BY <2>1 DEF NewRow
<1>2. CASE row # None
    <2>1. row \in Row /\ Generated(row, d) = Revise(row, d)
        BY <1>2, NoneIsNoValue DEF Generated, Optional
    <2>2. Revise(row, d).ext = d.ext \/ Revise(row, d).ext = row.ext
        BY <2>1 DEF Revise, Row
    <2> QED
        BY <1>2, <2>1, <2>2
<1> QED
    BY <1>1, <1>2

(* No sequence of loads, extensions, edits and generates leaves a row with  *)
(* a circular that does not extend its rule, or that no state of the       *)
(* company comes under: the conclusion that holds although extension_ids   *)
(* looks the circular up by its reference alone.                           *)
THEOREM OwnCirculars == Spec => []CircularOfRule
<1>1. Init => CircularOfRule
    BY DEF Init, CircularOfRule
<1>2. TypeOK /\ TypeOK' /\ CircularOfRule /\ [Next]_vars => CircularOfRule'
    <2> SUFFICES ASSUME TypeOK, TypeOK', CircularOfRule, [Next]_vars,
                        NEW s \in Slots, rows'[s] # None, rows'[s].ext # None
                 PROVE  Extends(rows'[s].ext, RuleOf[s], exts')
        BY Zenon DEF CircularOfRule, Extends
    <2>1. rows[s] = None \/ rows[s] \in Row
        BY DEF TypeOK, Optional
    <2>2. ASSUME rows[s] # None, rows'[s].ext = rows[s].ext, exts \subseteq exts'
          PROVE  Extends(rows'[s].ext, RuleOf[s], exts')
        BY <2>2 DEF CircularOfRule, Extends
    <2>3. CASE LoadSome
        <3>1. rows[s] # None /\ (rows'[s] = rows[s] \/ rows'[s] = Flagged(rows[s]))
            BY <2>3 DEF LoadSome, Load
        <3>2. rows[s] # None /\ rows'[s].ext = rows[s].ext /\ exts' = exts
            BY <2>1, <2>3, <3>1 DEF LoadSome, Load, Flagged, Row
        <3> QED
            BY <2>2, <3>2
    <2>4. ASSUME NEW m \in Resolutions(facts, exts), Generate(m)
          PROVE  Extends(rows'[s].ext, RuleOf[s], exts')
        <3> DEFINE d == Drafted(s, versions, facts, exts, m)
        <3>1. rows'[s] = Generated(rows[s], d) /\ exts' = exts
            BY <2>4 DEF Generate, Drafts
        <3>2. CASE d = None
            BY <2>2, <3>1, <3>2 DEF Generated
        <3>3. CASE d # None
            <4>1. m \in [Rules -> Optional(exts)] /\ exts \in SUBSET Extensions
                BY DEF Resolutions, TypeOK
            <4>2. d \in FullDraft
                BY <3>3, <4>1, DraftedTyped DEF TypeOK
            <4>3. d.ext = m[RuleOf[s]]
                BY <3>3 DEF Drafted
            <4>4. RuleOf[s] \in Rules /\ rows[s] \in Optional(Row)
                BY ConstantsTyped DEF TypeOK
            <4> HIDE DEF d
            <4>5. CASE rows'[s].ext = d.ext
                BY <3>1, <4>1, <4>3, <4>4, <4>5, ResolvedOfRule DEF TypeOK
            <4>6. CASE rows[s] # None /\ rows'[s].ext = rows[s].ext
                BY <2>2, <3>1, <4>6
            <4> QED
                BY <3>1, <4>2, <4>4, <4>5, <4>6, GeneratedExtension
        <3> QED
            BY <3>2, <3>3
    <2>5. ASSUME NEW actor \in Actors, NEW t \in Slots, NEW p \in Patches,
                 NEW acknowledge \in BOOLEAN, Patch(actor, t, p, acknowledge)
          PROVE  Extends(rows'[s].ext, RuleOf[s], exts')
        <3>0. exts' = exts
            BY <2>5 DEF Patch
        <3>1. CASE t = s
            <4>1. rows[s] \in Row /\ rows'[s] = Patched(rows[s], p, acknowledge)
                BY <2>1, <2>5, <3>1 DEF Patch, TypeOK
            <4>2. rows[s] # None /\ rows'[s].ext = rows[s].ext
                BY <4>1, NoneIsNoValue DEF Patched, Row
            <4> QED
                BY <2>2, <3>0, <4>2
        <3>2. CASE t # s
            <4>1. rows'[s] = rows[s]
                BY <2>5, <3>2 DEF Patch, TypeOK
            <4> QED
                BY <2>2, <3>0, <4>1
        <3> QED
            BY <3>1, <3>2
    <2>6. CASE UNCHANGED rows /\ exts \subseteq exts'
        BY <2>2, <2>6
    <2> QED
        BY <2>3, <2>4, <2>5, <2>6
        DEF Next, GenerateSome, PatchSome, AddExtension, EditFacts, vars
<1> QED
    BY <1>1, <1>2, TypeCorrect, PTL DEF Spec

=============================================================================
