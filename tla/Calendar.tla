------------------------------ MODULE Calendar ------------------------------
(***************************************************************************)
(* The compliance calendar as its documents promise it: every request is   *)
(* one step, from its first read to its commit.  CalendarSessions splits   *)
(* the requests into the reads and the commit they really are.             *)
(***************************************************************************)
EXTENDS CalendarData

CONSTANTS
    Patches,      \* the bodies clients send to PATCH /calendar-rows/{id}
    MaxVersions   \* bound on the versions of one rule

ASSUME PatchesTyped == \A p \in Patches : IsPatch(p)
ASSUME BoundTyped == MaxVersions \in Nat

VARIABLES
    versions,  \* [Rules -> Seq(Version)]: rule_version, version_no = position
    exts,      \* the rule_extension rows inserted so far
    facts,     \* the company's AGM date, FY facts and directors
    rows,      \* the calendar row of each slot, None while there is none
    seen       \* history: versions of the slot's rule when its row was last acknowledged

vars == <<versions, exts, facts, rows, seen>>

TypeOK ==
    /\ versions \in [Rules -> Seq(Version)]
    /\ exts \in SUBSET Extensions
    /\ facts \in Facts
    /\ rows \in [Slots -> Optional(Row)]
    /\ seen \in [Slots -> Nat]

Init ==
    /\ versions = [r \in Rules |-> <<>>]
    /\ exts = {}
    /\ facts \in Facts
    /\ rows = [s \in Slots |-> None]
    /\ seen = [s \in Slots |-> 0]

-----------------------------------------------------------------------------
\* load_entries with the dataset `entry`.
Load(entry, effective) ==
    LET changed == Changed(versions, entry) IN
    /\ changed # {}
    /\ \A r \in changed : Len(versions[r]) < MaxVersions
    /\ versions' = Extended(versions, changed, entry, effective)
    /\ rows' = [s \in Slots |->
           IF RuleOf[s] \in changed /\ rows[s] # None THEN Flagged(rows[s]) ELSE rows[s]]
    /\ UNCHANGED <<exts, facts, seen>>

\* Ops insert an extension by hand (docs/RULES_AUTHORING.md section 4).
AddExtension(e) ==
    /\ e \notin exts
    /\ exts' = exts \cup {e}
    /\ UNCHANGED <<versions, facts, rows, seen>>

\* update_company, put_fy_attributes and the director routes.
EditFacts(f) ==
    /\ f # facts
    /\ facts' = f
    /\ UNCHANGED <<versions, exts, rows, seen>>

Generated(row, d) ==
    IF d = None THEN row ELSE IF row = None THEN NewRow(d) ELSE Revise(row, d)

Generate(m) ==
    LET drafts == Drafts(versions, facts, exts, m) IN
    /\ rows' = [s \in Slots |-> Generated(rows[s], drafts[s])]
    /\ UNCHANGED <<versions, exts, facts, seen>>

\* generate with the extension list in some order.
GenerateSome == \E m \in Resolutions(facts, exts) : Generate(m)

Patch(actor, s, p, acknowledge) ==
    /\ rows[s] # None
    /\ PatchAllowed(actor, rows[s], p)
    /\ rows' = [rows EXCEPT ![s] = Patched(rows[s], p, acknowledge)]
    /\ seen' = [seen EXCEPT ![s] = IF acknowledge THEN Len(versions[RuleOf[s]]) ELSE seen[s]]
    /\ UNCHANGED <<versions, exts, facts>>

LoadSome == \E entry \in [Rules -> Optional(Payloads)], effective \in [Rules -> BOOLEAN] :
                Load(entry, effective)

PatchSome(s) == \E actor \in Actors, p \in Patches, acknowledge \in BOOLEAN :
                    Patch(actor, s, p, acknowledge)

Next ==
    \/ LoadSome
    \/ \E e \in Extensions : AddExtension(e)
    \/ \E f \in Facts : EditFacts(f)
    \/ GenerateSome
    \/ \E s \in Slots : PatchSome(s)

Spec == Init /\ [][Next]_vars

-----------------------------------------------------------------------------
(* Safety.                                                                 *)

\* PRD section 4.5: a filed row has an SRN or the filed-offline acknowledgement,
\* whatever sequence of patches brought it there (patch_row merges the fields
\* sent with the row before it decides).
FiledHasEvidence ==
    \A s \in Slots : rows[s] # None /\ rows[s].status = "filed" =>
        rows[s].srn # None \/ rows[s].ack

\* PRD section 7: every date traces to rule, version and citation, that is, the
\* version a row pins is one that computes the row's date from some state of
\* the company.  generate re-pins and re-dates together, or not at all.
DateTraces ==
    \A s \in Slots : rows[s] # None =>
        /\ rows[s].version \in DOMAIN versions[RuleOf[s]]
        /\ \E f \in Facts :
               LET d == Evaluate[s, versions[RuleOf[s]][rows[s].version].payload, f]
               IN  d # None /\ d.due = rows[s].due

\* load.py: a row that still stands on a version older than the one in force is
\* in the review queue, unless somebody acknowledged it with the newer version
\* already loaded.
StaleRowFlagged ==
    \A s \in Slots : rows[s] # None =>
        LET n == EffectiveVersion(versions[RuleOf[s]])
        IN  rows[s].version < n => rows[s].flag \/ seen[s] >= n

\* PRD section 7: a date that changes leaves its row in the review queue with
\* the reason rule_revised: it is never rewritten silently.
NeverSilent ==
    [][\A s \in Slots : rows[s] # None /\ rows'[s].due # rows[s].due =>
           rows'[s].flag /\ rows'[s].why = "rule_revised"]_vars

(* A row names only a circular that extends its own rule, and that some    *)
(* state of the company comes under, whatever was inserted and generated   *)
(* in between.  A circular may extend several rules: extension_ids, keyed  *)
(* by circular_ref alone, may then give the row the extension of another   *)
(* of them, with the date that one has.                                    *)
CircularOfRule ==
    \A s \in Slots : rows[s] # None /\ rows[s].ext # None =>
        \E e \in exts, f \in Facts :
            /\ ExtRule[e] = RuleOf[s] /\ ExtApplies[e, f] # "FALSE"
            /\ ExtRef[e] = ExtRef[rows[s].ext]

=============================================================================
