---------------------------- MODULE CalendarData ----------------------------
(***************************************************************************)
(* The data of the compliance calendar of ONE company for ONE financial    *)
(* year, and the pure functions its handlers apply to it: what generate    *)
(* writes for a draft, what the dataset loader writes on a pinned row and  *)
(* what PATCH /calendar-rows/{id} accepts and writes.  The modules that    *)
(* decide WHEN these are applied are Calendar (one request at a time) and  *)
(* CalendarSessions (requests that overlap).                               *)
(*                                                                         *)
(* A slot is the key services/calendar.py calls `key`: rule code, subject  *)
(* and occurrence label.  The evaluator is the constant function Evaluate  *)
(* here (module Evaluator models it), so everything proved holds for every *)
(* evaluator.                                                              *)
(***************************************************************************)
EXTENDS Naturals, Sequences, FiniteSets, Functions

CONSTANTS
    None,           \* SQL NULL / Python None
    Rules,          \* rule codes (compliance_rule)
    Slots,          \* (rule code, subject, occurrence) keys of the calendar
    RuleOf,         \* [Slots -> Rules]
    DirectorSlots,  \* the slots whose subject_id is not NULL
    Payloads,       \* contents of a rule version
    Facts,          \* what generate reads of the company: AGM date, FY facts, directors
    Dates,
    Evaluate,       \* per slot: predicates, anchors, offsets and directors of its own rule
    Supersede,      \* per slot: what the rules that supersede its rule do to its draft
    Extensions,     \* rule_extension rows that ops may insert
    ExtRule,        \* [Extensions -> Rules], the rule an extension is for
    ExtRef,         \* its circular_ref (not unique in the schema)
    ExtApplies,     \* its predicate against the facts, in three values
    Executives, Managers,
    Srns,           \* non-empty SRNs
    Notes           \* non-empty override reasons

Optional(S) == S \cup {None}  \* a nullable column

Reasons  == {"missing_anchor", "applicability_unknown", "rule_revised"}
Statuses == {"pending", "in_progress", "filed", "not_applicable"}
Tri      == {"TRUE", "FALSE", "UNKNOWN"}
Actors   == Executives \cup Managers
Draft    == [due: Optional(Dates), flag: BOOLEAN, why: Optional(Reasons)]

ASSUME ConstantsTyped ==
    /\ RuleOf \in [Slots -> Rules]
    /\ DirectorSlots \subseteq Slots
    /\ Evaluate \in [Slots \X Payloads \X Facts -> Optional(Draft)]
    /\ Supersede \in [[Rules -> Optional(Payloads)] \X Facts ->
                        [Slots -> {"keep", "flag", "drop"}]]
    /\ ExtRule \in [Extensions -> Rules]
    /\ ExtApplies \in [Extensions \X Facts -> Tri]

Version == [payload: Payloads, effective: BOOLEAN]  \* effective_from <= fy_end(fy)

Row == [version: Nat \ {0}, due: Optional(Dates), ext: Optional(Extensions),
        flag: BOOLEAN, why: Optional(Reasons),
        status: Statuses, srn: Optional(Srns), ack: BOOLEAN,
        assignee: Optional(Actors),
        override: Optional(Dates), reason: Optional(Notes)]

\* A draft pinned to the version and the extension it came from.
FullDraft == [version: Nat \ {0}, due: Optional(Dates), ext: Optional(Extensions),
              flag: BOOLEAN, why: Optional(Reasons)]

\* NULL is no value of any type.
ASSUME NoneIsNoValue ==
    /\ None \notin Draft /\ None \notin FullDraft /\ None \notin Row
    /\ None \notin Extensions /\ None \notin Payloads
    /\ None \notin Actors /\ None \notin Srns /\ None \notin Notes

\* The columns that belong to the people who work the calendar.
UserColumns == {"status", "srn", "ack", "assignee", "override", "reason"}

-----------------------------------------------------------------------------
(* effective_versions_for_fy: the highest version_no already effective.    *)

InForce(vs) == {n \in DOMAIN vs : /\ vs[n].effective
                                  /\ \A m \in DOMAIN vs : vs[m].effective => m <= n}

EffectiveVersion(vs) == IF InForce(vs) = {} THEN 0 ELSE CHOOSE n \in InForce(vs) : TRUE

(* _apply_extensions and the extension_ids index.  extensions_for_fy has   *)
(* no ORDER BY, so the list comes in any order (rank).  The LAST applicable*)
(* extension of a rule leaves its circular_ref on the drafts, and          *)
(* extension_ids maps a circular_ref to the LAST listed extension that has *)
(* it, whatever its rule.                                                  *)

\* Mutant: every extension of the year applies to every rule.
ApplicableAnyRule(r, f, xs) == {e \in xs : ExtApplies[e, f] # "FALSE"}

Applicable(r, f, xs) == {e \in xs : ExtRule[e] = r /\ ExtApplies[e, f] # "FALSE"}

LastOf(S, rank) == {e \in S : \A x \in S : rank[x] <= rank[e]}

Resolves(m, r, f, xs, rank) ==
    IF Applicable(r, f, xs) = {}
    THEN m = None
    ELSE \E last \in LastOf(Applicable(r, f, xs), rank) :
             m \in LastOf({x \in xs : ExtRef[x] = ExtRef[last]}, rank)

Resolutions(f, xs) ==
    LET ranks == Injection(xs, 1..Cardinality(xs)) IN
    {m \in [Rules -> Optional(xs)] :
        \E rank \in ranks : \A r \in Rules : Resolves(m[r], r, f, xs, rank)}

ExtensionUnknown(r, f, xs) == \E e \in Applicable(r, f, xs) : ExtApplies[e, f] = "UNKNOWN"

\* The payloads compute_calendar gets.
InForcePayloads(versions) ==
    [r \in Rules |-> LET n == EffectiveVersion(versions[r])
                     IN  IF n = 0 THEN None ELSE versions[r][n].payload]

(* The draft generate holds for a slot, or None when there is none.        *)
Drafted(s, versions, f, xs, m) ==
    LET r == RuleOf[s]
        n == EffectiveVersion(versions[r])
        d == Evaluate[s, versions[r][n].payload, f]
        superseded == Supersede[InForcePayloads(versions), f][s]
        u == superseded = "flag" \/ ExtensionUnknown(r, f, xs)
    IN  IF n = 0 THEN None
        ELSE IF d = None \/ superseded = "drop" THEN None
        ELSE [version |-> n, due |-> d.due, ext |-> m[r], flag |-> d.flag \/ u,
              why |-> IF d.why = None /\ u THEN "applicability_unknown" ELSE d.why]

Drafts(versions, f, xs, m) == [s \in Slots |-> Drafted(s, versions, f, xs, m)]

-----------------------------------------------------------------------------
(* What generate writes.                                                   *)

\* Mutant: a draft without a reason is stored with an empty one.
NewRowEmptyReason(d) ==
    [version |-> d.version, due |-> d.due, ext |-> d.ext, flag |-> d.flag,
     why |-> IF d.why = None THEN "" ELSE d.why,
     status |-> "pending", srn |-> None, ack |-> FALSE, assignee |-> None,
     override |-> None, reason |-> None]

NewRow(d) ==
    [version |-> d.version, due |-> d.due, ext |-> d.ext, flag |-> d.flag, why |-> d.why,
     status |-> "pending", srn |-> None, ack |-> FALSE, assignee |-> None,
     override |-> None, reason |-> None]

\* Mutant: a revised date keeps the version the row was created from.
ReviseKeepingVersion(row, d) ==
    [row EXCEPT !.due = d.due, !.flag = row.due # d.due \/ row.flag \/ d.flag,
                !.why = IF row.due # d.due THEN "rule_revised" ELSE row.why]

\* Mutant: a revised date is rewritten silently.
ReviseSilently(row, d) ==
    [row EXCEPT !.version = d.version, !.due = d.due, !.flag = row.flag \/ d.flag,
                !.why = IF d.flag /\ ~row.flag THEN d.why ELSE row.why]

\* A revised date ends the iteration of the loop: the extension is not looked at.
Revise(row, d) ==
    IF row.due # d.due
    THEN [row EXCEPT !.version = d.version, !.due = d.due,
                     !.flag = TRUE, !.why = "rule_revised"]
    ELSE [row EXCEPT !.version = d.version,
                     !.flag = row.flag \/ d.flag,
                     !.why = IF d.flag /\ ~row.flag THEN d.why ELSE row.why,
                     !.ext = IF d.ext # None THEN d.ext ELSE row.ext]

(* load_entries: entry[r] is the dataset's payload for rule r, None when   *)
(* the dataset has no entry for it.  effective_from is not part of the     *)
(* payload, so moving it alone makes no version.                           *)

Changed(vs, entry) ==
    {r \in Rules : entry[r] # None /\ (vs[r] # <<>> => vs[r][Len(vs[r])].payload # entry[r])}

Extended(vs, changed, entry, effective) ==
    [r \in Rules |-> IF r \in changed
                     THEN Append(vs[r], [payload |-> entry[r], effective |-> effective[r]])
                     ELSE vs[r]]

\* Mutant: the loader leaves the row's flag alone.
FlaggedReasonOnly(row) == [row EXCEPT !.why = "rule_revised"]

(* What the loader writes on a row pinned to an older version.             *)
Flagged(row) == [row EXCEPT !.flag = TRUE, !.why = "rule_revised"]

-----------------------------------------------------------------------------
(* PATCH /calendar-rows/{id}.  A patch is the dict of the fields the       *)
(* client sent.  A NULL for status or ack passes the checks and is refused *)
(* by the NOT NULL column: nothing changes, so such patches are left out.  *)

PatchValues == [status: Statuses, srn: Optional(Srns), ack: BOOLEAN,
                assignee: Optional(Actors),
                override: Optional(Dates), reason: Optional(Notes)]

IsPatch(p) == \E v \in PatchValues, fields \in SUBSET UserColumns : p = [c \in fields |-> v[c]]

Sent(p, field, default) == IF field \in DOMAIN p THEN p[field] ELSE default

\* Mutant: the evidence is looked for in the patch, then in the row.
PatchAllowedByEither(actor, row, p) ==
    /\ actor \in Executives => /\ row.assignee = actor
                               /\ DOMAIN p \cap {"override", "reason"} = {}
    /\ Sent(p, "override", None) # None => Sent(p, "reason", None) # None \/ row.reason # None
    /\ Sent(p, "status", row.status) = "filed" =>
           \/ Sent(p, "srn", None) # None \/ row.srn # None
           \/ Sent(p, "ack", FALSE) \/ row.ack

PatchAllowed(actor, row, p) ==
    /\ actor \in Executives => /\ row.assignee = actor
                               /\ DOMAIN p \cap {"override", "reason"} = {}
    /\ Sent(p, "override", None) # None => Sent(p, "reason", None) # None \/ row.reason # None
    /\ Sent(p, "status", row.status) = "filed" =>
           Sent(p, "srn", row.srn) # None \/ Sent(p, "ack", row.ack)

Patched(row, p, acknowledge) ==
    [row EXCEPT !.status = Sent(p, "status", @), !.srn = Sent(p, "srn", @),
                !.ack = Sent(p, "ack", @), !.assignee = Sent(p, "assignee", @),
                !.override = Sent(p, "override", @), !.reason = Sent(p, "reason", @),
                !.flag = @ /\ ~acknowledge,
                !.why = IF acknowledge THEN None ELSE @]

=============================================================================
