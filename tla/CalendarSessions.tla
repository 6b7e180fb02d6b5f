-------------------------- MODULE CalendarSessions --------------------------
(***************************************************************************)
(* The calendar requests as the database sees them.  A request owns one    *)
(* ORM session and one READ COMMITTED transaction (app/db.py): it selects  *)
(* committed rows, decides on that view, and writes at its commit only the *)
(* columns whose value it changed.  No handler locks a row or checks that  *)
(* it is still the row it read, and the API runs in several processes, so  *)
(* any two requests may overlap.                                           *)
(*                                                                         *)
(* With Overlap = FALSE the requests run one after the other and the       *)
(* module implements Calendar (property Serial).                           *)
(***************************************************************************)
EXTENDS CalendarData

CONSTANTS
    Patches,      \* the bodies clients send to PATCH /calendar-rows/{id}
    MaxVersions,  \* bound on the versions of one rule
    Requests,     \* bound on the requests in progress at a time
    Overlap       \* whether a request may start while another is in progress

ASSUME PatchesTyped == \A p \in Patches : IsPatch(p)
ASSUME BoundsTyped == MaxVersions \in Nat /\ Overlap \in BOOLEAN

VARIABLES
    versions, exts, facts,  \* as in Calendar
    table,  \* [Slots -> Seq(Row)]: the calendar_row rows of each slot; the position is the id
    seen,   \* history, as in Calendar
    req     \* what each request in progress has read so far

vars == <<versions, exts, facts, table, seen, req>>

-----------------------------------------------------------------------------
(* Requests.                                                               *)

Idle == [step |-> "idle"]

Request ==
         {Idle}
    \cup [step: {"generate_rules"}, drafts: [Slots -> Optional(FullDraft)]]
    \cup [step: {"generate_rows"}, drafts: [Slots -> Optional(FullDraft)],
          view: [Slots -> Seq(Row)]]
    \cup [step: {"patch"}, slot: Slots, at: Nat \ {0}, view: Row,
          patch: Patches, acknowledge: BOOLEAN, loaded: Nat]
    \cup [step: {"load"}, entry: [Rules -> Optional(Payloads)],
          effective: [Rules -> BOOLEAN], base: [Rules -> Seq(Version)]]
    \cup [step: {"load_rows"}, entry: [Rules -> Optional(Payloads)],
          effective: [Rules -> BOOLEAN], base: [Rules -> Seq(Version)],
          view: [Slots -> Seq(Row)]]

TypeOK ==
    /\ versions \in [Rules -> Seq(Version)]
    /\ exts \in SUBSET Extensions
    /\ facts \in Facts
    /\ table \in [Slots -> Seq(Row)]
    /\ seen \in [Slots -> Nat]
    /\ req \in [Requests -> Request]

Init ==
    /\ versions = [r \in Rules |-> <<>>]
    /\ exts = {}
    /\ facts \in Facts
    /\ table = [s \in Slots |-> <<>>]
    /\ seen = [s \in Slots |-> 0]
    /\ req = [q \in Requests |-> Idle]

\* Nothing else is in progress, unless requests overlap.
MayStart == Overlap \/ \A q \in Requests : req[q] = Idle

At(q, step) == req[q].step = step

\* A step of request q that only reads: r is what it knows afterwards.
Reads(q, r) == /\ req' = [req EXCEPT ![q] = r]
               /\ UNCHANGED <<versions, exts, facts, table, seen>>

Ends(q) == req' = [req EXCEPT ![q] = Idle]

\* Mutant: the flush writes every column of the object.
MergeWholeRow(stored, view, new) == new

(* The flush of one loaded object: UPDATE of the columns whose value is no *)
(* longer the one that was loaded.                                         *)
Merge(stored, view, new) ==
    [c \in DOMAIN stored |-> IF new[c] = view[c] THEN stored[c] ELSE new[c]]

(* UNIQUE (company, fy, rule version, subject, occurrence): a NULL subject *)
(* is equal to nothing, so it constrains the director slots only.          *)
UniqueHolds(t) ==
    \A s \in DirectorSlots : \A m, n \in DOMAIN t[s] :
        t[s][m].version = t[s][n].version => m = n

-----------------------------------------------------------------------------
(* generate.  The selects of the rules, the extensions and the company's   *)
(* facts are one step; the select of the existing rows is another.         *)

GenerateReadRules(q) ==
    /\ At(q, "idle") /\ MayStart
    /\ \E m \in Resolutions(facts, exts) :
           Reads(q, [step |-> "generate_rules", drafts |-> Drafts(versions, facts, exts, m)])

GenerateReadRows(q) ==
    /\ At(q, "generate_rules")
    /\ Reads(q, [step |-> "generate_rows", drafts |-> req[q].drafts, view |-> table])

\* by_code holds the last row listed for a key, and the list has no order:
\* at[s] is the row it holds for slot s, 0 for none.
ByCode(view) ==
    {at \in [Slots -> {0} \cup UNION {DOMAIN view[s] : s \in Slots}] :
        \A s \in Slots : IF view[s] = <<>> THEN at[s] = 0 ELSE at[s] \in DOMAIN view[s]}

\* Mutant: existing rows are looked up by rule version, not by rule code.
GeneratedRowsByVersion(stored, view, n, d) ==
    IF d = None THEN stored
    ELSE IF n = 0 \/ view[n].version # d.version THEN Append(stored, NewRow(d))
    ELSE [stored EXCEPT ![n] = Merge(stored[n], view[n], Revise(view[n], d))]

GeneratedRows(stored, view, n, d) ==
    IF d = None THEN stored
    ELSE IF n = 0 THEN Append(stored, NewRow(d))
    ELSE [stored EXCEPT ![n] = Merge(stored[n], view[n], Revise(view[n], d))]

GenerateCommit(q) ==
    /\ At(q, "generate_rows")
    /\ \E at \in ByCode(req[q].view) :
           table' = [s \in Slots |->
               GeneratedRows(table[s], req[q].view[s], at[s], req[q].drafts[s])]
    /\ UniqueHolds(table')
    /\ Ends(q)
    /\ UNCHANGED <<versions, exts, facts, seen>>

-----------------------------------------------------------------------------
(* PATCH /calendar-rows/{id}: every check is made on the row as loaded.    *)

PatchRead(q, actor, s, n, p, acknowledge) ==
    /\ At(q, "idle") /\ MayStart
    /\ PatchAllowed(actor, table[s][n], p)
    /\ Reads(q, [step |-> "patch", slot |-> s, at |-> n, view |-> table[s][n],
                 patch |-> p, acknowledge |-> acknowledge,
                 loaded |-> Len(versions[RuleOf[s]])])

PatchReadSome(q) ==
    \E actor \in Actors, s \in Slots, p \in Patches, acknowledge \in BOOLEAN :
        \E n \in DOMAIN table[s] : PatchRead(q, actor, s, n, p, acknowledge)

PatchCommit(q) ==
    /\ At(q, "patch")
    /\ LET w == req[q] IN
           /\ table' = [table EXCEPT ![w.slot][w.at] =
                  Merge(@, w.view, Patched(w.view, w.patch, w.acknowledge))]
           /\ seen' = [seen EXCEPT ![w.slot] = IF w.acknowledge THEN w.loaded ELSE @]
    /\ Ends(q)
    /\ UNCHANGED <<versions, exts, facts>>

-----------------------------------------------------------------------------
(* load_entries: the latest versions, then the rows to flag, then the      *)
(* commit of the new versions and the flags.  UNIQUE (rule, version_no)    *)
(* lets one of two loads of the same rule commit.                          *)

LoadRead(q) ==
    /\ At(q, "idle") /\ MayStart
    /\ \E entry \in [Rules -> Optional(Payloads)], effective \in [Rules -> BOOLEAN] :
           /\ Changed(versions, entry) # {}
           /\ \A r \in Changed(versions, entry) : Len(versions[r]) < MaxVersions
           /\ Reads(q, [step |-> "load", entry |-> entry, effective |-> effective,
                        base |-> versions])

LoadReadRows(q) ==
    /\ At(q, "load")
    /\ Reads(q, [step |-> "load_rows", entry |-> req[q].entry,
                 effective |-> req[q].effective, base |-> req[q].base, view |-> table])

LoadCommit(q) ==
    /\ At(q, "load_rows")
    /\ LET w == req[q]
           changed == Changed(w.base, w.entry)
       IN  /\ \A r \in changed : Len(versions[r]) = Len(w.base[r])
           /\ versions' = Extended(versions, changed, w.entry, w.effective)
           /\ table' = [s \in Slots |-> [n \in DOMAIN table[s] |->
                  IF RuleOf[s] \in changed /\ n \in DOMAIN w.view[s]
                  THEN Merge(table[s][n], w.view[s][n], Flagged(w.view[s][n]))
                  ELSE table[s][n]]]
    /\ Ends(q)
    /\ UNCHANGED <<exts, facts, seen>>

-----------------------------------------------------------------------------
\* Mutant: a load that dies has committed its versions and none of the flags.
FailKeepingVersions(q) ==
    /\ ~At(q, "idle")
    /\ Ends(q)
    /\ versions' = IF At(q, "load_rows")
                   THEN Extended(versions, Changed(versions, req[q].entry),
                                 req[q].entry, req[q].effective)
                   ELSE versions
    /\ UNCHANGED <<exts, facts, table, seen>>

\* The process dies, the database refuses the transaction (a broken constraint,
\* a deadlock) or the client leaves: nothing was committed.
Fail(q) == ~At(q, "idle") /\ Reads(q, Idle)

AddExtension(e) ==
    /\ MayStart
    /\ e \notin exts
    /\ exts' = exts \cup {e}
    /\ UNCHANGED <<versions, facts, table, seen, req>>

EditFacts(f) ==
    /\ MayStart
    /\ f # facts
    /\ facts' = f
    /\ UNCHANGED <<versions, exts, table, seen, req>>

Next ==
    \/ \E q \in Requests :
           \/ GenerateReadRules(q) \/ GenerateReadRows(q) \/ GenerateCommit(q)
           \/ PatchReadSome(q) \/ PatchCommit(q)
           \/ LoadRead(q) \/ LoadReadRows(q) \/ LoadCommit(q)
           \/ Fail(q)
    \/ \E e \in Extensions : AddExtension(e)
    \/ \E f \in Facts : EditFacts(f)

Spec == Init /\ [][Next]_vars

-----------------------------------------------------------------------------
(* Requests one at a time: the module implements Calendar, on the first    *)
(* row of each slot.                                                       *)

FirstRow == [s \in Slots |-> IF table[s] = <<>> THEN None ELSE table[s][1]]

Atomic == INSTANCE Calendar WITH rows <- FirstRow

\* Every request, from its first select to its commit, does what the atomic
\* request of Calendar does or nothing: no state of a session leaks into the
\* next one, and what the flush writes is what the handler decided.
Serial == Atomic!Spec

-----------------------------------------------------------------------------
(* What holds when requests overlap.                                       *)

\* services/calendar.py: user state on a row is always preserved.  A user's
\* column changes only when a PATCH that sent the column commits, to the value
\* it sent, whatever else is in progress: a generate or a load never puts back
\* the value it loaded.
OnlyPatchesWriteUserColumns ==
    [][\A s \in Slots : \A n \in DOMAIN table[s] : \A c \in UserColumns :
           table'[s][n][c] # table[s][n][c] =>
               \E q \in Requests :
                   /\ At(q, "patch") /\ req[q].slot = s /\ req[q].at = n
                   /\ c \in DOMAIN req[q].patch /\ table'[s][n][c] = req[q].patch[c]]_vars

\* PRD section 7, as far as overlapping requests leave it: a date can change and
\* the row not be in the review queue only if the row was already in it when the
\* generate loaded it (setting the flag was then no change, and an
\* acknowledgement slipped in before the commit).
SilentOnlyIfQueued ==
    [][\A s \in Slots : \A n \in DOMAIN table[s] :
           table'[s][n].due # table[s][n].due /\ ~table'[s][n].flag =>
               \E q \in Requests : At(q, "generate_rows") /\ req[q].view[s][n].flag]_vars

-----------------------------------------------------------------------------
(* What the documents promise and overlapping requests break.              *)

\* models/calendar.py: one row per rule-version occurrence per subject per FY.
OneRowPerSlot == \A s \in Slots : Len(table[s]) <= 1

\* PRD section 4.5: filed requires an SRN or the filed-offline acknowledgement.
FiledHasEvidence ==
    \A s \in Slots : \A n \in DOMAIN table[s] :
        table[s][n].status = "filed" => table[s][n].srn # None \/ table[s][n].ack

=============================================================================
