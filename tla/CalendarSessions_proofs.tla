----------------------- MODULE CalendarSessions_proofs -----------------------
(***************************************************************************)
(* Theorems about CalendarSessions, for every dataset, every evaluator,    *)
(* every set of patches and any number of requests, and their proofs.      *)
(*                                                                         *)
(* Whatever overlaps, the state stays well-formed, and the theorems about  *)
(* single columns are arguments about one Merge.  One request at a time,   *)
(* what a request knows is still so when it commits (Fresh): then a slot   *)
(* has at most one row, and the module implements Calendar.                *)
(***************************************************************************)
EXTENDS CalendarSessions, TLAPS

\* The lemmas about the functions of CalendarData.
Data == INSTANCE Calendar_proofs WITH rows <- FirstRow

\* Every column of a calendar row.
Columns == {"version", "due", "ext", "flag", "why"} \cup UserColumns

LEMMA RowColumns ==
    ASSUME NEW row \in Row
    PROVE  DOMAIN row = Columns /\ row = [c \in Columns |-> row[c]]
BY DEF Row, Columns, UserColumns

(* A function over the columns whose values have the types of a row's.     *)
LEMMA RowOfColumns ==
    ASSUME NEW f, f = [c \in Columns |-> f[c]],
           f["version"] \in Nat \ {0}, f["due"] \in Optional(Dates), f["ext"] \in Optional(Extensions),
           f["flag"] \in BOOLEAN, f["why"] \in Optional(Reasons), f["status"] \in Statuses,
           f["srn"] \in Optional(Srns), f["ack"] \in BOOLEAN, f["assignee"] \in Optional(Actors),
           f["override"] \in Optional(Dates), f["reason"] \in Optional(Notes)
    PROVE  f \in Row
BY DEF Row, Columns, UserColumns

LEMMA MergedColumn ==
    ASSUME NEW stored \in Row, NEW view, NEW new, NEW c \in Columns
    PROVE  Merge(stored, view, new)[c] = IF new[c] = view[c] THEN stored[c] ELSE new[c]
BY RowColumns DEF Merge

LEMMA MergeTyped ==
    ASSUME NEW stored \in Row, NEW view, NEW new \in Row
    PROVE  Merge(stored, view, new) \in Row
<1> DEFINE m == Merge(stored, view, new)
<1>1. m = [c \in Columns |-> m[c]] /\ \A c \in Columns : m[c] \in {stored[c], new[c]}
    BY RowColumns DEF Merge
<1> HIDE DEF m
<1>2. /\ m["version"] \in Nat \ {0} /\ m["due"] \in Optional(Dates) /\ m["ext"] \in Optional(Extensions)
      /\ m["flag"] \in BOOLEAN /\ m["why"] \in Optional(Reasons) /\ m["status"] \in Statuses
      /\ m["srn"] \in Optional(Srns) /\ m["ack"] \in BOOLEAN /\ m["assignee"] \in Optional(Actors)
      /\ m["override"] \in Optional(Dates) /\ m["reason"] \in Optional(Notes)
    BY <1>1 DEF Row, Columns, UserColumns
<1>3. m \in Row
    BY <1>1, <1>2, RowOfColumns
<1> QED
    BY <1>3 DEF m

LEMMA MergeAlone ==
    ASSUME NEW row \in Row, NEW new \in Row
    PROVE  Merge(row, row, new) = new
<1>1. \A c \in Columns : Merge(row, row, new)[c] = new[c]
    BY MergedColumn
<1> QED
    BY <1>1, RowColumns DEF Merge

(* The assumptions of Calendar, which its lemmas need, are those of this   *)
(* module.                                                                 *)
LEMMA Assumed ==
    /\ RuleOf \in [Slots -> Rules]
    /\ DirectorSlots \subseteq Slots
    /\ Evaluate \in [Slots \X Payloads \X Facts -> Data!Optional(Data!Draft)]
    /\ Supersede \in [[Rules -> Data!Optional(Payloads)] \X Facts ->
                          [Slots -> {"keep", "flag", "drop"}]]
    /\ ExtRule \in [Extensions -> Rules]
    /\ ExtApplies \in [Extensions \X Facts -> Data!Tri]
    /\ None \notin Data!Draft /\ None \notin Data!FullDraft /\ None \notin Data!Row
    /\ None \notin Extensions /\ None \notin Payloads
    /\ None \notin Data!Actors /\ None \notin Srns /\ None \notin Notes
    /\ \A p \in Patches : Data!IsPatch(p)
    /\ MaxVersions \in Nat
<1>1. /\ \A S : Data!Optional(S) = Optional(S)
      /\ Data!Draft = Draft /\ Data!Tri = Tri /\ Data!Actors = Actors
      /\ Data!FullDraft = FullDraft /\ Data!Row = Row
    BY DEF Data!Row, Row, Data!FullDraft, FullDraft, Data!Optional, Optional, Data!Reasons, Reasons,
           Data!Statuses, Statuses, Data!Actors, Actors, Data!Draft, Draft, Data!Tri, Tri
<1>2. \A p \in Patches : Data!IsPatch(p)
    BY PatchesTyped DEF Data!IsPatch, IsPatch, Data!PatchValues, PatchValues, Data!Optional,
       Optional, Data!Statuses, Statuses, Data!Actors, Actors, Data!UserColumns, UserColumns
<1> QED
    BY <1>1, <1>2, ConstantsTyped, NoneIsNoValue, BoundsTyped

LEMMA SameRow == Data!Row = Row
BY DEF Data!Row, Row, Data!Optional, Optional, Data!Reasons, Reasons,
       Data!Statuses, Statuses, Data!Actors, Actors

LEMMA SameFullDraft == Data!FullDraft = FullDraft
BY DEF Data!FullDraft, FullDraft, Data!Optional, Optional, Data!Reasons, Reasons

LEMMA NewRowTyped == ASSUME NEW d \in FullDraft PROVE NewRow(d) \in Row
BY DEF NewRow, Row, FullDraft, Statuses, Optional

LEMMA ReviseTyped == ASSUME NEW row \in Row, NEW d \in FullDraft PROVE Revise(row, d) \in Row
<1>1. Data!Generated(row, d) = Revise(row, d)
    BY NoneIsNoValue DEF Data!Generated, Data!Revise, Revise
<1>2. row \in Data!Row
    BY SameRow
<1>3. d \in Data!FullDraft
    BY SameFullDraft
<1>4. row \in Data!Optional(Data!Row) /\ d \in Data!Optional(Data!FullDraft) /\ row # None
    BY <1>2, <1>3, NoneIsNoValue DEF Data!Optional
<1>5. Data!Generated(row, d) \in Data!Row
    BY Assumed, <1>4, Data!GeneratedTyped
<1> QED
    BY <1>1, <1>5, SameRow

LEMMA FlaggedTyped == ASSUME NEW row \in Row PROVE Flagged(row) \in Row
BY DEF Flagged, Row, Reasons, Optional

LEMMA PatchedTyped ==
    ASSUME NEW row \in Row, NEW p \in Patches, NEW acknowledge \in BOOLEAN
    PROVE  Patched(row, p, acknowledge) \in Row
<1>1. Data!IsPatch(p)
    BY Assumed
<1>2. Data!Patched(row, p, acknowledge) = Patched(row, p, acknowledge)
    BY DEF Data!Patched, Patched, Data!Sent, Sent
<1>3. row \in Data!Row
    BY SameRow
<1>4. Data!Patched(row, p, acknowledge) \in Data!Row
    BY Assumed, <1>1, <1>3, Data!PatchedTyped
<1> QED
    BY <1>2, <1>4, SameRow

LEMMA SameDrafted ==
    ASSUME NEW vs, NEW f, NEW xs, NEW m, NEW s
    PROVE  Data!Drafted(s, vs, f, xs, m) = Drafted(s, vs, f, xs, m)
BY DEF Data!Drafted, Drafted, Data!EffectiveVersion, EffectiveVersion, Data!InForce, InForce,
       Data!InForcePayloads, InForcePayloads, Data!ExtensionUnknown, ExtensionUnknown,
       Data!Applicable, Applicable

LEMMA DraftsTyped ==
    ASSUME NEW vs \in [Rules -> Seq(Version)], NEW f \in Facts,
           NEW xs \in SUBSET Extensions, NEW m \in Resolutions(f, xs)
    PROVE  Drafts(vs, f, xs, m) \in [Slots -> Optional(FullDraft)]
<1>1. m \in [Rules -> Data!Optional(xs)]
    BY DEF Resolutions, Optional, Data!Optional
<1>2. vs \in [Rules -> Seq(Data!Version)]
    BY DEF Data!Version, Version
<1>3. ASSUME NEW s \in Slots PROVE Drafted(s, vs, f, xs, m) \in Optional(FullDraft)
    <2>1. Data!Drafted(s, vs, f, xs, m) = Drafted(s, vs, f, xs, m)
        BY SameDrafted
    <2>2. Data!Drafted(s, vs, f, xs, m) # None => Data!Drafted(s, vs, f, xs, m) \in Data!FullDraft
        BY Assumed, <1>1, <1>2, Data!DraftedTyped
    <2> QED
        BY <2>1, <2>2, SameFullDraft DEF Optional
<1> QED
    BY <1>3 DEF Drafts
LEMMA ReviseKeepsUserColumns ==
    ASSUME NEW row \in Row, NEW d, NEW c \in UserColumns
    PROVE  Revise(row, d)[c] = row[c]
BY RowColumns DEF Revise, Columns, UserColumns

LEMMA ReviseRaisesFlag ==
    ASSUME NEW row \in Row, NEW d, Revise(row, d)["due"] # row["due"]
    PROVE  Revise(row, d)["flag"] = TRUE
BY RowColumns DEF Revise, Columns, UserColumns

LEMMA FlaggedKeepsTheRest ==
    ASSUME NEW row \in Row, NEW c \in UserColumns \cup {"due"}
    PROVE  Flagged(row)[c] = row[c]
BY RowColumns DEF Flagged, Columns, UserColumns

LEMMA PatchedColumn ==
    ASSUME NEW row \in Row, NEW p, NEW acknowledge
    PROVE  /\ Patched(row, p, acknowledge)["due"] = row["due"]
           /\ \A c \in UserColumns : Patched(row, p, acknowledge)[c] = Sent(p, c, row[c])
BY RowColumns DEF Patched, Columns, UserColumns

-----------------------------------------------------------------------------
(* What the commits write on the rows of a slot.                           *)

LEMMA Appended ==
    ASSUME NEW t \in Seq(Row), NEW row \in Row
    PROVE  /\ Append(t, row) \in Seq(Row)
           /\ \A n \in DOMAIN t : n \in DOMAIN Append(t, row) /\ Append(t, row)[n] = t[n]
OBVIOUS

LEMMA Rewritten ==
    ASSUME NEW t \in Seq(Row), NEW u, u = [n \in DOMAIN t |-> u[n]],
           \A n \in DOMAIN t : u[n] \in Row
    PROVE  u \in Seq(Row)
<1>1. Len(t) \in Nat /\ DOMAIN t = 1..Len(t)
    OBVIOUS
<1>2. u \in [1..Len(t) -> Row]
    BY <1>1
<1> QED
    BY <1>1, <1>2

(* What the commit of a generate leaves of the rows of a slot.             *)
LEMMA GeneratedSlot ==
    ASSUME NEW t \in Seq(Row), NEW view \in Seq(Row), NEW k, NEW d \in Optional(FullDraft),
           k = 0 \/ k \in DOMAIN view
    PROVE  LET u == GeneratedRows(t, view, k, d) IN
               /\ u \in Seq(Row)
               /\ \A n \in DOMAIN t :
                      \/ u[n] = t[n]
                      \/ /\ n = k /\ k \in DOMAIN view
                         /\ u[n] = Merge(t[n], view[n], Revise(view[n], d))
<1> DEFINE u == GeneratedRows(t, view, k, d)
<1>1. CASE d = None
    BY <1>1 DEF GeneratedRows
<1>2. CASE d # None /\ k = 0
    <2>1. u = Append(t, NewRow(d)) /\ d \in FullDraft
        BY <1>2 DEF GeneratedRows, Optional
    <2>2. NewRow(d) \in Row
        BY <2>1, NewRowTyped
    <2> HIDE DEF u
    <2>3. u \in Seq(Row) /\ \A n \in DOMAIN t : u[n] = t[n]
        BY <2>1, <2>2, Appended
    <2> QED
        BY <2>3 DEF u
<1>3. CASE d # None /\ k # 0
    <2>1. /\ u = [t EXCEPT ![k] = Merge(t[k], view[k], Revise(view[k], d))]
          /\ d \in FullDraft /\ k \in DOMAIN view
        BY <1>3 DEF GeneratedRows, Optional
    <2>2. /\ u = [n \in DOMAIN t |-> u[n]]
          /\ \A n \in DOMAIN t :
                 u[n] = IF n = k THEN Merge(t[n], view[n], Revise(view[n], d)) ELSE t[n]
        BY <2>1
    <2> HIDE DEF u
    <2>3. ASSUME NEW n \in DOMAIN t PROVE u[n] \in Row
        <3>1. t[n] \in Row /\ view[k] \in Row
            BY <2>1
        <3>2. Merge(t[n], view[k], Revise(view[k], d)) \in Row
            BY <2>1, <3>1, ReviseTyped, MergeTyped
        <3> QED
            BY <2>2, <3>1, <3>2
    <2>4. u \in Seq(Row)
        BY <2>2, <2>3, Rewritten
    <2> QED
        BY <2>1, <2>2, <2>4 DEF u
<1> QED
    BY <1>1, <1>2, <1>3

-----------------------------------------------------------------------------
(* What a request holds at each of its steps.                              *)

LEMMA RequestShapes ==
    ASSUME NEW w \in Request
    PROVE  /\ w.step = "idle" <=> w = Idle
           /\ w.step \in {"generate_rules", "generate_rows"} =>
                  w.drafts \in [Slots -> Optional(FullDraft)]
           /\ w.step \in {"generate_rows", "load_rows"} => w.view \in [Slots -> Seq(Row)]
           /\ w.step = "patch" =>
                  /\ w.slot \in Slots /\ w.at \in Nat \ {0} /\ w.view \in Row
                  /\ w.patch \in Patches /\ w.acknowledge \in BOOLEAN /\ w.loaded \in Nat
           /\ w.step \in {"load", "load_rows"} =>
                  /\ w.entry \in [Rules -> Optional(Payloads)]
                  /\ w.effective \in [Rules -> BOOLEAN]
                  /\ w.base \in [Rules -> Seq(Version)]
<1> DEFINE drafts == [Slots -> Optional(FullDraft)]
           views == [Slots -> Seq(Row)]
           entries == [Rules -> Optional(Payloads)]
           effectives == [Rules -> BOOLEAN]
           bases == [Rules -> Seq(Version)]
<1>1. \/ w = [step |-> "idle"]
      \/ w \in [step: {"generate_rules"}, drafts: drafts]
      \/ w \in [step: {"generate_rows"}, drafts: drafts, view: views]
      \/ w \in [step: {"patch"}, slot: Slots, at: Nat \ {0}, view: Row,
                patch: Patches, acknowledge: BOOLEAN, loaded: Nat]
      \/ w \in [step: {"load"}, entry: entries, effective: effectives, base: bases]
      \/ w \in [step: {"load_rows"}, entry: entries, effective: effectives, base: bases,
                view: views]
    BY Zenon DEF Request, Idle
<1> HIDE DEF drafts, views, entries, effectives, bases
<1>2. /\ w.step = "idle" <=> w = [step |-> "idle"]
      /\ w.step \in {"generate_rules", "generate_rows"} => w.drafts \in drafts
      /\ w.step \in {"generate_rows", "load_rows"} => w.view \in views
      /\ w.step = "patch" =>
             /\ w.slot \in Slots /\ w.at \in Nat \ {0} /\ w.view \in Row
             /\ w.patch \in Patches /\ w.acknowledge \in BOOLEAN /\ w.loaded \in Nat
      /\ w.step \in {"load", "load_rows"} =>
             w.entry \in entries /\ w.effective \in effectives /\ w.base \in bases
    BY <1>1
<1> QED
    BY <1>2, Zenon DEF Idle, drafts, views, entries, effectives, bases

LEMMA IdleIsRequest == Idle \in Request
BY Zenon DEF Request

-----------------------------------------------------------------------------
(* Type correctness, one lemma per action that moves more than req.        *)

LEMMA ReadsTyped ==
    ASSUME TypeOK, NEW q \in Requests, NEW r \in Request, Reads(q, r)
    PROVE  TypeOK'
BY DEF TypeOK, Reads

LEMMA EndsTyped ==
    ASSUME TypeOK, NEW q \in Requests, Ends(q)
    PROVE  req' \in [Requests -> Request]
BY IdleIsRequest DEF TypeOK, Ends

LEMMA GenerateReadRulesTyped ==
    ASSUME TypeOK, NEW q \in Requests, GenerateReadRules(q)
    PROVE  TypeOK'
<1>1. PICK m \in Resolutions(facts, exts) :
          Reads(q, [step |-> "generate_rules", drafts |-> Drafts(versions, facts, exts, m)])
    BY DEF GenerateReadRules
<1> DEFINE drafts == Drafts(versions, facts, exts, m)
<1>2. drafts \in [Slots -> Optional(FullDraft)]
    BY DraftsTyped DEF TypeOK
<1> HIDE DEF drafts
<1>3. [step |-> "generate_rules", drafts |-> drafts] \in Request
    BY <1>2, Zenon DEF Request
<1> QED
    BY <1>1, <1>3, ReadsTyped DEF drafts

LEMMA GenerateReadRowsTyped ==
    ASSUME TypeOK, NEW q \in Requests, GenerateReadRows(q)
    PROVE  TypeOK'
<1> DEFINE w == req[q]
<1>1. w \in Request /\ w.step = "generate_rules" /\ table \in [Slots -> Seq(Row)]
    BY DEF GenerateReadRows, At, TypeOK
<1>2. w.drafts \in [Slots -> Optional(FullDraft)]
    BY <1>1, RequestShapes
<1> HIDE DEF w
<1>3. [step |-> "generate_rows", drafts |-> w.drafts, view |-> table] \in Request
    BY <1>1, <1>2, Zenon DEF Request
<1> QED
    BY <1>3, ReadsTyped DEF GenerateReadRows, w

LEMMA GenerateWrites ==
    ASSUME TypeOK, NEW q \in Requests, GenerateCommit(q)
    PROVE  /\ At(q, "generate_rows") /\ table' \in [Slots -> Seq(Row)]
           /\ \A s \in Slots : \A n \in DOMAIN table[s] :
                  \/ table'[s][n] = table[s][n]
                  \/ \E d : /\ n \in DOMAIN req[q].view[s]
                            /\ table'[s][n] = Merge(table[s][n], req[q].view[s][n],
                                                    Revise(req[q].view[s][n], d))
<1> SUFFICES ASSUME NEW w, w = req[q]
             PROVE  /\ At(q, "generate_rows") /\ table' \in [Slots -> Seq(Row)]
                    /\ \A s \in Slots : \A n \in DOMAIN table[s] :
                           \/ table'[s][n] = table[s][n]
                           \/ \E d : /\ n \in DOMAIN w.view[s]
                                     /\ table'[s][n] = Merge(table[s][n], w.view[s][n],
                                                             Revise(w.view[s][n], d))
    OBVIOUS
<1>1. At(q, "generate_rows") /\ w \in Request /\ w.step = "generate_rows"
    BY DEF GenerateCommit, At, TypeOK
<1>2. PICK at \in ByCode(w.view) :
          table' = [s \in Slots |-> GeneratedRows(table[s], w.view[s], at[s], w.drafts[s])]
    BY DEF GenerateCommit
<1>3. /\ w.view \in [Slots -> Seq(Row)] /\ w.drafts \in [Slots -> Optional(FullDraft)]
      /\ table \in [Slots -> Seq(Row)]
    BY <1>1, RequestShapes DEF TypeOK
<1>4. ASSUME NEW s \in Slots
      PROVE  LET u == GeneratedRows(table[s], w.view[s], at[s], w.drafts[s]) IN
                 /\ u \in Seq(Row)
                 /\ \A n \in DOMAIN table[s] :
                        \/ u[n] = table[s][n]
                        \/ /\ n \in DOMAIN w.view[s]
                           /\ u[n] = Merge(table[s][n], w.view[s][n],
                                           Revise(w.view[s][n], w.drafts[s]))
    <2>1. at[s] = 0 \/ at[s] \in DOMAIN w.view[s]
        BY DEF ByCode
    <2>2. table[s] \in Seq(Row) /\ w.view[s] \in Seq(Row) /\ w.drafts[s] \in Optional(FullDraft)
        BY <1>3
    <2> QED
        BY <2>1, <2>2, GeneratedSlot
<1> QED
    BY <1>1, <1>2, <1>4

LEMMA PatchReadTyped ==
    ASSUME TypeOK, NEW q \in Requests, PatchReadSome(q)
    PROVE  TypeOK'
<1>1. PICK actor \in Actors, s \in Slots, p \in Patches, acknowledge \in BOOLEAN :
          \E n \in DOMAIN table[s] : PatchRead(q, actor, s, n, p, acknowledge)
    BY DEF PatchReadSome
<1>2. PICK n \in DOMAIN table[s] : PatchRead(q, actor, s, n, p, acknowledge)
    BY <1>1
<1> DEFINE view == table[s][n]
           loaded == Len(versions[RuleOf[s]])
<1>3. view \in Row /\ n \in Nat \ {0} /\ loaded \in Nat
    <2>1. table[s] \in Seq(Row) /\ versions[RuleOf[s]] \in Seq(Version)
        BY ConstantsTyped DEF TypeOK
    <2> QED
        BY <2>1
<1> HIDE DEF view, loaded
<1>4. [step |-> "patch", slot |-> s, at |-> n, view |-> view, patch |-> p,
       acknowledge |-> acknowledge, loaded |-> loaded] \in Request
    BY <1>3, Zenon DEF Request
<1> QED
    BY <1>2, <1>4, ReadsTyped DEF PatchRead, view, loaded

LEMMA PatchWrites ==
    ASSUME TypeOK, NEW q \in Requests, PatchCommit(q)
    PROVE  /\ At(q, "patch") /\ req[q].view \in Row /\ table' \in [Slots -> Seq(Row)]
           /\ \A s \in Slots :
                  /\ DOMAIN table'[s] = DOMAIN table[s]
                  /\ \A n \in DOMAIN table[s] :
                         table'[s][n] =
                             IF s = req[q].slot /\ n = req[q].at
                             THEN Merge(table[s][n], req[q].view,
                                        Patched(req[q].view, req[q].patch, req[q].acknowledge))
                             ELSE table[s][n]
<1> SUFFICES ASSUME NEW w, w = req[q]
             PROVE  /\ At(q, "patch") /\ w.view \in Row /\ table' \in [Slots -> Seq(Row)]
                    /\ \A s \in Slots :
                           /\ DOMAIN table'[s] = DOMAIN table[s]
                           /\ \A n \in DOMAIN table[s] :
                                  table'[s][n] =
                                      IF s = w.slot /\ n = w.at
                                      THEN Merge(table[s][n], w.view,
                                                 Patched(w.view, w.patch, w.acknowledge))
                                      ELSE table[s][n]
    OBVIOUS
<1>1. At(q, "patch") /\ w \in Request /\ w.step = "patch" /\ table \in [Slots -> Seq(Row)]
    BY DEF PatchCommit, At, TypeOK
<1>2. w.view \in Row /\ w.patch \in Patches /\ w.acknowledge \in BOOLEAN
    BY <1>1, RequestShapes
<1> DEFINE new == Patched(w.view, w.patch, w.acknowledge)
<1>3. new \in Row
    BY <1>2, PatchedTyped
<1>4. table' = [table EXCEPT ![w.slot][w.at] = Merge(@, w.view, new)]
    BY DEF PatchCommit
<1> HIDE DEF new
<1>5. ASSUME NEW s \in Slots
      PROVE  /\ table'[s] \in Seq(Row) /\ DOMAIN table'[s] = DOMAIN table[s]
             /\ \A n \in DOMAIN table[s] :
                    table'[s][n] = IF s = w.slot /\ n = w.at
                                   THEN Merge(table[s][n], w.view, new)
                                   ELSE table[s][n]
    <2>1. table[s] \in Seq(Row)
        BY <1>1
    <2>2. CASE s # w.slot
        BY <1>1, <1>4, <2>1, <2>2
    <2>3. CASE s = w.slot
        <3>1. table'[s] = [table[s] EXCEPT ![w.at] = Merge(@, w.view, new)]
            BY <1>1, <1>4, <2>3
        <3>2. /\ DOMAIN table'[s] = DOMAIN table[s]
              /\ table'[s] = [n \in DOMAIN table[s] |-> table'[s][n]]
              /\ \A n \in DOMAIN table[s] :
                     table'[s][n] = IF n = w.at THEN Merge(table[s][n], w.view, new)
                                    ELSE table[s][n]
            BY <2>1, <3>1
        <3>3. \A n \in DOMAIN table[s] : table'[s][n] \in Row
            <4> TAKE n \in DOMAIN table[s]
            <4>1. table[s][n] \in Row
                BY <2>1
            <4>2. Merge(table[s][n], w.view, new) \in Row
                BY <1>3, <4>1, MergeTyped
            <4> QED
                BY <3>2, <4>1, <4>2
        <3>4. table'[s] \in Seq(Row)
            BY <2>1, <3>2, <3>3, Rewritten
        <3> QED
            BY <2>3, <3>2, <3>4
    <2> QED
        BY <2>2, <2>3
<1>6. table' \in [Slots -> Seq(Row)]
    BY <1>1, <1>4, <1>5
<1> QED
    BY <1>1, <1>2, <1>5, <1>6 DEF new

LEMMA ExtendedTyped ==
    ASSUME NEW vs \in [Rules -> Seq(Version)], NEW base,
           NEW entry \in [Rules -> Optional(Payloads)], NEW effective \in [Rules -> BOOLEAN]
    PROVE  Extended(vs, Changed(base, entry), entry, effective) \in [Rules -> Seq(Version)]
<1>1. ASSUME NEW r \in Changed(base, entry)
      PROVE  Append(vs[r], [payload |-> entry[r], effective |-> effective[r]]) \in Seq(Version)
    <2>1. r \in Rules /\ entry[r] \in Payloads
        BY <1>1 DEF Changed, Optional
    <2>2. [payload |-> entry[r], effective |-> effective[r]] \in Version
        BY <2>1 DEF Version
    <2> QED
        BY <2>1, <2>2
<1> QED
    BY <1>1 DEF Extended

LEMMA LoadReadTyped ==
    ASSUME TypeOK, NEW q \in Requests, LoadRead(q)
    PROVE  TypeOK'
<1>1. PICK entry \in [Rules -> Optional(Payloads)], effective \in [Rules -> BOOLEAN] :
          Reads(q, [step |-> "load", entry |-> entry, effective |-> effective,
                    base |-> versions])
    BY DEF LoadRead
<1>2. versions \in [Rules -> Seq(Version)]
    BY DEF TypeOK
<1>3. [step |-> "load", entry |-> entry, effective |-> effective, base |-> versions] \in Request
    BY <1>2, Zenon DEF Request
<1> QED
    BY <1>1, <1>3, ReadsTyped

LEMMA LoadReadRowsTyped ==
    ASSUME TypeOK, NEW q \in Requests, LoadReadRows(q)
    PROVE  TypeOK'
<1> DEFINE w == req[q]
<1>1. w \in Request /\ w.step = "load" /\ table \in [Slots -> Seq(Row)]
    BY DEF LoadReadRows, At, TypeOK
<1>2. /\ w.entry \in [Rules -> Optional(Payloads)] /\ w.effective \in [Rules -> BOOLEAN]
      /\ w.base \in [Rules -> Seq(Version)]
    BY <1>1, RequestShapes
<1> HIDE DEF w
<1>3. [step |-> "load_rows", entry |-> w.entry, effective |-> w.effective, base |-> w.base,
       view |-> table] \in Request
    BY <1>1, <1>2, Zenon DEF Request
<1> QED
    BY <1>3, ReadsTyped DEF LoadReadRows, w

LEMMA LoadWrites ==
    ASSUME TypeOK, NEW q \in Requests, LoadCommit(q)
    PROVE  /\ At(q, "load_rows") /\ table' \in [Slots -> Seq(Row)]
           /\ versions' \in [Rules -> Seq(Version)]
           /\ \A s \in Slots :
                  /\ DOMAIN table'[s] = DOMAIN table[s]
                  /\ \A n \in DOMAIN table[s] :
                         \/ table'[s][n] = table[s][n]
                         \/ /\ n \in DOMAIN req[q].view[s] /\ req[q].view[s][n] \in Row
                            /\ table'[s][n] = Merge(table[s][n], req[q].view[s][n],
                                                    Flagged(req[q].view[s][n]))
<1> SUFFICES ASSUME NEW w, w = req[q]
             PROVE  /\ At(q, "load_rows") /\ table' \in [Slots -> Seq(Row)]
                    /\ versions' \in [Rules -> Seq(Version)]
                    /\ \A s \in Slots :
                           /\ DOMAIN table'[s] = DOMAIN table[s]
                           /\ \A n \in DOMAIN table[s] :
                                  \/ table'[s][n] = table[s][n]
                                  \/ /\ n \in DOMAIN w.view[s] /\ w.view[s][n] \in Row
                                     /\ table'[s][n] = Merge(table[s][n], w.view[s][n],
                                                             Flagged(w.view[s][n]))
    OBVIOUS
<1> DEFINE changed == Changed(w.base, w.entry)
<1>1. At(q, "load_rows") /\ w \in Request /\ w.step = "load_rows"
    BY DEF LoadCommit, At, TypeOK
<1>2. /\ table' = [s \in Slots |-> [n \in DOMAIN table[s] |->
             IF RuleOf[s] \in changed /\ n \in DOMAIN w.view[s]
             THEN Merge(table[s][n], w.view[s][n], Flagged(w.view[s][n]))
             ELSE table[s][n]]]
      /\ versions' = Extended(versions, changed, w.entry, w.effective)
    BY DEF LoadCommit
<1>3. /\ w.view \in [Slots -> Seq(Row)] /\ w.entry \in [Rules -> Optional(Payloads)]
      /\ w.effective \in [Rules -> BOOLEAN]
    BY <1>1, RequestShapes
<1>4. table \in [Slots -> Seq(Row)] /\ versions \in [Rules -> Seq(Version)]
    BY DEF TypeOK
<1>5. versions' \in [Rules -> Seq(Version)]
    BY <1>2, <1>3, <1>4, ExtendedTyped
<1> HIDE DEF changed
<1>6. ASSUME NEW s \in Slots
      PROVE  /\ table'[s] \in Seq(Row) /\ DOMAIN table'[s] = DOMAIN table[s]
             /\ \A n \in DOMAIN table[s] :
                    \/ table'[s][n] = table[s][n]
                    \/ /\ n \in DOMAIN w.view[s] /\ w.view[s][n] \in Row
                       /\ table'[s][n] = Merge(table[s][n], w.view[s][n],
                                               Flagged(w.view[s][n]))
    <2>1. /\ table'[s] = [n \in DOMAIN table[s] |-> table'[s][n]]
          /\ \A n \in DOMAIN table[s] :
                 \/ table'[s][n] = table[s][n]
                 \/ /\ n \in DOMAIN w.view[s]
                    /\ table'[s][n] = Merge(table[s][n], w.view[s][n], Flagged(w.view[s][n]))
        BY <1>2
    <2>2. table[s] \in Seq(Row) /\ \A n \in DOMAIN w.view[s] : w.view[s][n] \in Row
        BY <1>3, <1>4
    <2>3. ASSUME NEW n \in DOMAIN table[s] PROVE table'[s][n] \in Row
        <3>1. table[s][n] \in Row
            BY <2>2
        <3>2. \A view \in Row : Merge(table[s][n], view, Flagged(view)) \in Row
            BY <3>1, FlaggedTyped, MergeTyped
        <3> QED
            BY <2>1, <2>2, <3>1, <3>2
    <2>4. table'[s] \in Seq(Row)
        BY <2>1, <2>2, <2>3, Rewritten
    <2>5. DOMAIN table'[s] = DOMAIN table[s]
        BY <2>1
    <2> QED
        BY <2>1, <2>2, <2>4, <2>5
<1>7. table' \in [Slots -> Seq(Row)]
    BY <1>2, <1>6
<1> QED
    BY <1>1, <1>5, <1>6, <1>7

LEMMA StepTyped == TypeOK /\ [Next]_vars => TypeOK'
<1> SUFFICES ASSUME TypeOK, [Next]_vars PROVE TypeOK'
    OBVIOUS
<1>1. ASSUME NEW q \in Requests,
             GenerateReadRules(q) \/ GenerateReadRows(q) \/ PatchReadSome(q)
             \/ LoadRead(q) \/ LoadReadRows(q)
      PROVE  TypeOK'
    BY <1>1, GenerateReadRulesTyped, GenerateReadRowsTyped, PatchReadTyped, LoadReadTyped,
       LoadReadRowsTyped
<1>2. ASSUME NEW q \in Requests, GenerateCommit(q) PROVE TypeOK'
    <2>1. table' \in [Slots -> Seq(Row)] /\ req' \in [Requests -> Request]
        BY <1>2, GenerateWrites, EndsTyped DEF GenerateCommit
    <2> QED
        BY <1>2, <2>1 DEF GenerateCommit, TypeOK
<1>3. ASSUME NEW q \in Requests, PatchCommit(q) PROVE TypeOK'
    <2>1. table' \in [Slots -> Seq(Row)] /\ req' \in [Requests -> Request]
        BY <1>3, PatchWrites, EndsTyped DEF PatchCommit
    <2>2. seen' \in [Slots -> Nat]
        <3> SUFFICES ASSUME NEW w, w = req[q] PROVE seen' \in [Slots -> Nat]
            OBVIOUS
        <3>1. /\ seen' = [seen EXCEPT ![w.slot] = IF w.acknowledge THEN w.loaded ELSE @]
              /\ w \in Request /\ w.step = "patch" /\ seen \in [Slots -> Nat]
            BY <1>3 DEF PatchCommit, At, TypeOK
        <3>2. w.loaded \in Nat
            BY <3>1, RequestShapes
        <3> QED
            BY <3>1, <3>2
    <2> QED
        BY <1>3, <2>1, <2>2 DEF PatchCommit, TypeOK
<1>4. ASSUME NEW q \in Requests, LoadCommit(q) PROVE TypeOK'
    <2>1. /\ table' \in [Slots -> Seq(Row)] /\ req' \in [Requests -> Request]
          /\ versions' \in [Rules -> Seq(Version)]
        BY <1>4, LoadWrites, EndsTyped DEF LoadCommit
    <2> QED
        BY <1>4, <2>1 DEF LoadCommit, TypeOK
<1>5. ASSUME NEW q \in Requests, Fail(q) PROVE TypeOK'
    BY <1>5, IdleIsRequest, ReadsTyped DEF Fail
<1>6. ASSUME NEW e \in Extensions, AddExtension(e) PROVE TypeOK'
    BY <1>6 DEF AddExtension, TypeOK
<1>7. ASSUME NEW f \in Facts, EditFacts(f) PROVE TypeOK'
    BY <1>7 DEF EditFacts, TypeOK
<1>8. CASE UNCHANGED vars
    BY <1>8 DEF vars, TypeOK
<1> QED
    BY <1>1, <1>2, <1>3, <1>4, <1>5, <1>6, <1>7, <1>8 DEF Next

(* Whatever the requests do to each other, every row of the table, every   *)
(* version and every view a request holds stays well-formed: no flush of a *)
(* stale view mixes two rows into one the columns do not admit.            *)
THEOREM TypeCorrect == Spec => []TypeOK
<1>1. Init => TypeOK
    BY IdleIsRequest DEF Init, TypeOK
<1> QED
    BY <1>1, StepTyped, PTL DEF Spec

-----------------------------------------------------------------------------
(* The theorems: which commit changes which column.                        *)

(* A step that is not a commit leaves the table.                           *)
LEMMA OnlyCommitsWrite ==
    ASSUME [Next]_vars
    PROVE  \/ table' = table
           \/ \E q \in Requests : GenerateCommit(q) \/ PatchCommit(q) \/ LoadCommit(q)
BY DEF Next, vars, GenerateReadRules, GenerateReadRows, PatchReadSome, PatchRead, LoadRead,
       LoadReadRows, Fail, Reads, AddExtension, EditFacts

LEMMA ViewTyped ==
    ASSUME TypeOK, NEW q \in Requests, GenerateCommit(q),
           NEW s \in Slots, NEW n \in DOMAIN req[q].view[s]
    PROVE  At(q, "generate_rows") /\ req[q].view[s][n] \in Row
<1>1. At(q, "generate_rows") /\ req[q] \in Request /\ req[q].step = "generate_rows"
    BY DEF GenerateCommit, At, TypeOK
<1>2. req[q].view \in [Slots -> Seq(Row)]
    BY <1>1, RequestShapes
<1> QED
    BY <1>1, <1>2

LEMMA UserColumnStep ==
    ASSUME TypeOK, [Next]_vars, NEW s \in Slots, NEW n \in DOMAIN table[s], NEW c \in UserColumns,
           table'[s][n][c] # table[s][n][c]
    PROVE  \E q \in Requests :
               /\ At(q, "patch") /\ req[q].slot = s /\ req[q].at = n
               /\ c \in DOMAIN req[q].patch /\ table'[s][n][c] = req[q].patch[c]
<1>1. table[s][n] \in Row /\ c \in Columns
    BY DEF TypeOK, Columns
<1>2. ASSUME NEW q \in Requests, GenerateCommit(q) PROVE FALSE
    <2>1. PICK d : /\ n \in DOMAIN req[q].view[s]
                   /\ table'[s][n] = Merge(table[s][n], req[q].view[s][n],
                                           Revise(req[q].view[s][n], d))
        BY <1>2, GenerateWrites
    <2>2. req[q].view[s][n] \in Row
        BY <1>2, <2>1, ViewTyped
    <2> QED
        BY <1>1, <2>1, <2>2, MergedColumn, ReviseKeepsUserColumns
<1>3. ASSUME NEW q \in Requests, LoadCommit(q) PROVE FALSE
    <2>1. PICK view \in Row : table'[s][n] = Merge(table[s][n], view, Flagged(view))
        BY <1>3, LoadWrites
    <2> QED
        BY <1>1, <2>1, MergedColumn, FlaggedKeepsTheRest
<1>4. ASSUME NEW q \in Requests, PatchCommit(q)
      PROVE  /\ At(q, "patch") /\ req[q].slot = s /\ req[q].at = n
             /\ c \in DOMAIN req[q].patch /\ table'[s][n][c] = req[q].patch[c]
    <2> DEFINE view == req[q].view
               new == Patched(view, req[q].patch, req[q].acknowledge)
    <2>1. /\ At(q, "patch") /\ view \in Row /\ s = req[q].slot /\ n = req[q].at
          /\ table'[s][n] = Merge(table[s][n], view, new)
        BY <1>4, PatchWrites
    <2>2. new[c] = Sent(req[q].patch, c, view[c])
        BY <2>1, PatchedColumn
    <2> HIDE DEF new
    <2>3. new[c] # view[c] /\ table'[s][n][c] = new[c]
        BY <1>1, <2>1, MergedColumn
    <2> QED
        BY <2>1, <2>2, <2>3 DEF Sent
<1> QED
    BY <1>2, <1>3, <1>4, OnlyCommitsWrite

LEMMA SilentStep ==
    ASSUME TypeOK, [Next]_vars, NEW s \in Slots, NEW n \in DOMAIN table[s],
           table'[s][n]["due"] # table[s][n]["due"], ~table'[s][n]["flag"]
    PROVE  \E q \in Requests : At(q, "generate_rows") /\ req[q].view[s][n]["flag"]
<1>1. table[s][n] \in Row /\ "due" \in Columns /\ "flag" \in Columns
    BY DEF TypeOK, Columns
<1>2. ASSUME NEW q \in Requests, GenerateCommit(q)
      PROVE  At(q, "generate_rows") /\ req[q].view[s][n]["flag"]
    <2> DEFINE view == req[q].view[s][n]
    <2>1. PICK d : /\ n \in DOMAIN req[q].view[s]
                   /\ table'[s][n] = Merge(table[s][n], view, Revise(view, d))
        BY <1>2, GenerateWrites
    <2>2. At(q, "generate_rows") /\ view \in Row
        BY <1>2, <2>1, ViewTyped
    <2> HIDE DEF view
    <2>3. Revise(view, d)["due"] # view["due"]
        BY <1>1, <2>1, <2>2, MergedColumn
    <2>4. Revise(view, d)["flag"] = TRUE
        BY <2>2, <2>3, ReviseRaisesFlag
    <2>5. view["flag"] = TRUE
        BY <1>1, <2>1, <2>4, MergedColumn
    <2> QED
        BY <2>2, <2>5 DEF view
<1>3. ASSUME NEW q \in Requests, LoadCommit(q) PROVE FALSE
    <2>1. PICK view \in Row : table'[s][n] = Merge(table[s][n], view, Flagged(view))
        BY <1>3, LoadWrites
    <2> QED
        BY <1>1, <2>1, MergedColumn, FlaggedKeepsTheRest
<1>4. ASSUME NEW q \in Requests, PatchCommit(q) PROVE FALSE
    <2> DEFINE view == req[q].view
               new == Patched(view, req[q].patch, req[q].acknowledge)
    <2>1. view \in Row /\ table'[s][n] = Merge(table[s][n], view, new)
        BY <1>4, PatchWrites
    <2>2. new["due"] = view["due"]
        BY <2>1, PatchedColumn
    <2> QED
        BY <1>1, <2>1, <2>2, MergedColumn
<1> QED
    BY <1>2, <1>3, <1>4, OnlyCommitsWrite

(* No overlap puts back a user's column: it changes only by the commit of  *)
(* a patch that sent it, to the value it sent.                             *)
THEOREM UsersKeepTheirColumns == Spec => OnlyPatchesWriteUserColumns
<1>1. TypeOK /\ [Next]_vars =>
          [\A s \in Slots : \A n \in DOMAIN table[s] : \A c \in UserColumns :
               table'[s][n][c] # table[s][n][c] =>
                   \E q \in Requests :
                       /\ At(q, "patch") /\ req[q].slot = s /\ req[q].at = n
                       /\ c \in DOMAIN req[q].patch /\ table'[s][n][c] = req[q].patch[c]]_vars
    BY UserColumnStep
<1> QED
    BY <1>1, TypeCorrect, PTL DEF Spec, OnlyPatchesWriteUserColumns

(* A date moves without the review flag only in a row that was in the      *)
(* review queue when the generate loaded it, whatever overlapped.          *)
THEOREM SilentOnlyWhenQueued == Spec => SilentOnlyIfQueued
<1>1. TypeOK /\ [Next]_vars =>
          [\A s \in Slots : \A n \in DOMAIN table[s] :
               table'[s][n].due # table[s][n].due /\ ~table'[s][n].flag =>
                   \E q \in Requests : At(q, "generate_rows") /\ req[q].view[s][n].flag]_vars
    BY SilentStep
<1> QED
    BY <1>1, TypeCorrect, PTL DEF Spec, SilentOnlyIfQueued

-----------------------------------------------------------------------------
(* One request at a time.                                                  *)

\* At most one request is in progress.
Alone == \A p, q \in Requests : ~At(p, "idle") /\ ~At(q, "idle") => p = q

\* What a request knows is still what the database holds.
Fresh(w) ==
    /\ w.step \in {"generate_rules", "generate_rows"} =>
           \E m \in Resolutions(facts, exts) : w.drafts = Drafts(versions, facts, exts, m)
    /\ w.step \in {"generate_rows", "load_rows"} => w.view = table
    /\ w.step = "patch" =>
           /\ w.at \in DOMAIN table[w.slot] /\ w.view = table[w.slot][w.at]
           /\ w.loaded = Len(versions[RuleOf[w.slot]])
           /\ \E actor \in Actors : PatchAllowed(actor, w.view, w.patch)
    /\ w.step \in {"load", "load_rows"} =>
           /\ w.base = versions /\ Changed(versions, w.entry) # {}
           /\ \A r \in Changed(versions, w.entry) : Len(versions[r]) < MaxVersions

IInv == TypeOK /\ OneRowPerSlot /\ Alone /\ \A q \in Requests : Fresh(req[q])

LEMMA IdleIsFresh == Fresh(Idle) /\ Idle.step = "idle"
BY DEF Fresh, Idle

(* Requests that read, and requests that end, leave IInv.                  *)
LEMMA ReadsKeepIInv ==
    ASSUME IInv, NEW q \in Requests, NEW r, Reads(q, r), Fresh(r), TypeOK',
           ~At(q, "idle") \/ \A p \in Requests : req[p] = Idle
    PROVE  IInv'
<1>1. /\ UNCHANGED <<versions, exts, facts, table>>
      /\ req \in [Requests -> Request] /\ req' = [req EXCEPT ![q] = r]
    BY DEF Reads, IInv, TypeOK
<1>3. \A p \in Requests : p # q => req[p] = Idle
    BY <1>1, RequestShapes DEF IInv, Alone, At
<1>4. \A p \in Requests : p # q => req'[p] = Idle
    BY <1>1, <1>3
<1>5. Alone'
    BY <1>4, IdleIsFresh DEF Alone, At
<1>6. (\A p \in Requests : Fresh(req[p]))'
    <2> SUFFICES ASSUME NEW p \in Requests, NEW w, w = req'[p] PROVE Fresh(w)'
        BY Zenon DEF Fresh
    <2>1. w = r \/ w = Idle
        BY <1>1, <1>4
    <2>2. Fresh(w)
        BY <2>1, IdleIsFresh
    <2> QED
        BY <1>1, <2>2 DEF Fresh
<1>7. OneRowPerSlot'
    BY <1>1 DEF IInv, OneRowPerSlot
<1> QED
    BY <1>5, <1>6, <1>7 DEF IInv

LEMMA EndsKeepIInv ==
    ASSUME IInv, NEW q \in Requests, Ends(q), ~At(q, "idle"), TypeOK', OneRowPerSlot'
    PROVE  IInv'
<1>1. req \in [Requests -> Request] /\ req' = [req EXCEPT ![q] = Idle]
    BY DEF Ends, IInv, TypeOK
<1>2. \A p \in Requests : p # q => req[p] = Idle
    BY <1>1, RequestShapes DEF IInv, Alone, At
<1>3. \A p \in Requests : req'[p] = Idle
    BY <1>1, <1>2
<1>4. Alone'
    BY <1>3, IdleIsFresh DEF Alone, At
<1>5. (\A p \in Requests : Fresh(req[p]))'
    <2> SUFFICES ASSUME NEW p \in Requests, NEW w, w = req'[p] PROVE Fresh(w)'
        BY Zenon DEF Fresh
    <2> QED
        BY <1>3 DEF Fresh, Idle
<1> QED
    BY <1>4, <1>5 DEF IInv

LEMMA StartsAlone ==
    ASSUME ~Overlap, MayStart
    PROVE  \A p \in Requests : req[p] = Idle
BY DEF MayStart

(* The functions of Calendar are the functions of this module.             *)
LEMMA SameFunctions ==
    /\ \A d : Data!NewRow(d) = NewRow(d)
    /\ \A row, d : Data!Revise(row, d) = Revise(row, d)
    /\ \A row : Data!Flagged(row) = Flagged(row)
    /\ \A row, p, acknowledge : Data!Patched(row, p, acknowledge) = Patched(row, p, acknowledge)
    /\ \A actor, row, p : Data!PatchAllowed(actor, row, p) <=> PatchAllowed(actor, row, p)
    /\ \A vs, entry : Data!Changed(vs, entry) = Changed(vs, entry)
    /\ \A vs, changed, entry, effective :
           Data!Extended(vs, changed, entry, effective) = Extended(vs, changed, entry, effective)
    /\ Data!Actors = Actors /\ \A S : Data!Optional(S) = Optional(S)
BY DEF Data!NewRow, NewRow, Data!Revise, Revise, Data!Flagged, Flagged, Data!Patched, Patched,
       Data!PatchAllowed, PatchAllowed, Data!Changed, Changed, Data!Extended, Extended,
       Data!Sent, Sent, Data!Actors, Actors, Data!Optional, Optional

LEMMA SameDrafts ==
    ASSUME NEW vs, NEW f, NEW xs, NEW m
    PROVE  Data!Drafts(vs, f, xs, m) = Drafts(vs, f, xs, m)
BY SameDrafted DEF Data!Drafts, Drafts

LEMMA SameResolves ==
    ASSUME NEW m, NEW r, NEW f, NEW xs, NEW rank
    PROVE  Data!Resolves(m, r, f, xs, rank) <=> Resolves(m, r, f, xs, rank)
BY DEF Data!Resolves, Resolves, Data!Applicable, Applicable, Data!LastOf, LastOf

LEMMA SameResolutions ==
    ASSUME NEW f, NEW xs
    PROVE  Data!Resolutions(f, xs) = Resolutions(f, xs)
BY SameResolves, SameFunctions DEF Data!Resolutions, Resolutions, Data!Injection, Injection,
   Data!IsInjective, IsInjective, Data!Cardinality, Cardinality

-----------------------------------------------------------------------------
(* One request at a time, every commit is a step of Calendar.              *)

First(t) == IF t = <<>> THEN None ELSE t[1]

LEMMA SlotAlone ==
    ASSUME NEW t \in Seq(Row), Len(t) <= 1, t # <<>>
    PROVE  DOMAIN t = {1} /\ t[1] \in Row /\ First(t) = t[1] /\ First(t) # None
<1>1. Len(t) = 1 /\ DOMAIN t = 1..1
    <2>1. Len(t) \in Nat /\ DOMAIN t = 1..Len(t)
        OBVIOUS
    <2>2. Len(t) # 0
        <3> SUFFICES ASSUME Len(t) = 0 PROVE t = <<>>
            OBVIOUS
        <3> QED
            OBVIOUS
    <2>3. Len(t) = 1
        BY <2>1, <2>2
    <2> QED
        BY <2>1, <2>3
<1>2. t[1] \in Row
    BY <1>1
<1> QED
    BY <1>1, <1>2, NoneIsNoValue DEF First

LEMMA GeneratedAlone ==
    ASSUME NEW t \in Seq(Row), Len(t) <= 1, NEW k, NEW d \in Optional(FullDraft),
           IF t = <<>> THEN k = 0 ELSE k \in DOMAIN t
    PROVE  LET u == GeneratedRows(t, t, k, d)
           IN  Len(u) <= 1 /\ First(u) = Data!Generated(First(t), d)
<1> DEFINE u == GeneratedRows(t, t, k, d)
<1>1. CASE d = None
    BY <1>1 DEF GeneratedRows, Data!Generated
<1>2. CASE d # None /\ t = <<>>
    <2>1. u = <<NewRow(d)>>
        BY <1>2 DEF GeneratedRows
    <2>2. Data!Generated(First(t), d) = NewRow(d)
        BY <1>2, SameFunctions DEF Data!Generated, First
    <2> HIDE DEF u
    <2>3. Len(u) = 1 /\ First(u) = NewRow(d)
        BY <2>1 DEF First
    <2> QED
        BY <2>2, <2>3 DEF u
<1>3. CASE d # None /\ t # <<>>
    <2>1. DOMAIN t = {1} /\ t[1] \in Row /\ First(t) = t[1] /\ First(t) # None
        BY <1>3, SlotAlone
    <2>2. d \in FullDraft /\ k = 1
        BY <1>3, <2>1 DEF Optional
    <2> DEFINE new == Revise(t[1], d)
    <2>3. Merge(t[1], t[1], new) = new
        BY <2>1, <2>2, ReviseTyped, MergeAlone
    <2>4. Data!Generated(First(t), d) = new
        BY <1>3, <2>1, SameFunctions DEF Data!Generated
    <2>5. u = [t EXCEPT ![1] = new]
        BY <1>3, <2>2, <2>3 DEF GeneratedRows
    <2> HIDE DEF u, new
    <2>6. Len(u) = Len(t) /\ u # <<>> /\ u[1] = new
        BY <1>3, <2>1, <2>5
    <2> QED
        BY <2>4, <2>6 DEF First, u
<1> QED
    BY <1>1, <1>2, <1>3

LEMMA GenerateMaps ==
    ASSUME IInv, NEW q \in Requests, GenerateCommit(q)
    PROVE  OneRowPerSlot' /\ Data!GenerateSome
<1> SUFFICES ASSUME NEW w, w = req[q] PROVE OneRowPerSlot' /\ Data!GenerateSome
    OBVIOUS
<1>1. w \in Request /\ w.step = "generate_rows" /\ Fresh(w) /\ table \in [Slots -> Seq(Row)]
    BY DEF GenerateCommit, At, IInv, TypeOK
<1>2. PICK m \in Resolutions(facts, exts) : w.drafts = Drafts(versions, facts, exts, m)
    BY <1>1 DEF Fresh
<1>3. w.view = table /\ w.drafts \in [Slots -> Optional(FullDraft)]
    BY <1>1, RequestShapes DEF Fresh
<1>4. PICK at \in ByCode(table) :
          table' = [s \in Slots |-> GeneratedRows(table[s], table[s], at[s], w.drafts[s])]
    BY <1>3 DEF GenerateCommit
<1>5. ASSUME NEW s \in Slots
      PROVE  Len(table'[s]) <= 1 /\ First(table'[s]) = Data!Generated(First(table[s]), w.drafts[s])
    <2>1. table[s] \in Seq(Row) /\ Len(table[s]) <= 1 /\ w.drafts[s] \in Optional(FullDraft)
        BY <1>1, <1>3 DEF IInv, OneRowPerSlot
    <2>2. IF table[s] = <<>> THEN at[s] = 0 ELSE at[s] \in DOMAIN table[s]
        BY DEF ByCode
    <2>3. table'[s] = GeneratedRows(table[s], table[s], at[s], w.drafts[s])
        BY <1>4
    <2> QED
        BY <2>1, <2>2, <2>3, GeneratedAlone
<1>6. FirstRow' = [s \in Slots |-> Data!Generated(FirstRow[s], Data!Drafts(versions, facts, exts, m)[s])]
    BY <1>2, <1>5, SameDrafts DEF FirstRow, First
<1>7. Data!Generate(m)
    BY <1>6 DEF Data!Generate, GenerateCommit
<1>8. m \in Data!Resolutions(facts, exts)
    BY SameResolutions
<1> QED
    BY <1>5, <1>7, <1>8 DEF OneRowPerSlot, Data!GenerateSome

LEMMA PatchMaps ==
    ASSUME IInv, NEW q \in Requests, PatchCommit(q)
    PROVE  OneRowPerSlot' /\ \E s \in Slots : Data!PatchSome(s)
<1> SUFFICES ASSUME NEW w, w = req[q]
             PROVE  OneRowPerSlot' /\ \E s \in Slots : Data!PatchSome(s)
    OBVIOUS
<1>1. w \in Request /\ w.step = "patch" /\ Fresh(w) /\ table \in [Slots -> Seq(Row)]
    BY DEF PatchCommit, At, IInv, TypeOK
<1>2. /\ w.slot \in Slots /\ w.view \in Row /\ w.patch \in Patches /\ w.acknowledge \in BOOLEAN
      /\ w.at \in DOMAIN table[w.slot] /\ w.view = table[w.slot][w.at]
      /\ w.loaded = Len(versions[RuleOf[w.slot]])
    BY <1>1, RequestShapes DEF Fresh
<1>3. PICK actor \in Actors : PatchAllowed(actor, w.view, w.patch)
    BY <1>1 DEF Fresh
<1> DEFINE new == Patched(w.view, w.patch, w.acknowledge)
<1>4. new \in Row /\ Merge(w.view, w.view, new) = new
    BY <1>2, PatchedTyped, MergeAlone
<1>5. table' = [table EXCEPT ![w.slot][w.at] = Merge(@, w.view, new)]
    BY DEF PatchCommit
<1>6. new = Data!Patched(w.view, w.patch, w.acknowledge)
    BY SameFunctions
<1> HIDE DEF new
<1>7. table' = [table EXCEPT ![w.slot] = [table[w.slot] EXCEPT ![w.at] = new]]
    BY <1>1, <1>2, <1>4, <1>5
<1>8. /\ table[w.slot] \in Seq(Row) /\ table[w.slot] # <<>> /\ Len(table[w.slot]) <= 1
    BY <1>1, <1>2 DEF IInv, OneRowPerSlot
<1>9. w.at = 1 /\ DOMAIN table[w.slot] = {1} /\ FirstRow[w.slot] = w.view /\ w.view # None
    BY <1>2, <1>8, SlotAlone DEF FirstRow, First
<1> DEFINE u == [table[w.slot] EXCEPT ![1] = new]
<1>10. Len(u) <= 1 /\ u # <<>> /\ u[1] = new
    BY <1>8, <1>9
<1>11. table' = [table EXCEPT ![w.slot] = u]
    BY <1>7, <1>9
<1> HIDE DEF u
<1>12. \A s \in Slots : table'[s] = IF s = w.slot THEN u ELSE table[s]
    BY <1>1, <1>11
<1>13. OneRowPerSlot'
    BY <1>10, <1>12 DEF IInv, OneRowPerSlot
<1>14. FirstRow' = [FirstRow EXCEPT ![w.slot] =
                       Data!Patched(FirstRow[w.slot], w.patch, w.acknowledge)]
    BY <1>2, <1>6, <1>9, <1>10, <1>12 DEF FirstRow
<1>15. seen' = [seen EXCEPT ![w.slot] =
                   IF w.acknowledge THEN Len(versions[RuleOf[w.slot]]) ELSE seen[w.slot]]
    BY <1>2 DEF PatchCommit
<1>16. actor \in Data!Actors /\ Data!PatchAllowed(actor, FirstRow[w.slot], w.patch)
    BY <1>3, <1>9, SameFunctions
<1>17. Data!Patch(actor, w.slot, w.patch, w.acknowledge)
    BY <1>9, <1>14, <1>15, <1>16 DEF Data!Patch, PatchCommit
<1> QED
    BY <1>2, <1>13, <1>16, <1>17 DEF Data!PatchSome

LEMMA LoadMaps ==
    ASSUME IInv, NEW q \in Requests, LoadCommit(q)
    PROVE  OneRowPerSlot' /\ Data!LoadSome
<1> SUFFICES ASSUME NEW w, w = req[q] PROVE OneRowPerSlot' /\ Data!LoadSome
    OBVIOUS
<1>1. w \in Request /\ w.step = "load_rows" /\ Fresh(w) /\ table \in [Slots -> Seq(Row)]
    BY DEF LoadCommit, At, IInv, TypeOK
<1> DEFINE changed == Changed(versions, w.entry)
<1>2. /\ w.entry \in [Rules -> Optional(Payloads)] /\ w.effective \in [Rules -> BOOLEAN]
      /\ w.base = versions /\ w.view = table /\ changed # {}
      /\ \A r \in changed : Len(versions[r]) < MaxVersions
    BY <1>1, RequestShapes DEF Fresh
<1>3. /\ versions' = Extended(versions, changed, w.entry, w.effective)
      /\ table' = [s \in Slots |-> [n \in DOMAIN table[s] |->
             IF RuleOf[s] \in changed /\ n \in DOMAIN table[s]
             THEN Merge(table[s][n], table[s][n], Flagged(table[s][n]))
             ELSE table[s][n]]]
    BY <1>2 DEF LoadCommit
<1>4. changed = Data!Changed(versions, w.entry)
    BY SameFunctions
<1> HIDE DEF changed
<1>5. ASSUME NEW s \in Slots
      PROVE  /\ Len(table'[s]) <= 1
             /\ First(table'[s]) = IF RuleOf[s] \in changed /\ First(table[s]) # None
                                   THEN Flagged(First(table[s])) ELSE First(table[s])
    <2> DEFINE t == table[s]
               row == IF RuleOf[s] \in changed THEN Flagged(t[1]) ELSE t[1]
    <2>1. t \in Seq(Row) /\ Len(t) <= 1
        BY <1>1 DEF IInv, OneRowPerSlot
    <2>2. table'[s] = [n \in DOMAIN t |->
              IF RuleOf[s] \in changed /\ n \in DOMAIN t
              THEN Merge(t[n], t[n], Flagged(t[n])) ELSE t[n]]
        BY <1>3
    <2> HIDE DEF t
    <2>3. CASE t = <<>>
        <3>1. table'[s] = <<>>
            BY <2>2, <2>3
        <3> QED
            BY <2>3, <3>1 DEF First, t
    <2>4. CASE t # <<>>
        <3>1. DOMAIN t = {1} /\ t[1] \in Row /\ First(t) = t[1] /\ First(t) # None
            BY <2>1, <2>4, SlotAlone
        <3>2. Merge(t[1], t[1], Flagged(t[1])) = Flagged(t[1])
            BY <3>1, FlaggedTyped, MergeAlone
        <3>3. table'[s] = [n \in {1} |-> row]
            BY <2>2, <3>1, <3>2
        <3> HIDE DEF row
        <3>4. table'[s] = <<row>>
            BY <3>3
        <3>5. Len(table'[s]) = 1 /\ First(table'[s]) = row
            BY <3>4 DEF First
        <3> QED
            BY <3>1, <3>5 DEF row, t
    <2> QED
        BY <2>3, <2>4
<1>6. FirstRow' = [s \in Slots |-> IF RuleOf[s] \in changed /\ FirstRow[s] # None
                                   THEN Data!Flagged(FirstRow[s]) ELSE FirstRow[s]]
    BY <1>5, SameFunctions DEF FirstRow, First
<1>7. versions' = Data!Extended(versions, changed, w.entry, w.effective)
    BY <1>3, SameFunctions
<1>8. Data!Load(w.entry, w.effective)
    BY <1>2, <1>4, <1>6, <1>7 DEF Data!Load, LoadCommit
<1>9. w.entry \in [Rules -> Data!Optional(Payloads)]
    BY <1>2, SameFunctions
<1> QED
    BY <1>2, <1>5, <1>8, <1>9 DEF OneRowPerSlot, Data!LoadSome

LEMMA InductiveAlone ==
    ASSUME ~Overlap, IInv, [Next]_vars
    PROVE  IInv' /\ [Data!Next]_(Data!vars)
<1>1. TypeOK /\ TypeOK'
    BY StepTyped DEF IInv
<1>2. ASSUME NEW q \in Requests, NEW r, Reads(q, r), Fresh(r),
             ~At(q, "idle") \/ MayStart
      PROVE  IInv' /\ UNCHANGED Data!vars
    <2>1. IInv'
        BY <1>1, <1>2, StartsAlone, ReadsKeepIInv
    <2>2. UNCHANGED <<versions, exts, facts, FirstRow, seen>>
        BY <1>2 DEF Reads, FirstRow
    <2> QED
        BY <2>1, <2>2 DEF Data!vars
<1>3. ASSUME NEW q \in Requests, GenerateReadRules(q) PROVE IInv' /\ UNCHANGED Data!vars
    <2>1. PICK m \in Resolutions(facts, exts) :
              Reads(q, [step |-> "generate_rules", drafts |-> Drafts(versions, facts, exts, m)])
        BY <1>3 DEF GenerateReadRules
    <2> DEFINE r == [step |-> "generate_rules", drafts |-> Drafts(versions, facts, exts, m)]
    <2>2. Fresh(r)
        BY DEF Fresh
    <2> HIDE DEF r
    <2> QED
        BY <1>2, <1>3, <2>1, <2>2 DEF GenerateReadRules, r
<1>4. ASSUME NEW q \in Requests, GenerateReadRows(q) PROVE IInv' /\ UNCHANGED Data!vars
    <2>1. Fresh(req[q]) /\ req[q].step = "generate_rules" /\ ~At(q, "idle")
        BY <1>4 DEF IInv, GenerateReadRows, At
    <2> DEFINE r == [step |-> "generate_rows", drafts |-> req[q].drafts, view |-> table]
    <2>2. Fresh(r)
        BY <2>1 DEF Fresh
    <2>3. Reads(q, r)
        BY <1>4 DEF GenerateReadRows
    <2> HIDE DEF r
    <2> QED
        BY <1>2, <2>1, <2>2, <2>3
<1>5. ASSUME NEW q \in Requests, PatchReadSome(q) PROVE IInv' /\ UNCHANGED Data!vars
    <2>1. PICK actor \in Actors, s \in Slots, p \in Patches, acknowledge \in BOOLEAN :
              \E n \in DOMAIN table[s] : PatchRead(q, actor, s, n, p, acknowledge)
        BY <1>5 DEF PatchReadSome
    <2>2. PICK n \in DOMAIN table[s] : PatchRead(q, actor, s, n, p, acknowledge)
        BY <2>1
    <2> DEFINE r == [step |-> "patch", slot |-> s, at |-> n, view |-> table[s][n],
                     patch |-> p, acknowledge |-> acknowledge,
                     loaded |-> Len(versions[RuleOf[s]])]
    <2>3. Reads(q, r) /\ MayStart /\ PatchAllowed(actor, table[s][n], p)
        BY <2>2 DEF PatchRead
    <2>4. Fresh(r)
        BY <2>3 DEF Fresh
    <2> HIDE DEF r
    <2> QED
        BY <1>2, <2>3, <2>4
<1>6. ASSUME NEW q \in Requests, LoadRead(q) PROVE IInv' /\ UNCHANGED Data!vars
    <2>1. PICK entry \in [Rules -> Optional(Payloads)], effective \in [Rules -> BOOLEAN] :
              /\ Changed(versions, entry) # {}
              /\ \A r \in Changed(versions, entry) : Len(versions[r]) < MaxVersions
              /\ Reads(q, [step |-> "load", entry |-> entry, effective |-> effective,
                           base |-> versions])
        BY <1>6 DEF LoadRead
    <2> DEFINE r == [step |-> "load", entry |-> entry, effective |-> effective,
                     base |-> versions]
    <2>2. Fresh(r)
        BY <2>1 DEF Fresh
    <2>3. Reads(q, r) /\ MayStart
        BY <1>6, <2>1 DEF LoadRead
    <2> HIDE DEF r
    <2> QED
        BY <1>2, <2>2, <2>3
<1>7. ASSUME NEW q \in Requests, LoadReadRows(q) PROVE IInv' /\ UNCHANGED Data!vars
    <2>1. Fresh(req[q]) /\ req[q].step = "load" /\ ~At(q, "idle")
        BY <1>7 DEF IInv, LoadReadRows, At
    <2> DEFINE r == [step |-> "load_rows", entry |-> req[q].entry,
                     effective |-> req[q].effective, base |-> req[q].base, view |-> table]
    <2>2. Fresh(r)
        BY <2>1 DEF Fresh
    <2>3. Reads(q, r)
        BY <1>7 DEF LoadReadRows
    <2> HIDE DEF r
    <2> QED
        BY <1>2, <2>1, <2>2, <2>3
<1>8. ASSUME NEW q \in Requests, Fail(q) PROVE IInv' /\ UNCHANGED Data!vars
    BY <1>2, <1>8, IdleIsFresh DEF Fail
<1>9. ASSUME NEW q \in Requests, GenerateCommit(q) \/ PatchCommit(q) \/ LoadCommit(q)
      PROVE  IInv' /\ Data!Next
    <2>1. Ends(q) /\ ~At(q, "idle")
        BY <1>9 DEF GenerateCommit, PatchCommit, LoadCommit, At
    <2>2. OneRowPerSlot' /\ Data!Next
        BY <1>9, GenerateMaps, PatchMaps, LoadMaps DEF Data!Next
    <2> QED
        BY <1>1, <2>1, <2>2, EndsKeepIInv
<1>10. ASSUME table' = table, req' = req, \A q \in Requests : req[q] = Idle
       PROVE  IInv'
    <2>1. \A q \in Requests : req'[q] = Idle
        BY <1>10
    <2>2. (\A q \in Requests : Fresh(req[q]))'
        <3> SUFFICES ASSUME NEW q \in Requests, NEW w, w = req'[q] PROVE Fresh(w)'
            BY Zenon DEF Fresh
        <3> QED
            BY <2>1 DEF Fresh, Idle
    <2>3. Alone' /\ OneRowPerSlot'
        BY <1>10, <2>1, IdleIsFresh DEF IInv, OneRowPerSlot, Alone, At
    <2> QED
        BY <1>1, <2>2, <2>3 DEF IInv
<1>11. ASSUME NEW e \in Extensions, AddExtension(e) PROVE IInv' /\ Data!Next
    <2>1. Data!AddExtension(e)
        BY <1>11 DEF AddExtension, Data!AddExtension, FirstRow
    <2> QED
        BY <1>10, <1>11, <2>1, StartsAlone DEF AddExtension, Data!Next
<1>12. ASSUME NEW f \in Facts, EditFacts(f) PROVE IInv' /\ Data!Next
    <2>1. Data!EditFacts(f)
        BY <1>12 DEF EditFacts, Data!EditFacts, FirstRow
    <2> QED
        BY <1>10, <1>12, <2>1, StartsAlone DEF EditFacts, Data!Next
<1>13. CASE UNCHANGED vars
    <2>1. UNCHANGED Data!vars
        BY <1>13 DEF vars, Data!vars, FirstRow
    <2>2. (\A q \in Requests : Fresh(req[q]))'
        <3> SUFFICES ASSUME NEW q \in Requests, NEW w, w = req'[q] PROVE Fresh(w)'
            BY Zenon DEF Fresh
        <3>1. Fresh(w)
            BY <1>13 DEF IInv, vars
        <3> QED
            BY <1>13, <3>1 DEF Fresh, vars
    <2>3. Alone' /\ OneRowPerSlot'
        BY <1>13 DEF IInv, vars, OneRowPerSlot, Alone, At
    <2> QED
        BY <1>1, <2>1, <2>2, <2>3 DEF IInv
<1> QED
    BY <1>3, <1>4, <1>5, <1>6, <1>7, <1>8, <1>9, <1>11, <1>12, <1>13 DEF Next

LEMMA StartingAlone == Init => IInv /\ Data!Init
<1> SUFFICES ASSUME Init PROVE IInv /\ Data!Init
    OBVIOUS
<1>1. TypeOK
    BY IdleIsRequest DEF Init, TypeOK
<1>2. OneRowPerSlot /\ Alone /\ \A q \in Requests : Fresh(req[q])
    BY IdleIsFresh DEF Init, OneRowPerSlot, Alone, At
<1>3. FirstRow = [s \in Slots |-> None]
    BY DEF Init, FirstRow
<1> QED
    BY <1>1, <1>2, <1>3 DEF IInv, Init, Data!Init

LEMMA AlwaysAlone == ASSUME ~Overlap PROVE Spec => []IInv
<1>1. IInv /\ [Next]_vars => IInv'
    BY InductiveAlone
<1> QED
    BY <1>1, StartingAlone, PTL DEF Spec

(* Requests one at a time leave one row per slot: a generate that runs     *)
(* alone finds the row of every slot that has one.                         *)
THEOREM OneRowAlone == ASSUME ~Overlap PROVE Spec => []OneRowPerSlot
<1>1. IInv => OneRowPerSlot
    BY DEF IInv
<1> QED
    BY <1>1, AlwaysAlone, PTL

LEMMA AtomicIsData ==
    /\ Atomic!Init <=> Data!Init
    /\ Atomic!Next <=> Data!Next
    /\ Atomic!vars = Data!vars
BY DEF Atomic!Optional, Data!Optional, Atomic!Reasons, Data!Reasons, Atomic!Statuses,
       Data!Statuses, Atomic!Actors, Data!Actors, Atomic!UserColumns, Data!UserColumns,
       Atomic!InForce, Data!InForce, Atomic!EffectiveVersion, Data!EffectiveVersion,
       Atomic!Applicable, Data!Applicable, Atomic!LastOf, Data!LastOf, Atomic!Resolves,
       Data!Resolves, Atomic!Resolutions, Data!Resolutions, Atomic!ExtensionUnknown,
       Data!ExtensionUnknown, Atomic!InForcePayloads, Data!InForcePayloads,
       Atomic!Drafted, Data!Drafted, Atomic!Drafts, Data!Drafts, Atomic!NewRow,
       Data!NewRow, Atomic!Revise, Data!Revise, Atomic!Changed, Data!Changed,
       Atomic!Extended, Data!Extended, Atomic!Flagged, Data!Flagged, Atomic!Sent,
       Data!Sent, Atomic!PatchAllowed, Data!PatchAllowed, Atomic!Patched, Data!Patched,
       Atomic!Load, Data!Load, Atomic!AddExtension, Data!AddExtension, Atomic!EditFacts,
       Data!EditFacts, Atomic!Generated, Data!Generated, Atomic!Generate, Data!Generate,
       Atomic!GenerateSome, Data!GenerateSome, Atomic!Patch, Data!Patch, Atomic!LoadSome,
       Data!LoadSome, Atomic!PatchSome, Data!PatchSome, Atomic!Next, Data!Next,
       Atomic!Injection, Data!Injection, Atomic!IsInjective, Data!IsInjective,
       Atomic!Cardinality, Data!Cardinality, Atomic!Init, Data!Init, Atomic!vars,
       Data!vars

LEMMA AloneIsData == ASSUME ~Overlap PROVE Spec => Data!Spec
<1>1. IInv /\ [Next]_vars => [Data!Next]_(Data!vars)
    BY InductiveAlone
<1> QED
    BY <1>1, StartingAlone, AlwaysAlone, PTL DEF Spec, Data!Spec

(* Requests one at a time do what the atomic requests of Calendar do.      *)
THEOREM SerialRefines == ASSUME ~Overlap PROVE Spec => Serial
<1>1. Init => Atomic!Init
    BY StartingAlone, AtomicIsData
<1>2. IInv /\ [Next]_vars => [Atomic!Next]_(Atomic!vars)
    <2> SUFFICES ASSUME IInv, [Next]_vars PROVE Atomic!Next \/ UNCHANGED Atomic!vars
        OBVIOUS
    <2>1. Data!Next \/ UNCHANGED Data!vars
        BY InductiveAlone
    <2> QED
        BY <2>1, AtomicIsData DEF Atomic!vars, Data!vars
<1> QED
    BY <1>1, <1>2, AlwaysAlone, PTL DEF Spec, Serial, Atomic!Spec

(* Requests one at a time leave no filed row without evidence, through any *)
(* number of them: the counterexample of overlapping requests needs the    *)
(* overlap.                                                                *)
THEOREM FiledEvidenceAlone == ASSUME ~Overlap PROVE Spec => []FiledHasEvidence
<1>1. Data!Spec => []Data!FiledHasEvidence
    BY Assumed, Data!FiledEvidence
<1>2. IInv /\ Data!FiledHasEvidence => FiledHasEvidence
    <2> SUFFICES ASSUME IInv, Data!FiledHasEvidence, NEW s \in Slots, NEW n \in DOMAIN table[s],
                        table[s][n].status = "filed"
                 PROVE  table[s][n].srn # None \/ table[s][n].ack
        BY DEF FiledHasEvidence
    <2>1. table[s] \in Seq(Row) /\ Len(table[s]) <= 1 /\ table[s] # <<>>
        BY DEF IInv, TypeOK, OneRowPerSlot
    <2>2. n = 1 /\ FirstRow[s] = table[s][1] /\ FirstRow[s] # None
        BY <2>1, SlotAlone DEF FirstRow, First
    <2> QED
        BY <2>2 DEF Data!FiledHasEvidence
<1> QED
    BY <1>1, <1>2, AloneIsData, AlwaysAlone, PTL

(* Requests one at a time keep what Calendar guarantees of its rows: each  *)
(* date traces to the version the row pins, a row on an old version is in  *)
(* the review queue unless somebody saw the newer one, and a date never    *)
(* changes silently.                                                       *)
THEOREM GuaranteesAlone ==
    ASSUME ~Overlap
    PROVE  Spec => []Atomic!DateTraces /\ []Atomic!StaleRowFlagged /\ Atomic!NeverSilent
<1>1. Data!Spec => []Data!DateTraces
    BY Assumed, Data!Traceability
<1>2. Data!Spec => []Data!StaleRowFlagged
    BY Assumed, Data!StaleRowsQueued
<1>3. Data!Spec => Data!NeverSilent
    BY Assumed, Data!DatesNeverSilent
<1>4. Data!DateTraces <=> Atomic!DateTraces
    BY DEF Data!DateTraces, Atomic!DateTraces
<1>5. Data!StaleRowFlagged <=> Atomic!StaleRowFlagged
    BY DEF Data!StaleRowFlagged, Atomic!StaleRowFlagged, Data!EffectiveVersion,
           Atomic!EffectiveVersion, Data!InForce, Atomic!InForce
<1>6. Data!NeverSilent => Atomic!NeverSilent
    BY AtomicIsData, PTL DEF Data!NeverSilent, Atomic!NeverSilent, Data!vars, Atomic!vars
<1> QED
    BY <1>1, <1>2, <1>3, <1>4, <1>5, <1>6, AloneIsData, PTL

=============================================================================
