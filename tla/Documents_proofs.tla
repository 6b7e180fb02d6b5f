-------------------------- MODULE Documents_proofs --------------------------
(***************************************************************************)
(* Theorems about Documents, for every manifest, every set of templates,   *)
(* directors and requests, and their proofs.                               *)
(*                                                                         *)
(* A stamp or a version is used long after it was read: by the request     *)
(* that renders with it, by its rows that are not committed yet.  The      *)
(* invariant says of each of these what the properties say of the          *)
(* committed rows.                                                         *)
(***************************************************************************)
EXTENDS Documents, FiniteSetTheorems, TLAPS

Seen == reviewed \cup carried

\* A document of a file that was read, or of one that overtook its stamp.
Backed(d) ==
    \/ <<d.code, d.content>> \in Seen
    \/ d.version < d.content /\ <<d.code, d.version>> \in Seen

(* What request r knows and a later step relies on: no row disappears,     *)
(* every version it works with was stamped when it was selected, and was   *)
(* released, so that the file on the disk is that version's or newer.      *)
Known(r) ==
    /\ r.step = "sync" =>
           \A c \in Codes : /\ r.loaded[c] # None => template[c] # None
                            /\ r.entries[c] <= manifest[c]
    /\ r.step = "validate" => template[r.code] # None
    /\ r.step = "render" => /\ r.todo # <<>> /\ <<Head(r.todo), r.loaded.version>> \in Seen
                            /\ r.loaded.version <= manifest[Head(r.todo)]
    /\ r.step \in {"generate", "render"} => \A d \in r.pending : Backed(d)

\* The registry is never ahead of the release.
Released == \A c \in Codes : template[c] # None => template[c].version <= manifest[c]

Pending(r) == IF r.step \in {"generate", "render"} THEN r.pending ELSE {}

\* The rows that are committed, or will be.
Made == documents \cup UNION {Pending(req[q]) : q \in Requests}

OwnFiles ==
    /\ \A d \in Made : d.file \in files
    /\ \A d, e \in Made : d.file = e.file => d = e

KnownAll == \A q \in Requests : Known(req[q])

IInv == TypeOK /\ VersionReviewed /\ Released /\ KnownAll /\ OwnFiles

LEMMA RequestShapes ==
    ASSUME NEW r \in Request
    PROVE  /\ r.step \in {"idle", "sync", "validate", "generate", "render"}
           /\ r.step = "sync" => /\ r.entries \in [Codes -> Versions]
                                 /\ r.loaded \in [Codes -> Template \cup {None}]
           /\ r.step = "validate" => r.code \in Codes /\ r.loaded \in Template
           /\ r.step \in {"generate", "render"} =>
                  /\ r.todo \in Seq(Codes) /\ r.pack \in BOOLEAN
                  /\ r.attendees \in SUBSET Directors /\ r.pending \in SUBSET Document
           /\ r.step = "render" => r.loaded \in Template
<1>1. CASE r = Idle
    BY <1>1 DEF Idle
<1>2. CASE r \in [step: {"sync"}, entries: [Codes -> Versions],
                  loaded: [Codes -> Template \cup {None}]]
    BY <1>2
<1>3. CASE r \in [step: {"validate"}, code: Codes, loaded: Template]
    BY <1>3
<1>4. CASE r \in [step: {"generate"}, todo: Seq(Codes), pack: BOOLEAN,
                  attendees: SUBSET Directors, pending: SUBSET Document]
    BY <1>4
<1>5. CASE r \in [step: {"render"}, todo: Seq(Codes), pack: BOOLEAN, loaded: Template,
                  attendees: SUBSET Directors, pending: SUBSET Document]
    BY <1>5
<1> QED
    BY <1>1, <1>2, <1>3, <1>4, <1>5 DEF Request

LEMMA VersionsOrdered == \A n \in Versions : n \in Nat
BY DocumentsAssumption DEF Versions

LEMMA IdleKnown == Idle \in Request /\ Idle.step = "idle"
BY DEF Idle, Request

LEMMA Starting == Init => IInv
<1> SUFFICES ASSUME Init PROVE IInv
    OBVIOUS
<1>1. \A c \in Codes : 1 \in Versions
    BY DocumentsAssumption DEF Versions
<1>2. TypeOK
    BY <1>1, IdleKnown DEF Init, TypeOK, Stamps
<1>3. VersionReviewed /\ Released /\ KnownAll
    BY IdleKnown DEF Init, VersionReviewed, Released, KnownAll, Known
<1>4. Made = {}
    BY IdleKnown DEF Init, Made, Pending
<1> QED
    BY <1>2, <1>3, <1>4 DEF IInv, OwnFiles

-----------------------------------------------------------------------------
(* Steps that only move a request on.                                      *)

(* A request moves on to r; what it will write is what it would have       *)
(* written, or less.                                                       *)
LEMMA MovesKeepIInv ==
    ASSUME IInv, NEW q \in Requests, NEW r \in Request, Goes(q, r),
           UNCHANGED <<manifest, rows, files, history>>,
           Known(r), Pending(r) \subseteq Pending(req[q])
    PROVE  IInv'
<1>1. /\ manifest' = manifest /\ template' = template /\ director' = director
      /\ meeting' = meeting /\ documents' = documents /\ files' = files
      /\ reviewed' = reviewed /\ carried' = carried
    BY DEF rows, history
<1>2. /\ req' \in [Requests -> Request] /\ req'[q] = r
      /\ \A p \in Requests : p # q => req'[p] = req[p]
    BY DEF IInv, TypeOK, Goes
<1>3. TypeOK'
    BY <1>1, <1>2 DEF IInv, TypeOK
<1>4. VersionReviewed' /\ Released'
    BY <1>1 DEF IInv, VersionReviewed, Released
<1>5. KnownAll'
    <2> SUFFICES ASSUME NEW p \in Requests, NEW s, s = req'[p] PROVE Known(s)'
        BY Zenon DEF KnownAll
    <2>1. Known(s)
        BY <1>2 DEF IInv, KnownAll
    <2> QED
        BY <1>1, <2>1 DEF Known, Backed, Seen
<1>6. OwnFiles'
    <2>1. Made' \subseteq Made
        <3> SUFFICES ASSUME NEW p \in Requests, NEW s, s = req'[p]
                     PROVE  Pending(s) \subseteq Pending(req[p])
            BY <1>1 DEF Made
        <3> QED
            BY <1>2
    <2> QED
        BY <1>1, <2>1 DEF IInv, OwnFiles
<1> QED
    BY <1>3, <1>4, <1>5, <1>6 DEF IInv

LEMMA ReadsKeepIInv ==
    ASSUME IInv, NEW q \in Requests,
           \/ SyncRead(q)
           \/ \E c \in Codes : ValidateRead(q, c)
           \/ \E c \in Codes : GenerateDocument(q, c)
           \/ GeneratePack(q)
           \/ Fail(q)
    PROVE  IInv'
<1>1. CASE SyncRead(q)
    <2> DEFINE r == [step |-> "sync", entries |-> manifest, loaded |-> template]
    <2>1. r \in Request
        BY DEF IInv, TypeOK, Request
    <2>2. \A c \in Codes : manifest[c] <= manifest[c]
        BY VersionsOrdered DEF IInv, TypeOK
    <2>3. Known(r) /\ Pending(r) = {}
        BY <2>2 DEF Known, Pending
    <2> QED
        BY <1>1, <2>1, <2>3, MovesKeepIInv DEF SyncRead
<1>2. ASSUME NEW c \in Codes, ValidateRead(q, c) PROVE IInv'
    <2> DEFINE r == [step |-> "validate", code |-> c, loaded |-> template[c]]
    <2>1. template[c] \in Template
        BY <1>2 DEF ValidateRead, IInv, TypeOK
    <2>2. r \in Request
        BY <2>1 DEF Request
    <2>3. Known(r) /\ Pending(r) = {}
        BY <1>2 DEF Known, Pending, ValidateRead
    <2> QED
        BY <1>2, <2>2, <2>3, MovesKeepIInv DEF ValidateRead
<1>3. ASSUME NEW codes \in Seq(Codes), NEW pack \in BOOLEAN, NEW attendees \in SUBSET Directors,
             Generates(q, codes, pack, attendees)
      PROVE  IInv'
    <2> DEFINE r == [step |-> "generate", todo |-> codes, pack |-> pack,
                     attendees |-> attendees, pending |-> {}]
    <2>1. r \in Request
        BY DEF Request
    <2>2. Known(r) /\ Pending(r) = {}
        BY DEF Known, Pending
    <2> QED
        BY <1>3, <2>1, <2>2, MovesKeepIInv DEF Generates
<1>4. ASSUME NEW c \in Codes, GenerateDocument(q, c) PROVE IInv'
    <2>1. <<c>> \in Seq(Codes)
        OBVIOUS
    <2>2. Generates(q, <<c>>, FALSE, {})
        BY <1>4 DEF GenerateDocument
    <2>3. FALSE \in BOOLEAN /\ {} \in SUBSET Directors
        OBVIOUS
    <2> QED
        BY <1>3, <2>1, <2>2, <2>3, Zenon
<1>5. CASE GeneratePack(q)
    <2>1. PackTemplates[meeting.type] \in Seq(Codes)
        BY DocumentsAssumption DEF IInv, TypeOK, Meeting
    <2>2. Participants \in SUBSET Directors
        BY DEF Participants, Active, Registered
    <2> QED
        BY <1>3, <1>5, <2>1, <2>2 DEF GeneratePack
<1>6. CASE Fail(q)
    <2>1. Known(Idle) /\ Pending(Idle) = {}
        BY IdleKnown DEF Known, Pending
    <2> QED
        BY <1>6, <2>1, IdleKnown, MovesKeepIInv DEF Fail
<1> QED
    BY <1>1, <1>2, <1>4, <1>5, <1>6

(* The row is stamped when it is selected.                                 *)
LEMMA SelectKeepsIInv ==
    ASSUME IInv, NEW q \in Requests, SelectTemplate(q)
    PROVE  IInv'
<1>1. SUFFICES ASSUME NEW old, old = req[q] PROVE IInv'
    OBVIOUS
<1> DEFINE c == Head(old.todo)
           r == [step |-> "render", todo |-> old.todo, pack |-> old.pack,
                 loaded |-> template[c], attendees |-> old.attendees,
                 pending |-> old.pending]
<1>2. /\ old \in Request /\ old.step = "generate" /\ Known(old)
      /\ old.todo # <<>> /\ old.todo \in Seq(Codes)
    BY <1>1, RequestShapes DEF IInv, TypeOK, KnownAll, SelectTemplate, At
<1>3. c \in Codes /\ template[c] \in Template /\ template[c].stamped
    <2>1. c \in Codes
        BY <1>2
    <2> QED
        BY <1>1, <2>1 DEF SelectTemplate, Usable, IInv, TypeOK
<1>4. <<c, template[c].version>> \in Seen /\ template[c].version <= manifest[c]
    BY <1>1, <1>3, NoneIsNoTemplate DEF SelectTemplate, Usable, IInv, VersionReviewed, Released, Seen
<1>5. r \in Request
    BY <1>2, <1>3, RequestShapes DEF Request
<1>6. Known(r)
    BY <1>2, <1>4 DEF Known
<1>7. Pending(r) = Pending(old)
    BY <1>2 DEF Pending
<1>8. Goes(q, r) /\ UNCHANGED <<manifest, rows, files, history>>
    BY <1>1 DEF SelectTemplate
<1> QED
    BY <1>1, <1>5, <1>6, <1>7, <1>8, MovesKeepIInv

(* A new row gets a new file; the template's file is the stamped version's, *)
(* or newer.                                                               *)
LEMMA RenderKeepsIInv ==
    ASSUME IInv, NEW q \in Requests, Render(q)
    PROVE  IInv'
<1>1. SUFFICES ASSUME NEW old, old = req[q] PROVE IInv'
    OBVIOUS
<1>2. /\ old \in Request /\ old.step = "render" /\ Known(old)
      /\ old.todo # <<>> /\ old.todo \in Seq(Codes) /\ old.loaded \in Template
      /\ old.pack \in BOOLEAN /\ old.attendees \in SUBSET Directors
      /\ old.pending \in SUBSET Document
    BY <1>1, RequestShapes DEF IInv, TypeOK, KnownAll, Render, At, Known
<1>3. PICK f \in FreshFiles(q) :
          /\ files' = files \cup {f}
          /\ Goes(q, [step |-> "generate", todo |-> Tail(old.todo), pack |-> old.pack,
                      attendees |-> old.attendees,
                      pending |-> old.pending \cup
                          {[code |-> Head(old.todo), version |-> old.loaded.version,
                            content |-> manifest[Head(old.todo)],
                            attendees |-> Attendees(q), file |-> f, pack |-> old.pack]}])
    BY <1>1 DEF Render
<1> DEFINE doc == [code |-> Head(old.todo), version |-> old.loaded.version,
                   content |-> manifest[Head(old.todo)],
                   attendees |-> Attendees(q), file |-> f, pack |-> old.pack]
           r == [step |-> "generate", todo |-> Tail(old.todo), pack |-> old.pack,
                 attendees |-> old.attendees, pending |-> old.pending \cup {doc}]
<1>4. f \in Files /\ f \notin files
    BY DEF FreshFiles
<1>5. /\ manifest' = manifest /\ template' = template /\ director' = director
      /\ meeting' = meeting /\ documents' = documents
      /\ reviewed' = reviewed /\ carried' = carried
    BY DEF Render, rows, history
<1>6. doc \in Document
    <2>1. /\ Head(old.todo) \in Codes /\ old.loaded.version \in Versions
          /\ manifest[Head(old.todo)] \in Versions
        BY <1>2 DEF Template, IInv, TypeOK
    <2>2. Attendees(q) \in SUBSET Directors
        BY <1>1, <1>2 DEF Attendees, Active
    <2> QED
        BY <1>2, <1>4, <2>1, <2>2 DEF Document
<1>7. doc.file = f /\ Backed(doc)
    <2>1. /\ <<doc.code, doc.version>> \in Seen /\ doc.version <= doc.content
          /\ doc.version \in Nat /\ doc.content \in Nat
        BY <1>2, <1>6, VersionsOrdered DEF Known, Document
    <2>2. CASE doc.version = doc.content
        BY <2>1, <2>2, Zenon DEF Backed
    <2>3. CASE doc.version < doc.content
        BY <2>1, <2>3, Zenon DEF Backed
    <2> QED
        BY <2>1, <2>2, <2>3
<1> HIDE DEF doc
<1>8. r \in Request
    <2>1. Tail(old.todo) \in Seq(Codes)
        BY <1>2
    <2> QED
        BY <1>2, <1>6, <2>1 DEF Request
<1>9. r.step = "generate" /\ r.pending = old.pending \cup {doc}
    OBVIOUS
<1>10. Goes(q, r)
    BY <1>3 DEF doc
<1> HIDE DEF r
<1>11. Known(r)
    BY <1>2, <1>7, <1>9 DEF Known
<1>12. /\ req' \in [Requests -> Request] /\ req'[q] = r
       /\ \A p \in Requests : p # q => req'[p] = req[p]
    BY <1>8, <1>10 DEF IInv, TypeOK, Goes
<1>13. TypeOK'
    BY <1>3, <1>4, <1>5, <1>12 DEF IInv, TypeOK
<1>14. VersionReviewed' /\ Released'
    BY <1>5 DEF IInv, VersionReviewed, Released
<1>15. KnownAll'
    <2> SUFFICES ASSUME NEW p \in Requests, NEW s, s = req'[p] PROVE Known(s)'
        BY Zenon DEF KnownAll
    <2>1. Known(s)
        BY <1>11, <1>12 DEF IInv, KnownAll
    <2> QED
        BY <1>5, <2>1 DEF Known, Backed, Seen
<1>16. OwnFiles'
    <2>1. Made' \subseteq Made \cup {doc}
        <3> SUFFICES ASSUME NEW p \in Requests, NEW s, s = req'[p]
                     PROVE  Pending(s) \subseteq Pending(req[p]) \cup {doc}
            BY <1>5 DEF Made
        <3> QED
            BY <1>1, <1>2, <1>9, <1>12 DEF Pending
    <2> QED
        BY <1>3, <1>4, <1>7, <2>1 DEF IInv, OwnFiles
<1> QED
    BY <1>13, <1>14, <1>15, <1>16 DEF IInv

-----------------------------------------------------------------------------
(* Commits.                                                                *)

LEMMA GenerateCommitKeepsIInv ==
    ASSUME IInv, NEW q \in Requests, GenerateCommit(q)
    PROVE  IInv'
<1>1. SUFFICES ASSUME NEW old, old = req[q] PROVE IInv'
    OBVIOUS
<1>2. /\ old \in Request /\ old.step = "generate" /\ Known(old)
      /\ old.pending \in SUBSET Document
    BY <1>1, RequestShapes DEF IInv, TypeOK, KnownAll, GenerateCommit, At
<1>3. Goes(q, Idle) /\ documents' = documents \cup old.pending
    BY <1>1 DEF GenerateCommit, Finished
<1>4. /\ manifest' = manifest /\ template' = template /\ director' = director
      /\ meeting' = meeting /\ files' = files
      /\ reviewed' = reviewed /\ carried' = carried
    BY DEF GenerateCommit, history
<1>5. /\ req' \in [Requests -> Request] /\ req'[q] = Idle
      /\ \A p \in Requests : p # q => req'[p] = req[p]
    BY <1>3, IdleKnown DEF IInv, TypeOK, Goes
<1>6. TypeOK'
    BY <1>2, <1>3, <1>4, <1>5 DEF IInv, TypeOK
<1>7. VersionReviewed' /\ Released'
    BY <1>2, <1>3, <1>4 DEF IInv, VersionReviewed, Released, Known, Backed, Seen
<1>8. KnownAll'
    <2> SUFFICES ASSUME NEW p \in Requests, NEW s, s = req'[p] PROVE Known(s)'
        BY Zenon DEF KnownAll
    <2>1. Known(s)
        BY <1>5, IdleKnown DEF IInv, KnownAll, Known
    <2> QED
        BY <1>4, <2>1 DEF Known, Backed, Seen
<1>9. OwnFiles'
    <2>1. Pending(old) = old.pending /\ Pending(old) \subseteq Made
        BY <1>1, <1>2 DEF Pending, Made
    <2>2. Made' \subseteq Made
        <3> SUFFICES ASSUME NEW p \in Requests, NEW s, s = req'[p]
                     PROVE  Pending(s) \subseteq Pending(req[p])
            BY <1>3, <2>1 DEF Made
        <3> QED
            BY <1>5, IdleKnown DEF Pending
    <2> QED
        BY <1>4, <2>2 DEF IInv, OwnFiles
<1> QED
    BY <1>6, <1>7, <1>8, <1>9 DEF IInv

(* The rest of a step that writes template rows, and may carry stamps: the *)
(* rows are still there, and the stamped ones were seen.                   *)
LEMMA StampsKeepIInv ==
    ASSUME IInv, NEW q \in Requests, Goes(q, Idle),
           template' \in [Codes -> Template \cup {None}],
           \A c \in Codes : template[c] # None => template'[c] # None,
           reviewed' \in SUBSET Stamps, carried' \in SUBSET Stamps,
           reviewed \subseteq reviewed', carried \subseteq carried',
           \A c \in Codes : template'[c] # None /\ template'[c].stamped =>
               <<c, template'[c].version>> \in reviewed' \cup carried',
           \A c \in Codes : template'[c] # None => template'[c].version <= manifest[c],
           UNCHANGED <<manifest, director, meeting, documents, files>>
    PROVE  IInv'
<1>1. /\ req' \in [Requests -> Request] /\ req'[q] = Idle
      /\ \A p \in Requests : p # q => req'[p] = req[p]
    BY IdleKnown DEF IInv, TypeOK, Goes
<1>2. TypeOK'
    BY <1>1 DEF IInv, TypeOK
<1>3. VersionReviewed' /\ Released'
    BY DEF IInv, VersionReviewed, Released
<1>4. KnownAll'
    <2> SUFFICES ASSUME NEW p \in Requests, NEW s, s = req'[p] PROVE Known(s)'
        BY Zenon DEF KnownAll
    <2>1. Known(s) /\ s \in Request
        BY <1>1, IdleKnown DEF IInv, KnownAll, Known
    <2>2. Seen \subseteq Seen'
        BY DEF Seen
    <2> QED
        BY <2>1, <2>2, RequestShapes DEF Known, Backed
<1>5. OwnFiles'
    <2>1. Made' \subseteq Made
        <3> SUFFICES ASSUME NEW p \in Requests, NEW s, s = req'[p]
                     PROVE  Pending(s) \subseteq Pending(req[p])
            BY DEF Made
        <3> QED
            BY <1>1, IdleKnown DEF Pending
    <2> QED
        BY <2>1 DEF IInv, OwnFiles
<1> QED
    BY <1>2, <1>3, <1>4, <1>5 DEF IInv

LEMMA ValidateCommitKeepsIInv ==
    ASSUME IInv, NEW q \in Requests, ValidateCommit(q)
    PROVE  IInv'
<1>1. SUFFICES ASSUME NEW old, old = req[q] PROVE IInv'
    OBVIOUS
<1> DEFINE c == old.code
           was == old.loaded.version
           is == template[c].version
<1>2. /\ c \in Codes /\ was \in Versions /\ template[c] # None
    BY <1>1, RequestShapes DEF IInv, TypeOK, KnownAll, Known, ValidateCommit, At, Template
<1>3. /\ template' = [template EXCEPT ![c].stamped = TRUE]
      /\ reviewed' = reviewed \cup {<<c, was>>}
      /\ carried' = IF is = was THEN carried ELSE carried \cup {<<c, is>>}
    BY <1>1 DEF ValidateCommit
<1>4. template \in [Codes -> Template \cup {None}] /\ template[c] \in Template
    BY <1>2 DEF IInv, TypeOK
<1>5. is \in Versions
    BY <1>4 DEF Template
<1>6. /\ template'[c] = [version |-> is, stamped |-> TRUE]
      /\ \A d \in Codes : d # c => template'[d] = template[d]
    BY <1>2, <1>3, <1>4 DEF Template
<1>7. template' \in [Codes -> Template \cup {None}] /\ template'[c] \in Template
    BY <1>2, <1>3, <1>4 DEF Template
<1>8. \A d \in Codes : template[d] # None => template'[d] # None
    BY <1>6, <1>7, NoneIsNoTemplate
<1>9. reviewed' \in SUBSET Stamps /\ carried' \in SUBSET Stamps
    BY <1>2, <1>3, <1>5 DEF IInv, TypeOK, Stamps
<1>10. <<c, is>> \in reviewed' \cup carried'
    BY <1>3
<1>11. reviewed \subseteq reviewed' /\ carried \subseteq carried'
    BY <1>3
<1>12. Goes(q, Idle) /\ UNCHANGED <<manifest, director, meeting, documents, files>>
    BY DEF ValidateCommit
<1> HIDE DEF c, was, is
<1>13. ASSUME NEW d \in Codes, template'[d] # None, template'[d].stamped
       PROVE  <<d, template'[d].version>> \in reviewed' \cup carried'
    <2>1. CASE d = c
        BY <1>6, <1>10, <2>1
    <2>2. CASE d # c
        BY <1>6, <1>11, <1>13, <2>2 DEF IInv, VersionReviewed
    <2> QED
        BY <2>1, <2>2
<1>14. \A d \in Codes : template'[d] # None => template'[d].version <= manifest[d]
    BY <1>2, <1>6 DEF IInv, Released, is
<1> QED
    BY <1>7, <1>8, <1>9, <1>11, <1>12, <1>13, <1>14, StampsKeepIInv

LEMMA SyncCommitKeepsIInv ==
    ASSUME IInv, NEW q \in Requests, SyncCommit(q)
    PROVE  IInv'
<1>1. SUFFICES ASSUME NEW r, r = req[q] PROVE IInv'
    OBVIOUS
<1>2. /\ r.entries \in [Codes -> Versions]
      /\ r.loaded \in [Codes -> Template \cup {None}]
      /\ \A c \in Codes : r.loaded[c] # None => template[c] # None
      /\ \A c \in Codes : r.entries[c] <= manifest[c]
    BY <1>1, RequestShapes DEF IInv, TypeOK, KnownAll, Known, SyncCommit, At
<1>3. /\ \A c \in Codes : r.loaded[c] = None => template[c] = None
      /\ template' = [c \in Codes |-> Synced(template[c], r.loaded[c], r.entries[c])]
      /\ carried' = carried \cup
             {<<c, r.entries[c]>> : c \in {d \in Codes :
                 /\ r.loaded[d] # None /\ r.loaded[d].version # r.entries[d]
                 /\ template[d].stamped /\ ~r.loaded[d].stamped}}
      /\ reviewed' = reviewed
    BY <1>1 DEF SyncCommit
<1>4. template \in [Codes -> Template \cup {None}]
    BY DEF IInv, TypeOK
<1>5. ASSUME NEW c \in Codes
      PROVE  /\ template'[c] \in Template
             /\ template'[c].stamped => <<c, template'[c].version>> \in reviewed' \cup carried'
             /\ template'[c].version <= manifest[c]
    <2> DEFINE stored == template[c]
               loaded == r.loaded[c]
               version == r.entries[c]
    <2>1. /\ template'[c] = Synced(stored, loaded, version) /\ version \in Versions
          /\ version <= manifest[c]
        BY <1>2, <1>3
    <2>2. CASE loaded = None
        <3>1. template'[c] = [version |-> version, stamped |-> FALSE]
            BY <2>1, <2>2 DEF Synced, NewTemplate
        <3> QED
            BY <2>1, <3>1 DEF Template
    <2>3. CASE loaded # None /\ loaded.version = version
        <3>1. template'[c] = stored /\ stored # None /\ stored \in Template
            BY <1>2, <1>4, <2>1, <2>3 DEF Synced
        <3> QED
            BY <1>3, <3>1 DEF IInv, VersionReviewed, Released
    <2>4. CASE loaded # None /\ loaded.version # version
        <3>1. template'[c] = [version |-> version, stamped |-> stored.stamped /\ ~loaded.stamped]
            BY <2>1, <2>4 DEF Synced
        <3>2. stored.stamped /\ ~loaded.stamped => <<c, version>> \in carried'
            BY <1>3, <2>4
        <3>3. (stored.stamped /\ ~loaded.stamped) \in BOOLEAN
            BY Zenon
        <3>4. template'[c] \in Template
            BY <2>1, <3>1, <3>3 DEF Template
        <3>5. /\ template'[c].version = version
              /\ template'[c].stamped = (stored.stamped /\ ~loaded.stamped)
            BY <3>1
        <3> HIDE DEF stored, loaded, version
        <3> QED
            BY <2>1, <3>2, <3>4, <3>5, Zenon
    <2> QED
        BY <2>2, <2>3, <2>4
<1>6. template' \in [Codes -> Template \cup {None}]
    BY <1>3, <1>5
<1>7. \A c \in Codes : template'[c] # None
    BY <1>5, NoneIsNoTemplate
<1>8. carried' \in SUBSET Stamps
    BY <1>2, <1>3 DEF IInv, TypeOK, Stamps
<1>9. reviewed' \in SUBSET Stamps
    BY <1>3 DEF IInv, TypeOK
<1>10. Goes(q, Idle) /\ UNCHANGED <<manifest, director, meeting, documents, files>>
    BY DEF SyncCommit
<1>11. reviewed \subseteq reviewed' /\ carried \subseteq carried'
    BY <1>3
<1> QED
    BY <1>5, <1>6, <1>7, <1>8, <1>9, <1>10, <1>11, StampsKeepIInv

-----------------------------------------------------------------------------
(* Steps of no request, and the theorems.                                  *)

LEMMA OthersKeepIInv ==
    ASSUME IInv, manifest' \in [Codes -> Versions],
           \A c \in Codes : manifest[c] <= manifest'[c],
           director' \in [Directors -> {"absent", "active", "inactive"}], meeting' \in Meeting,
           UNCHANGED <<template, documents, files, req, history>>
    PROVE  IInv'
<1>1. /\ template' = template /\ documents' = documents /\ files' = files /\ req' = req
      /\ reviewed' = reviewed /\ carried' = carried
    BY DEF history
<1>2. TypeOK' /\ VersionReviewed'
    BY <1>1 DEF IInv, TypeOK, VersionReviewed
<1>3. \A c \in Codes, n \in Versions : n <= manifest[c] => n <= manifest'[c]
    BY VersionsOrdered DEF IInv, TypeOK
<1>4. Released'
    BY <1>1, <1>3 DEF IInv, Released, TypeOK, Template
<1>5. KnownAll'
    <2> SUFFICES ASSUME NEW p \in Requests, NEW s, s = req[p] PROVE Known(s)'
        BY <1>1, Zenon DEF KnownAll
    <2>1. Known(s) /\ s \in Request
        BY DEF IInv, KnownAll, TypeOK
    <2>2. s.step = "sync" => \A c \in Codes : s.entries[c] <= manifest'[c]
        BY <1>3, <2>1, RequestShapes DEF Known
    <2>3. ASSUME s.step = "render"
          PROVE  s.loaded.version <= manifest'[Head(s.todo)]
        <3>1. s.todo \in Seq(Codes) /\ s.todo # <<>> /\ s.loaded.version \in Versions
            BY <2>1, <2>3, RequestShapes DEF Known, Template
        <3>2. Head(s.todo) \in Codes
            BY <3>1
        <3> QED
            BY <1>3, <2>1, <2>3, <3>1, <3>2 DEF Known
    <2> QED
        BY <1>1, <2>1, <2>2, <2>3 DEF Known, Backed, Seen
<1>6. OwnFiles'
    BY <1>1 DEF IInv, OwnFiles, Made, Pending
<1> QED
    BY <1>2, <1>4, <1>5, <1>6 DEF IInv

LEMMA Inductive == IInv /\ [Next]_vars => IInv'
<1> SUFFICES ASSUME IInv, [Next]_vars PROVE IInv'
    OBVIOUS
<1>0. \A c \in Codes : manifest[c] \in Nat /\ manifest[c] <= manifest[c]
    BY VersionsOrdered DEF IInv, TypeOK
<1>1. ASSUME NEW c \in Codes, Deploy(c) PROVE IInv'
    <2>1. manifest[c] + 1 \in Versions
        <3>1. LastVersion[c] \in Nat /\ \A d \in Codes : LastVersion[d] \in Nat
            BY DocumentsAssumption
        <3>2. PICK d \in Codes : manifest[c] \in 1..LastVersion[d]
            BY DEF IInv, TypeOK, Versions
        <3>3. manifest[c] < LastVersion[c]
            BY <1>1 DEF Deploy
        <3>4. manifest[c] + 1 \in 1..LastVersion[c]
            BY <3>1, <3>2, <3>3
        <3> QED
            BY <3>4 DEF Versions
    <2> QED
        BY <1>0, <1>1, <2>1, OthersKeepIInv, VersionsOrdered DEF Deploy, rows, IInv, TypeOK
<1>2. ASSUME NEW d \in Directors, SaveDirector(d) PROVE IInv'
    BY <1>0, <1>2, OthersKeepIInv DEF SaveDirector, IInv, TypeOK
<1>3. CASE SaveMeeting
    BY <1>0, <1>3, OthersKeepIInv DEF SaveMeeting, IInv, TypeOK
<1>4. ASSUME NEW q \in Requests, RequestStep(q) PROVE IInv'
    BY <1>4, ReadsKeepIInv, SelectKeepsIInv, RenderKeepsIInv, GenerateCommitKeepsIInv,
       ValidateCommitKeepsIInv, SyncCommitKeepsIInv DEF RequestStep
<1>5. CASE UNCHANGED vars
    BY <1>0, <1>5, OthersKeepIInv DEF vars, rows, history, IInv, TypeOK
<1> QED
    BY <1>1, <1>2, <1>3, <1>4, <1>5 DEF Next

LEMMA Always == Spec => []IInv
BY Starting, Inductive, PTL DEF Spec

(* The rows, the requests and the histories keep their shapes.             *)
THEOREM TypeCorrect == Spec => []TypeOK
BY Always, PTL DEF IInv

(* Every document is rendered from the file of a version that somebody     *)
(* read, but for the stamps an overlap carried to another version and the  *)
(* files that a release put in the place of the stamped version's, for     *)
(* every order of releases, syncs, validations and generations.            *)
THEOREM OnlyReviewedVersions == Spec => []VersionReviewed
BY Always, PTL DEF IInv

(* Every row of the library has a file of its own that exists.             *)
THEOREM EveryRowHasItsFile == Spec => []OwnFile
<1>1. IInv => OwnFile
    BY DEF IInv, OwnFiles, OwnFile, Made
<1> QED
    BY <1>1, Always, PTL

-----------------------------------------------------------------------------
(* A pack appears whole.  What a request still has to make and what it has *)
(* made are, together and without repetition, the templates it was asked   *)
(* for; and nobody else writes the rows it holds.                          *)

LeftOf(todo) == {todo[i] : i \in DOMAIN todo}
Distinct(todo) == \A i, j \in DOMAIN todo : todo[i] = todo[j] => i = j
CodesOf(S) == {d.code : d \in S}

Assembling(r) ==
    /\ r.pack => \E type \in MeetingTypes : CodesOf(r.pending) \cup LeftOf(r.todo) = PackOf(type)
    /\ ~r.pack => \E c : CodesOf(r.pending) \cup LeftOf(r.todo) = {c}
    /\ CodesOf(r.pending) \cap LeftOf(r.todo) = {} /\ Distinct(r.todo)
    /\ IsFiniteSet(r.pending) /\ IsFiniteSet(CodesOf(r.pending))
    /\ Cardinality(r.pending) = Cardinality(CodesOf(r.pending))
    /\ \A d \in r.pending : d.pack = r.pack /\ (r.pack => d.attendees = r.attendees)

Assembled(r) == r.step \in {"generate", "render"} => Assembling(r)

AssembledAll == \A q \in Requests : Assembled(req[q])

\* The rows of a request are in nobody else's hands.
Apart ==
    \A q \in Requests :
        /\ Pending(req[q]) \cap documents = {}
        /\ \A p \in Requests : p # q => Pending(req[q]) \cap Pending(req[p]) = {}

PInv == AssembledAll /\ Apart

\* The head of the list is what the tail no longer holds.
LEMMA TailLeft ==
    ASSUME NEW todo \in Seq(Codes), todo # <<>>, Distinct(todo)
    PROVE  /\ LeftOf(todo) = {Head(todo)} \cup LeftOf(Tail(todo))
           /\ Head(todo) \notin LeftOf(Tail(todo)) /\ Distinct(Tail(todo))
<1> DEFINE rest == Tail(todo)
           n == Len(todo)
<1>1. n \in Nat \ {0} /\ DOMAIN todo = 1..n /\ Head(todo) = todo[1]
    <2>1. n \in Nat /\ DOMAIN todo = 1..n
        OBVIOUS
    <2>2. n # 0
        <3> SUFFICES ASSUME n = 0 PROVE todo = <<>>
            OBVIOUS
        <3> QED
            OBVIOUS
    <2> QED
        BY <2>1, <2>2
<1>2. /\ DOMAIN rest = 1..(n - 1)
      /\ \A i \in 1..(n - 1) : rest[i] = todo[i + 1] /\ i + 1 \in 1..n
    BY <1>1
<1>3. \A i \in 1..n : i # 1 => i - 1 \in 1..(n - 1) /\ rest[i - 1] = todo[i]
    <2> SUFFICES ASSUME NEW i \in 1..n, i # 1
                 PROVE  i - 1 \in 1..(n - 1) /\ rest[i - 1] = todo[i]
        OBVIOUS
    <2>1. i - 1 \in 1..(n - 1) /\ (i - 1) + 1 = i
        BY <1>1
    <2>2. rest[i - 1] = todo[(i - 1) + 1]
        BY <1>2, <2>1
    <2> QED
        BY <2>1, <2>2
<1> HIDE DEF rest, n
<1>4. LeftOf(todo) = {Head(todo)} \cup LeftOf(rest)
    <2>1. ASSUME NEW x \in LeftOf(todo) PROVE x = Head(todo) \/ x \in LeftOf(rest)
        <3>1. PICK i \in 1..n : x = todo[i]
            BY <1>1 DEF LeftOf
        <3>2. i # 1 => i - 1 \in DOMAIN rest /\ x = rest[i - 1]
            BY <1>2, <1>3, <3>1
        <3> QED
            BY <1>1, <3>1, <3>2 DEF LeftOf
    <2>2. ASSUME NEW x \in LeftOf(rest) PROVE x \in LeftOf(todo)
        <3>1. PICK i \in 1..(n - 1) : x = rest[i]
            BY <1>2, <2>2 DEF LeftOf
        <3>2. i + 1 \in DOMAIN todo /\ x = todo[i + 1]
            BY <1>1, <1>2, <3>1
        <3> QED
            BY <3>2 DEF LeftOf
    <2>3. Head(todo) \in LeftOf(todo)
        BY <1>1 DEF LeftOf
    <2> QED
        BY <2>1, <2>2, <2>3
<1>5. Head(todo) \notin LeftOf(rest)
    <2> SUFFICES ASSUME NEW i \in 1..(n - 1), rest[i] = todo[1] PROVE FALSE
        BY <1>1, <1>2 DEF LeftOf
    <2>1. i + 1 = 1
        BY <1>1, <1>2 DEF Distinct
    <2> QED
        BY <1>1, <2>1
<1>6. Distinct(rest)
    <2> SUFFICES ASSUME NEW i \in 1..(n - 1), NEW j \in 1..(n - 1), rest[i] = rest[j] PROVE i = j
        BY <1>2 DEF Distinct
    <2>1. todo[i + 1] = todo[j + 1] /\ i + 1 \in DOMAIN todo /\ j + 1 \in DOMAIN todo
        BY <1>1, <1>2
    <2>2. i + 1 = j + 1
        BY <2>1 DEF Distinct
    <2> QED
        BY <1>1, <2>2
<1> QED
    BY <1>4, <1>5, <1>6 DEF rest

\* A request that starts: nothing made, all left.
LEMMA StartsAssembling ==
    ASSUME NEW codes, Distinct(codes), NEW pack, NEW attendees,
           pack => \E type \in MeetingTypes : LeftOf(codes) = PackOf(type),
           ~pack => \E c : LeftOf(codes) = {c}
    PROVE  Assembling([step |-> "generate", todo |-> codes, pack |-> pack,
                       attendees |-> attendees, pending |-> {}])
<1>1. CodesOf({}) = {} /\ IsFiniteSet({}) /\ Cardinality({}) = 0
    BY FS_EmptySet DEF CodesOf
<1> QED
    BY <1>1 DEF Assembling

\* A request that makes the document at the head of its list.
LEMMA MakesOne ==
    ASSUME NEW old, Assembling(old), old.todo \in Seq(Codes), old.todo # <<>>,
           NEW doc, doc.code = Head(old.todo), doc.pack = old.pack,
           old.pack => doc.attendees = old.attendees,
           NEW r, r.todo = Tail(old.todo), r.pack = old.pack, r.attendees = old.attendees,
           r.pending = old.pending \cup {doc}
    PROVE  Assembling(r)
<1>1. /\ LeftOf(old.todo) = {doc.code} \cup LeftOf(r.todo)
      /\ doc.code \notin LeftOf(r.todo) /\ Distinct(r.todo)
    BY TailLeft DEF Assembling
<1>2. CodesOf(r.pending) = CodesOf(old.pending) \cup {doc.code}
    BY DEF CodesOf
<1>3. doc.code \notin CodesOf(old.pending) /\ doc \notin old.pending
    BY <1>1 DEF Assembling, CodesOf
<1>4. /\ IsFiniteSet(r.pending) /\ IsFiniteSet(CodesOf(r.pending))
      /\ Cardinality(r.pending) = Cardinality(CodesOf(r.pending))
    <2> DEFINE S == old.pending
               T == CodesOf(old.pending)
               code == doc.code
    <2>1. IsFiniteSet(S) /\ IsFiniteSet(T) /\ Cardinality(S) = Cardinality(T)
        BY DEF Assembling
    <2>2. /\ doc \notin S /\ code \notin T /\ r.pending = S \cup {doc}
          /\ CodesOf(r.pending) = T \cup {code}
        BY <1>2, <1>3
    <2> HIDE DEF S, T, code
    <2>3. /\ IsFiniteSet(S \cup {doc}) /\ IsFiniteSet(T \cup {code})
          /\ Cardinality(S \cup {doc}) = Cardinality(S) + 1
          /\ Cardinality(T \cup {code}) = Cardinality(T) + 1
        BY <2>1, <2>2, FS_AddElement
    <2> QED
        BY <2>1, <2>2, <2>3
<1>5. CodesOf(r.pending) \cup LeftOf(r.todo) = CodesOf(old.pending) \cup LeftOf(old.todo)
    BY <1>1, <1>2
<1>6. CodesOf(r.pending) \cap LeftOf(r.todo) = {}
    BY <1>1, <1>2 DEF Assembling
<1>7. \A d \in r.pending : d.pack = r.pack /\ (r.pack => d.attendees = r.attendees)
    BY DEF Assembling
<1> QED
    BY <1>1, <1>4, <1>5, <1>6, <1>7 DEF Assembling

\* A step that writes no rows, and leaves each request its rows or fewer.
LEMMA MovesKeepPInv ==
    ASSUME IInv, PInv, NEW q \in Requests, NEW r \in Request, Goes(q, r), documents' = documents,
           Assembled(r), Pending(r) \subseteq Pending(req[q])
    PROVE  PInv'
<1>1. /\ req'[q] = r /\ \A p \in Requests : p # q => req'[p] = req[p]
    BY DEF IInv, TypeOK, Goes
<1>2. AssembledAll'
    <2> SUFFICES ASSUME NEW p \in Requests, NEW s, s = req'[p] PROVE Assembled(s)
        BY Zenon DEF AssembledAll
    <2> QED
        BY <1>1 DEF PInv, AssembledAll
<1>3. \A p \in Requests : Pending(req'[p]) \subseteq Pending(req[p])
    BY <1>1
<1>4. Apart'
    <2> SUFFICES ASSUME NEW p \in Requests, NEW o \in Requests, NEW s, s = req'[p],
                        NEW t, t = req'[o]
                 PROVE  /\ Pending(s) \cap documents = {}
                        /\ o # p => Pending(s) \cap Pending(t) = {}
        BY Zenon DEF Apart
    <2>1. Pending(s) \subseteq Pending(req[p]) /\ Pending(t) \subseteq Pending(req[o])
        BY <1>3
    <2> QED
        BY <2>1 DEF PInv, Apart
<1> QED
    BY <1>2, <1>4 DEF PInv

LEMMA ReadsKeepPInv ==
    ASSUME IInv, PInv, NEW q \in Requests,
           \/ SyncRead(q) \/ SyncCommit(q)
           \/ \E c \in Codes : ValidateRead(q, c)
           \/ ValidateCommit(q)
           \/ \E c \in Codes : GenerateDocument(q, c)
           \/ GeneratePack(q)
           \/ SelectTemplate(q)
           \/ Fail(q)
    PROVE  PInv' /\ documents' = documents
<1>0. ASSUME NEW r \in Request, Goes(q, r), r.step \in {"idle", "sync", "validate"},
             documents' = documents
      PROVE  PInv'
    <2>1. Assembled(r) /\ Pending(r) = {}
        BY <1>0 DEF Assembled, Pending
    <2> QED
        BY <1>0, <2>1, MovesKeepPInv
<1>1. CASE SyncRead(q)
    <2> DEFINE r == [step |-> "sync", entries |-> manifest, loaded |-> template]
    <2>1. r \in Request
        BY DEF IInv, TypeOK, Request
    <2> QED
        BY <1>0, <1>1, <2>1 DEF SyncRead, rows
<1>2. ASSUME NEW c \in Codes, ValidateRead(q, c) PROVE PInv' /\ documents' = documents
    <2> DEFINE r == [step |-> "validate", code |-> c, loaded |-> template[c]]
    <2>1. template[c] \in Template
        BY <1>2 DEF ValidateRead, IInv, TypeOK
    <2>2. r \in Request
        BY <2>1 DEF Request
    <2> QED
        BY <1>0, <1>2, <2>2 DEF ValidateRead, rows
<1>3. CASE SyncCommit(q) \/ ValidateCommit(q) \/ Fail(q)
    BY <1>0, <1>3, IdleKnown DEF SyncCommit, ValidateCommit, Fail, rows
<1>4. ASSUME NEW codes \in Seq(Codes), NEW pack \in BOOLEAN, NEW attendees \in SUBSET Directors,
             Generates(q, codes, pack, attendees), Distinct(codes),
             pack => \E type \in MeetingTypes : LeftOf(codes) = PackOf(type),
             ~pack => \E c : LeftOf(codes) = {c}
      PROVE  PInv' /\ documents' = documents
    <2> DEFINE r == [step |-> "generate", todo |-> codes, pack |-> pack,
                     attendees |-> attendees, pending |-> {}]
    <2>1. r \in Request
        BY DEF Request
    <2>2. Assembling(r)
        BY <1>4, StartsAssembling
    <2>3. Assembled(r) /\ Pending(r) = {}
        BY <2>2 DEF Assembled, Pending
    <2>4. Goes(q, r) /\ documents' = documents
        BY <1>4 DEF Generates, rows
    <2> HIDE DEF r
    <2> QED
        BY <2>1, <2>3, <2>4, MovesKeepPInv
<1>5. ASSUME NEW c \in Codes, GenerateDocument(q, c) PROVE PInv' /\ documents' = documents
    <2>1. Generates(q, <<c>>, FALSE, {})
        BY <1>5 DEF GenerateDocument
    <2>2. Distinct(<<c>>) /\ LeftOf(<<c>>) = {c}
        BY DEF Distinct, LeftOf
    <2>3. <<c>> \in Seq(Codes) /\ FALSE \in BOOLEAN /\ {} \in SUBSET Directors
        OBVIOUS
    <2> QED
        BY <1>4, <2>1, <2>2, <2>3, Zenon
<1>6. CASE GeneratePack(q)
    <2>1. meeting.type \in MeetingTypes
        BY DEF IInv, TypeOK, Meeting
    <2> DEFINE codes == PackTemplates[meeting.type]
    <2>2. codes \in Seq(Codes) /\ Distinct(codes) /\ LeftOf(codes) = PackOf(meeting.type)
        BY <2>1, DocumentsAssumption, PacksDistinct DEF Distinct, LeftOf, PackOf
    <2>3. Participants \in SUBSET Directors /\ TRUE \in BOOLEAN
        BY DEF Participants, Active, Registered
    <2>4. Generates(q, codes, TRUE, Participants)
        BY <1>6 DEF GeneratePack
    <2> HIDE DEF codes
    <2> QED
        BY <1>4, <2>1, <2>2, <2>3, <2>4
<1>7. CASE SelectTemplate(q)
    <2>1. SUFFICES ASSUME NEW old, old = req[q] PROVE PInv' /\ documents' = documents
        OBVIOUS
    <2> DEFINE c == Head(old.todo)
               r == [step |-> "render", todo |-> old.todo, pack |-> old.pack,
                     loaded |-> template[c], attendees |-> old.attendees,
                     pending |-> old.pending]
    <2>2. /\ old \in Request /\ old.step = "generate" /\ Assembled(old)
          /\ old.todo # <<>> /\ old.todo \in Seq(Codes)
        BY <1>7, <2>1, RequestShapes DEF IInv, TypeOK, PInv, AssembledAll, SelectTemplate, At
    <2>3. template[c] \in Template
        <3>1. c \in Codes
            BY <2>2
        <3> QED
            BY <1>7, <2>1, <3>1 DEF SelectTemplate, Usable, IInv, TypeOK
    <2>4. r \in Request
        BY <2>2, <2>3, RequestShapes DEF Request
    <2>5. Assembled(r) /\ Pending(r) = Pending(old)
        BY <2>2 DEF Assembled, Assembling, Pending
    <2>6. Goes(q, r) /\ documents' = documents
        BY <1>7, <2>1 DEF SelectTemplate, rows
    <2> HIDE DEF r
    <2> QED
        BY <2>1, <2>4, <2>5, <2>6, MovesKeepPInv
<1> QED
    BY <1>1, <1>2, <1>3, <1>5, <1>6, <1>7

LEMMA RenderKeepsPInv ==
    ASSUME IInv, PInv, NEW q \in Requests, Render(q)
    PROVE  PInv' /\ documents' = documents
<1>1. SUFFICES ASSUME NEW old, old = req[q] PROVE PInv' /\ documents' = documents
    OBVIOUS
<1>2. /\ old \in Request /\ old.step = "render" /\ Known(old)
      /\ old.todo # <<>> /\ old.todo \in Seq(Codes) /\ Assembling(old)
    BY <1>1, RequestShapes
    DEF IInv, TypeOK, KnownAll, Render, At, Known, PInv, AssembledAll, Assembled
<1>3. PICK f \in FreshFiles(q) :
          /\ files' = files \cup {f}
          /\ Goes(q, [step |-> "generate", todo |-> Tail(old.todo), pack |-> old.pack,
                      attendees |-> old.attendees,
                      pending |-> old.pending \cup
                          {[code |-> Head(old.todo), version |-> old.loaded.version,
                            content |-> manifest[Head(old.todo)],
                            attendees |-> Attendees(q), file |-> f, pack |-> old.pack]}])
    BY <1>1 DEF Render
<1> DEFINE doc == [code |-> Head(old.todo), version |-> old.loaded.version,
                   content |-> manifest[Head(old.todo)],
                   attendees |-> Attendees(q), file |-> f, pack |-> old.pack]
           r == [step |-> "generate", todo |-> Tail(old.todo), pack |-> old.pack,
                 attendees |-> old.attendees, pending |-> old.pending \cup {doc}]
<1>4. doc.code = Head(old.todo) /\ doc.pack = old.pack /\ doc.file = f /\ f \notin files
    BY DEF FreshFiles
<1>5. old.pack => doc.attendees = old.attendees
    BY <1>1 DEF Attendees
<1> HIDE DEF doc
<1>6. Assembling(r)
    BY <1>2, <1>4, <1>5, MakesOne
<1>7. Assembled(r) /\ Pending(r) = old.pending \cup {doc} /\ Pending(old) = old.pending
    BY <1>2, <1>6 DEF Assembled, Pending
<1>8. Goes(q, r) /\ documents' = documents
    BY <1>3 DEF doc, Render, rows
<1> HIDE DEF r
<1>9. /\ req'[q] = r /\ \A p \in Requests : p # q => req'[p] = req[p]
    BY <1>8 DEF IInv, TypeOK, Goes
<1>10. AssembledAll'
    <2> SUFFICES ASSUME NEW p \in Requests, NEW s, s = req'[p] PROVE Assembled(s)
        BY Zenon DEF AssembledAll
    <2> QED
        BY <1>7, <1>9 DEF PInv, AssembledAll
<1>11. doc \notin Made
    BY <1>4 DEF IInv, OwnFiles
<1>12. ASSUME NEW p \in Requests
       PROVE  /\ Pending(req'[p]) \subseteq Pending(req[p]) \cup {doc}
              /\ p # q => Pending(req'[p]) = Pending(req[p])
    BY <1>1, <1>7, <1>9
<1>13. doc \notin documents /\ \A p \in Requests : doc \notin Pending(req[p])
    BY <1>11 DEF Made
<1>14. Apart'
    <2> SUFFICES ASSUME NEW p \in Requests, NEW o \in Requests, NEW s, s = req'[p],
                        NEW t, t = req'[o]
                 PROVE  /\ Pending(s) \cap documents = {}
                        /\ o # p => Pending(s) \cap Pending(t) = {}
        BY <1>8, Zenon DEF Apart
    <2>1. /\ Pending(req[p]) \cap documents = {}
          /\ o # p => Pending(req[p]) \cap Pending(req[o]) = {}
        BY DEF PInv, Apart
    <2>2. /\ Pending(s) \subseteq Pending(req[p]) \cup {doc}
          /\ Pending(t) \subseteq Pending(req[o]) \cup {doc}
          /\ p # q => Pending(s) = Pending(req[p])
          /\ o # q => Pending(t) = Pending(req[o])
        BY <1>12
    <2>3. Pending(s) \cap documents = {}
        BY <1>13, <2>1, <2>2
    <2>4. o # p => Pending(s) \cap Pending(t) = {}
        BY <1>13, <2>1, <2>2
    <2> QED
        BY <2>3, <2>4
<1> QED
    BY <1>8, <1>10, <1>14 DEF PInv

\* What a commit adds.
Whole(new) ==
    /\ Cardinality(new) = Cardinality({d.code : d \in new})
    /\ \A d, e \in new : d.attendees = e.attendees
    /\ \/ Cardinality(new) = 1 /\ \A d \in new : ~d.pack
       \/ \E type \in MeetingTypes : {d.code : d \in new} = PackOf(type)

LEMMA FinishedIsWhole ==
    ASSUME NEW r, Assembling(r), r.todo = <<>>, r.pack \in BOOLEAN
    PROVE  Whole(r.pending)
<1>1. LeftOf(r.todo) = {}
    BY DEF LeftOf
<1>2. Cardinality(r.pending) = Cardinality({d.code : d \in r.pending})
    BY DEF Assembling, CodesOf
<1>3. CASE r.pack
    BY <1>1, <1>2, <1>3 DEF Assembling, CodesOf, Whole
<1>4. CASE ~r.pack
    <2>1. PICK c : CodesOf(r.pending) = {c}
        BY <1>1, <1>4 DEF Assembling
    <2>2. Cardinality(r.pending) = 1
        BY <2>1, FS_Singleton DEF Assembling
    <2>3. PICK d : r.pending = {d}
        BY <2>2, FS_Singleton DEF Assembling
    <2> QED
        BY <1>2, <1>4, <2>2, <2>3 DEF Assembling, Whole
<1> QED
    BY <1>3, <1>4

LEMMA CommitsWhole ==
    ASSUME IInv, PInv, NEW q \in Requests, GenerateCommit(q)
    PROVE  PInv' /\ documents \subseteq documents' /\ Whole(documents' \ documents)
<1>1. SUFFICES ASSUME NEW old, old = req[q]
               PROVE  PInv' /\ documents \subseteq documents' /\ Whole(documents' \ documents)
    OBVIOUS
<1>2. /\ old \in Request /\ old.step = "generate" /\ Assembling(old)
      /\ old.pack \in BOOLEAN /\ old.todo = <<>>
    BY <1>1, RequestShapes
    DEF IInv, TypeOK, PInv, AssembledAll, Assembled, GenerateCommit, At, Finished
<1>3. Goes(q, Idle) /\ documents' = documents \cup old.pending
    BY <1>1 DEF GenerateCommit, Finished
<1>4. Pending(old) = old.pending /\ old.pending \cap documents = {}
    BY <1>1, <1>2 DEF Pending, PInv, Apart
<1>5. documents' \ documents = old.pending
    BY <1>3, <1>4
<1>6. Whole(documents' \ documents)
    BY <1>2, <1>5, FinishedIsWhole
<1>7. /\ req'[q] = Idle /\ \A p \in Requests : p # q => req'[p] = req[p]
    BY <1>3 DEF IInv, TypeOK, Goes
<1>8. Assembled(Idle) /\ Pending(Idle) = {}
    BY IdleKnown DEF Assembled, Pending
<1>9. AssembledAll'
    <2> SUFFICES ASSUME NEW p \in Requests, NEW s, s = req'[p] PROVE Assembled(s)
        BY Zenon DEF AssembledAll
    <2> QED
        BY <1>7, <1>8 DEF PInv, AssembledAll
<1>10. Apart'
    <2> SUFFICES ASSUME NEW p \in Requests, NEW o \in Requests, NEW s, s = req'[p],
                        NEW t, t = req'[o]
                 PROVE  /\ Pending(s) \cap documents' = {}
                        /\ o # p => Pending(s) \cap Pending(t) = {}
        BY Zenon DEF Apart
    <2>1. /\ Pending(s) = IF p = q THEN {} ELSE Pending(req[p])
          /\ Pending(t) = IF o = q THEN {} ELSE Pending(req[o])
        BY <1>7, <1>8
    <2>2. /\ Pending(req[p]) \cap documents = {}
          /\ p # q => Pending(req[p]) \cap old.pending = {}
          /\ o # p => Pending(req[p]) \cap Pending(req[o]) = {}
        BY <1>1, <1>4 DEF PInv, Apart
    <2> QED
        BY <1>3, <2>1, <2>2
<1> QED
    BY <1>3, <1>6, <1>9, <1>10 DEF PInv

LEMMA PackStep ==
    ASSUME IInv, PInv, [Next]_vars
    PROVE  /\ PInv'
           /\ documents' # documents =>
                  documents \subseteq documents' /\ Whole(documents' \ documents)
<1>1. ASSUME NEW q \in Requests, RequestStep(q)
      PROVE  /\ PInv'
             /\ documents' # documents =>
                    documents \subseteq documents' /\ Whole(documents' \ documents)
    BY <1>1, ReadsKeepPInv, RenderKeepsPInv, CommitsWhole DEF RequestStep
<1>2. ASSUME req' = req, documents' = documents PROVE PInv'
    BY <1>2 DEF PInv, AssembledAll, Apart, Assembled, Assembling, Pending
<1>3. ASSUME NEW c \in Codes, Deploy(c) PROVE PInv' /\ documents' = documents
    BY <1>2, <1>3 DEF Deploy, rows
<1>4. ASSUME NEW d \in Directors, SaveDirector(d) PROVE PInv' /\ documents' = documents
    BY <1>2, <1>4 DEF SaveDirector
<1>5. CASE SaveMeeting
    BY <1>2, <1>5 DEF SaveMeeting
<1>6. CASE UNCHANGED vars
    BY <1>2, <1>6 DEF vars, rows
<1> QED
    BY <1>1, <1>3, <1>4, <1>5, <1>6 DEF Next

(* A pack appears whole or not at all: one document of each of its         *)
(* templates, all with the attendees its meeting had when it started,      *)
(* however many requests generate at a time and whatever becomes of them.  *)
THEOREM PacksWhole == Spec => PackWhole
<1>1. Init => PInv
    <2> SUFFICES ASSUME Init PROVE PInv
        OBVIOUS
    <2>1. \A q \in Requests : Assembled(req[q]) /\ Pending(req[q]) = {}
        BY IdleKnown DEF Init, Assembled, Pending
    <2> QED
        BY <2>1 DEF PInv, AssembledAll, Apart
<1>2. IInv /\ PInv /\ [Next]_vars => PInv'
    BY PackStep
<1>3. IInv /\ PInv /\ [Next]_vars =>
          [documents' # documents =>
              LET new == documents' \ documents IN
                  /\ documents \subseteq documents'
                  /\ Cardinality(new) = Cardinality({d.code : d \in new})
                  /\ \A d, e \in new : d.attendees = e.attendees
                  /\ \/ Cardinality(new) = 1 /\ \A d \in new : ~d.pack
                     \/ \E type \in MeetingTypes : {d.code : d \in new} = PackOf(type)
          ]_vars
    BY PackStep DEF Whole
<1> QED
    BY <1>1, <1>2, <1>3, Always, PTL DEF Spec, PackWhole

=============================================================================
