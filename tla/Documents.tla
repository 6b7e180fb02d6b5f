----------------------------- MODULE Documents -----------------------------
(***************************************************************************)
(* Document templates and generated documents: the registry sync, the      *)
(* validation stamp, the generation of one document and of a meeting pack  *)
(* (services/documents.py, services/meetings.py and their routes).         *)
(*                                                                         *)
(* A request reads committed rows at different moments and writes at its   *)
(* commit only the columns it changed; a file it wrote stays on the disk   *)
(* whatever becomes of its transaction.  One company and one meeting.      *)
(***************************************************************************)
EXTENDS Integers, Sequences, FiniteSets

CONSTANTS
    None,
    Codes,          \* template codes of the manifest
    MeetingTypes,
    PackTemplates,  \* [MeetingTypes -> Seq(Codes)]: PACK_TEMPLATES
    Directors,
    Requests,       \* requests (and syncs) in progress at a time
    LastVersion,    \* bound: [Codes -> version], the last one each template gets
    MaxFiles        \* bound: files ever written

PackOf(type) == {PackTemplates[type][i] : i \in DOMAIN PackTemplates[type]}

ASSUME DocumentsAssumption ==
    /\ PackTemplates \in [MeetingTypes -> Seq(Codes)]
    /\ LastVersion \in [Codes -> Nat \ {0}] /\ MaxFiles \in Nat

\* No entry of PACK_TEMPLATES names a template twice.
ASSUME PacksDistinct ==
    \A type \in MeetingTypes : \A i, j \in DOMAIN PackTemplates[type] :
        PackTemplates[type][i] = PackTemplates[type][j] => i = j

VARIABLES
    manifest,   \* [Codes -> version]: the deployed manifest.json, and the template
                \* files beside it, which a release replaces with it
    template,   \* [Codes -> the doc_template row, or None]
    director,   \* [Directors -> "absent" | "active" | "inactive"]: the register
    meeting,    \* the meeting row
    documents,  \* the generated_document rows
    files,      \* the files in storage_dir
    req,        \* what each request in progress has read and written
    reviewed,   \* history: <<code, version>> a professional read and stamped
    carried     \* history: <<code, version>> stamped by a stamp meant for another

rows == <<template, director, meeting, documents>>
history == <<reviewed, carried>>
vars == <<manifest, rows, files, req, history>>

Versions == UNION {1..LastVersion[c] : c \in Codes}
Stamps == Codes \X Versions
Files == 1..MaxFiles

\* stamped: validated_at is set.  No code ever clears is_active.
Template == [version: Versions, stamped: BOOLEAN]
ASSUME NoneIsNoTemplate == None \notin Template

Meeting == [type: MeetingTypes, participants: SUBSET Directors]
\* version: template_version; content: the version of the file it is made from.
Document == [code: Codes, version: Versions, content: Versions,
             attendees: SUBSET Directors, file: Files, pack: BOOLEAN]

Idle == [step |-> "idle"]
Request ==
         {Idle}
    \cup [step: {"sync"}, entries: [Codes -> Versions],
          loaded: [Codes -> Template \cup {None}]]
    \cup [step: {"validate"}, code: Codes, loaded: Template]
    \cup [step: {"generate"}, todo: Seq(Codes), pack: BOOLEAN,
          attendees: SUBSET Directors, pending: SUBSET Document]
    \cup [step: {"render"}, todo: Seq(Codes), pack: BOOLEAN, loaded: Template,
          attendees: SUBSET Directors, pending: SUBSET Document]

TypeOK ==
    /\ manifest \in [Codes -> Versions]
    /\ template \in [Codes -> Template \cup {None}]
    /\ director \in [Directors -> {"absent", "active", "inactive"}]
    /\ meeting \in Meeting
    /\ documents \in SUBSET Document
    /\ files \in SUBSET Files
    /\ req \in [Requests -> Request]
    /\ reviewed \in SUBSET Stamps /\ carried \in SUBSET Stamps

Init ==
    /\ manifest = [c \in Codes |-> 1]
    /\ template = [c \in Codes |-> None]
    /\ director = [d \in Directors |-> "absent"]
    /\ meeting \in Meeting /\ meeting.participants = {}
    /\ documents = {} /\ files = {}
    /\ req = [q \in Requests |-> Idle]
    /\ reviewed = {} /\ carried = {}

At(q, step) == req[q].step = step
Goes(q, r) == req' = [req EXCEPT ![q] = r]

-----------------------------------------------------------------------------
(* The registry: the deployed manifest, its sync, and the stamp.           *)

\* A release with a new version of template c.
Deploy(c) ==
    /\ manifest[c] < LastVersion[c]
    /\ manifest' = [manifest EXCEPT ![c] = @ + 1]
    /\ UNCHANGED <<rows, files, req, history>>

SyncRead(q) ==
    /\ At(q, "idle")
    /\ Goes(q, [step |-> "sync", entries |-> manifest, loaded |-> template])
    /\ UNCHANGED <<manifest, rows, files, history>>

NewTemplate(version) == [version |-> version, stamped |-> FALSE]

\* Mutant: a new version keeps the stamp of the old one.
SyncedStamped(stored, loaded, version) ==
    IF loaded = None THEN NewTemplate(version)
    ELSE IF loaded.version = version THEN stored
    ELSE [stored EXCEPT !.version = version]

(* The row of one entry after the sync.  A column that was NULL when the   *)
(* sync loaded it is not written when it is set to None again.             *)
Synced(stored, loaded, version) ==
    IF loaded = None THEN NewTemplate(version)
    ELSE IF loaded.version = version THEN stored
    ELSE [version |-> version, stamped |-> stored.stamped /\ ~loaded.stamped]

\* The code is UNIQUE: a sync whose insert meets a row fails as a whole.
SyncCommit(q) ==
    /\ At(q, "sync")
    /\ LET r == req[q] IN
           /\ \A c \in Codes : r.loaded[c] = None => template[c] = None
           /\ template' = [c \in Codes |-> Synced(template[c], r.loaded[c], r.entries[c])]
           /\ carried' = carried \cup
                  {<<c, r.entries[c]>> : c \in {d \in Codes :
                      /\ r.loaded[d] # None /\ r.loaded[d].version # r.entries[d]
                      /\ template[d].stamped /\ ~r.loaded[d].stamped}}
    /\ Goes(q, Idle)
    /\ UNCHANGED <<manifest, director, meeting, documents, files, reviewed>>

ValidateRead(q, c) ==
    /\ At(q, "idle") /\ template[c] # None
    /\ Goes(q, [step |-> "validate", code |-> c, loaded |-> template[c]])
    /\ UNCHANGED <<manifest, rows, files, history>>

\* The stamp columns are written on whatever version the row has by now.
ValidateCommit(q) ==
    /\ At(q, "validate")
    /\ LET c == req[q].code  was == req[q].loaded.version  is == template[c].version IN
           /\ template' = [template EXCEPT ![c].stamped = TRUE]
           /\ reviewed' = reviewed \cup {<<c, was>>}
           /\ carried' = IF is = was THEN carried ELSE carried \cup {<<c, is>>}
    /\ Goes(q, Idle)
    /\ UNCHANGED <<manifest, director, meeting, documents, files>>

-----------------------------------------------------------------------------
(* Masters and meetings.                                                   *)

\* create_director, update_director: is_active is the client's choice.
SaveDirector(d) ==
    /\ \E status \in {"active", "inactive"} \ {director[d]} :
           director' = [director EXCEPT ![d] = status]
    /\ UNCHANGED <<manifest, template, meeting, documents, files, req, history>>

\* update_meeting.
SaveMeeting ==
    /\ \E m \in Meeting : m # meeting /\ meeting' = m
    /\ UNCHANGED <<manifest, template, director, documents, files, req, history>>

Registered == {d \in Directors : director[d] # "absent"}
Active == {d \in Directors : director[d] = "active"}

\* participant_directors.
Participants ==
    IF meeting.participants = {} THEN Active ELSE Registered \cap meeting.participants

-----------------------------------------------------------------------------
(* Generation.  attendees is the override a pack computes once from its    *)
(* meeting; a single document takes the active directors of the moment.    *)

Generates(q, codes, pack, attendees) ==
    /\ At(q, "idle")
    /\ Goes(q, [step |-> "generate", todo |-> codes, pack |-> pack,
                attendees |-> attendees, pending |-> {}])
    /\ UNCHANGED <<manifest, rows, files, history>>

GenerateDocument(q, c) == Generates(q, <<c>>, FALSE, {})
GeneratePack(q) == Generates(q, PackTemplates[meeting.type], TRUE, Participants)

\* Mutant: only the first template of a pack is asked for its stamp.
UsableFirst(q) == LET c == Head(req[q].todo) IN
    template[c] # None /\ (template[c].stamped \/ req[q].pending # {})

Usable(q) == LET c == Head(req[q].todo) IN template[c] # None /\ template[c].stamped

SelectTemplate(q) ==
    /\ At(q, "generate") /\ req[q].todo # <<>>
    /\ Usable(q)
    /\ Goes(q, [step |-> "render", todo |-> req[q].todo, pack |-> req[q].pack,
                loaded |-> template[Head(req[q].todo)],
                attendees |-> req[q].attendees, pending |-> req[q].pending])
    /\ UNCHANGED <<manifest, rows, files, history>>

\* Mutant: the override is left out.
AttendeesActive(q) == Active

\* build_context, updated with the override.
Attendees(q) == IF req[q].pack THEN req[q].attendees ELSE Active

\* Mutant: a file name made of what the request knows, without the uuid.
NamedFiles(q) == {Cardinality(documents) + Cardinality(req[q].pending) + 1} \cap Files

\* The name of a file is a timestamp and a uuid: it is new.
FreshFiles(q) == {f \in Files : f \notin files /\ \A g \in Files : g < f => g \in files}

(* The context, the file, and the row, not yet committed.  The row names   *)
(* the version of the registry's row; what is rendered is the template     *)
(* file as it is on the disk, whose name is the same for every version.    *)
Render(q) ==
    /\ At(q, "render")
    /\ LET r == req[q] IN \E f \in FreshFiles(q) :
           /\ files' = files \cup {f}
           /\ Goes(q, [step |-> "generate", todo |-> Tail(r.todo), pack |-> r.pack,
                       attendees |-> r.attendees,
                       pending |-> r.pending \cup
                           {[code |-> Head(r.todo), version |-> r.loaded.version,
                             content |-> manifest[Head(r.todo)],
                             attendees |-> Attendees(q), file |-> f, pack |-> r.pack]}])
    /\ UNCHANGED <<manifest, rows, history>>

\* Mutant: each document is committed as soon as it is made.
FinishedEach(q) == req[q].pending # {}

Finished(q) == req[q].todo = <<>>

GenerateCommit(q) ==
    /\ At(q, "generate") /\ Finished(q)
    /\ documents' = documents \cup req[q].pending
    /\ Goes(q, IF req[q].todo = <<>> THEN Idle ELSE [req[q] EXCEPT !.pending = {}])
    /\ UNCHANGED <<manifest, template, director, meeting, files, history>>

(* A request ends without commit: TemplateNotUsable, MissingContext, an    *)
(* integrity error, or the process stops.                                  *)
Fail(q) ==
    /\ ~At(q, "idle")
    /\ Goes(q, Idle)
    /\ UNCHANGED <<manifest, rows, files, history>>

-----------------------------------------------------------------------------
RequestStep(q) ==
    \/ SyncRead(q) \/ SyncCommit(q)
    \/ \E c \in Codes : ValidateRead(q, c)
    \/ ValidateCommit(q)
    \/ \E c \in Codes : GenerateDocument(q, c)
    \/ GeneratePack(q)
    \/ SelectTemplate(q) \/ Render(q) \/ GenerateCommit(q) \/ Fail(q)

Next ==
    \/ \E c \in Codes : Deploy(c)
    \/ \E d \in Directors : SaveDirector(d)
    \/ SaveMeeting
    \/ \E q \in Requests : RequestStep(q)

Spec == Init /\ [][Next]_vars

-----------------------------------------------------------------------------
(* A document is rendered from the very file of a version that a           *)
(* professional had read and stamped, and a stamped row of the registry    *)
(* says so of its version.  There are two ways round it, and no third:     *)
(*   - a release replaced the file before the sync saw it, or between the  *)
(*     check of the stamp and the rendering: the file is newer than the    *)
(*     version the row names, though PRD_v2.md:124 says that a template    *)
(*     without a current stamp "cannot be used in production (enforced,    *)
(*     not advisory)";                                                     *)
(*   - a validation commits after a sync moved the row to the next version,*)
(*     or a stamp arrives while the sync holds the unstamped row; carried  *)
(*     collects what passed that way.                                      *)
VersionReviewed ==
    /\ \A d \in documents :
           \/ <<d.code, d.content>> \in reviewed \cup carried
           \/ d.version < d.content /\ <<d.code, d.version>> \in reviewed \cup carried
    /\ \A c \in Codes : template[c] # None /\ template[c].stamped =>
           <<c, template[c].version>> \in reviewed \cup carried

(* Every row of the library has a file of its own in the storage, however  *)
(* many requests wrote files at a time or died after writing one.          *)
OwnFile ==
    /\ \A d \in documents : d.file \in files
    /\ \A d, e \in documents : d.file = e.file => d = e

(* Rows appear only by the commit of a request, and a pack appears whole:  *)
(* one document of each of its templates, all of them naming the same      *)
(* attendees although the register may change between two of them.         *)
PackWhole ==
    [][documents' # documents =>
          LET new == documents' \ documents IN
              /\ documents \subseteq documents'
              /\ Cardinality(new) = Cardinality({d.code : d \in new})
              /\ \A d, e \in new : d.attendees = e.attendees
              /\ \/ Cardinality(new) = 1 /\ \A d \in new : ~d.pack
                 \/ \E type \in MeetingTypes : {d.code : d \in new} = PackOf(type)
      ]_vars
=============================================================================
