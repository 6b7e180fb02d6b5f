CONSTANTS
    None = None
    board = board  notice = notice  minutes = minutes  d1 = d1  q1 = q1  q2 = q2
    Codes = {notice, minutes}
    MeetingTypes = {board}
    PackTemplates <- Packs
    Directors = {d1}
    Requests = {q1, q2}
    LastVersion <- NoticeChanges
    MaxFiles = 2
SPECIFICATION Spec
SYMMETRY Symmetric
INVARIANTS VersionReviewed OwnFile
PROPERTY PackWhole
