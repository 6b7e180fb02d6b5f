CONSTANTS
    None = None
    c1 = c1  c2 = c2  q1 = q1  q2 = q2
    Cins = {c1, c2}
    Names <- MCNames
    Typed = {c1}
    Files <- MCFiles
    Requests = {q1, q2}
SPECIFICATION FairSpec
INVARIANTS OneLive WholeFiles
PROPERTY RequestsEnd
