CONSTANTS
    b1 = b1  q1 = q1  q2 = q2  e1 = e1  e2 = e2
    Emails = {e1, e2}
    Browsers = {b1}
    Requests = {q1, q2}
    MaxUsers = 3
    MaxInvitations = 1
    MaxTokens = 3
    MaxSecrets = 2
    MaxMade = 3
SPECIFICATION Spec
SYMMETRY Symmetric
INVARIANTS OneTokenPerSession OneUserPerInvitation EnabledWasProved
PROPERTY EndedStaysEnded
