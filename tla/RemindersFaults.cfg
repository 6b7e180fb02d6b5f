CONSTANTS
    None = None
    row = row  lone = lone  token = token
    Subjects = {row, lone}
    Tokens = {}
    Days = {0, 1}
    Profiles <- RowProfiles
    MAX_ATTEMPTS = 2
    MaxTries = 3
    MaxJobs = 1
    MaxDispatches = 2
    Requests = {r1, r2}
    MaxFaults = 1
SYMMETRY RequestSymmetry
SPECIFICATION Spec
INVARIANTS OneDispatchPerSendDay BudgetRespected SentWasMailed MailedOnce
