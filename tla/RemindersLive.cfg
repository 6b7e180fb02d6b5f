CONSTANTS
    None = None
    row = row  lone = lone  token = token
    Subjects = {token}
    Tokens = {token}
    Days = {0, 1}
    Profiles <- TokenProfiles
    MAX_ATTEMPTS = 4
    MaxTries = 10
    MaxJobs = 1
    MaxDispatches = 1
    Requests = {r1}
    MaxFaults = 2
SPECIFICATION FairSpec
PROPERTIES CatchUp QueuedAttempted FailedRetried
