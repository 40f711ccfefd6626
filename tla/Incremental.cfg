SPECIFICATION FairSpec
CONSTANTS
    Keys = {model, repo}
    Repos = {repo}
    Hooked = {}
    DedupEnabled = FALSE
    TornCopies = FALSE
    MaxVersion = 2
    MaxFaults = 3
    MaxHookFaults = 0
    NoBackup = NoBackup
    NoRun = NoRun
    NoHook = NoHook
    Damaged = Damaged
INVARIANTS
    NothingSkipped
PROPERTIES
    ChangedUnderBackup
    EverythingDelivered
