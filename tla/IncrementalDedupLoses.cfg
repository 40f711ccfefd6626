SPECIFICATION FairSpec
CONSTANTS
    Keys = {model, repo}
    Repos = {repo}
    Hooked = {}
    DedupEnabled = TRUE
    TornCopies = FALSE
    MaxVersion = 2
    MaxFaults = 1
    MaxHookFaults = 0
    NoBackup = NoBackup
    NoRun = NoRun
    NoHook = NoHook
    Damaged = Damaged
PROPERTIES
    EverythingDelivered
