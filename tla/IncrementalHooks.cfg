SPECIFICATION FairSpec
CONSTANTS
    Keys = {model, repo}
    Repos = {repo}
    Hooked = {repo}
    DedupEnabled = FALSE
    TornCopies = FALSE
    MaxVersion = 2
    MaxFaults = 0
    MaxHookFaults = 1
    NoBackup = NoBackup
    NoRun = NoRun
    NoHook = NoHook
    Damaged = Damaged
PROPERTIES
    OthersDelivered
