CONSTANTS
    Channels = 3
    Capacity = 2
    Pages = 4
    NoPage = NoPage
    Feeder = Feeder
    MaxCommits = 4
    MaxInVain = 1
    Failing = {2}
    PRs = {"p"}
SPECIFICATION MCSpec
CHECK_DEADLOCK FALSE
INVARIANTS
    QuietAfterReturn
    OkMeansExported
    CommitsTrue
    BranchTrue
PROPERTIES
    PullRequestsReturn
    PullRequestsSent
