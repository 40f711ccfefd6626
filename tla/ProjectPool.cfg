SPECIFICATION FairSpec
CONSTANTS
    Projects = {p1, p2, p3}
    Workers = {w1, w2}
    Models = {m1, m2}
    Inner = {m2}
    m1 = m1
    m2 = m2
    Objects <- MCObjects
    MaxBatch = 2
    ReturnEarlyAfter = 1
    MaxFaults = 1
    NoProject = NoProject
INVARIANTS
    CheckpointedIsUploaded
    Settled
    LeftOutForAReason
PROPERTIES
    RunReturns
