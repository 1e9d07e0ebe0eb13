\* Batches of one file over two workers, any two faults, no early flush.
SPECIFICATION Spec

CONSTANTS
    pair = pair
    build = build
    bad = bad
    broken = broken
    nothing = nothing
    void = void
    pairBuild = pairBuild
    pairTest = pairTest
    buildBuild = buildBuild
    w1 = w1
    w2 = w2
    Files = {pair, build, broken, void}
    Items = {pairBuild, pairTest, buildBuild}
    FileOf <- MCFileOf
    TableOf <- MCTableOf
    Empty = {void}
    Invalid = {broken}
    Malformed = {broken}
    Workers = {w1, w2}
    CycleSize = 3
    FilesBatch = 1
    FlushSize = 4
    QueueMax = 5
    FaultKinds = {"scan", "stat", "vanish", "rename", "db", "exception", "container", "signal"}
    MaxFaults = 2

SYMMETRY WorkersAlike
INVARIANTS
    TypeOK
    OneHolder
    PillsReachEveryWorker
    ArchivedIsSafe
    WholeSubmissions
