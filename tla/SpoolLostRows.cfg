\* As SpoolPartial, and a worker or a transaction may fail.
SPECIFICATION Spec

CONSTANTS
    pair = pair
    build = build
    bad = bad
    broken = broken
    nothing = nothing
    void = void
    pairBuild = pairBuild
    pairTest = pairTest
    buildBuild = buildBuild
    w1 = w1
    w2 = w2
    Files = {pair, build}
    Items = {pairBuild, pairTest, buildBuild}
    FileOf <- MCFileOf
    TableOf <- MCTableOf
    Empty = {}
    Invalid = {}
    Malformed = {}
    Workers = {w1, w2}
    CycleSize = 2
    FilesBatch = 2
    FlushSize = 2
    QueueMax = 4
    FaultKinds = {"db", "exception", "container"}
    MaxFaults = 1

INVARIANTS
    ArchivedIsSafe
