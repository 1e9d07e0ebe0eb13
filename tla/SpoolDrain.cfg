\* Liveness with any one fault, an early flush and a list with a tail.
SPECIFICATION FairSpec

CONSTANTS
    pair = pair
    build = build
    bad = bad
    broken = broken
    nothing = nothing
    void = void
    pairBuild = pairBuild
    pairTest = pairTest
    buildBuild = buildBuild
    w1 = w1
    w2 = w2
    Files = {pair, build, bad, broken}
    Items = {pairBuild, pairTest, buildBuild}
    FileOf <- MCFileOf
    TableOf <- MCTableOf
    Empty = {}
    Invalid = {bad, broken}
    Malformed = {broken}
    Workers = {w1, w2}
    CycleSize = 4
    FilesBatch = 2
    FlushSize = 2
    QueueMax = 4
    FaultKinds = {"scan", "stat", "vanish", "rename", "db", "exception", "container", "signal"}
    MaxFaults = 1

PROPERTIES
    CyclesEnd
    SpoolDrains
