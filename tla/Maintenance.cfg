\* Each maintenance command by itself, beside the ingester and the aggregator.
SPECIFICATION MaintenanceSpec

CONSTANTS
    RollupTests = {1, 2}
    RollupCheckouts = {"c", "d"}
    RollupCommits = {"m", "n"}
    RollupCheckoutOf <- MCRollupCheckoutOf
    RollupCommitOf <- MCRollupCommitOf
    RollupStale = {"c"}
    Places = {"board"}
    NoPlace = "unknown"
    RollupIssues = {"issue"}
    Given = {"FAIL", "NULL"}
    MaxInputs = 3
    HwTests = {1, 2}
    HwCheckouts = {"old", "new"}
    HwTrees = {"r"}
    HwCheckoutOf <- MCHwCheckoutOf
    HwTreeOf <- MCHwTreeOf
    StartTime <- MCStartTime
    RecentTests = {1, 2}
    RecentCheckouts = {"old", "new"}
    HwGiven = {"PASS", "NULL"}
    CleanBatch = 1
    MaxCleanups = 2
    MaxStops = 1
    PruneCheckouts = {"k"}
    PruneBuilds = {"b1", "b2"}
    PruneTests = {"t"}
    Parent <- MCParent
    OriginOf <- MCOriginOf
    Runs = {"run"}
    TableChoices <- MCTableChoices
    PruneBatch = 1
    MaxRuns = 1
    MaxNews = 1
    UpdRows = {"i", "c1", "c2", "b1", "b2", "t1", "t2", "n", "l", "h", "g", "r"}
    TableOfRow <- MCTableOfRow
    Refers <- MCRefers
    InInterval = {"i", "c2", "b1", "b2", "t1", "t2", "n"}
    StartsIn = {"c2", "l", "h", "g"}
    FromOrigins = {"i", "c2", "b2", "t2", "n", "l", "h", "g", "r"}
    NullText = {"t1", "n", "r"}
    Before <- MCBefore
    TargetHas = {"c1", "b1", "t1"}
    MaxArrivals = 2
    MaxCrashes = 1

INVARIANTS
    MaintenanceTypeOK
    CommitSumsExact
    RecordedIsSummed
    RowsMatchItems
    ProtectedStay
    NoOrphans
    ReferencesKept
    RestoreAddsOnly

CHECK_DEADLOCK FALSE
