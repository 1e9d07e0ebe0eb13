\* Pages of one row over two checkouts of one tree row, with a dummy build,
\* a test without platform and a build that arrives after its test.
SPECIFICATION FairSpec
CONSTANTS
    Tests = {1, 2, 3}
    Builds = {11, 12}
    Checkouts = {"c", "d"}
    TreeRows = {"r"}
    Platforms = {"p", "q"}
    NoPlatform = "none"
    BuildOf <- TwoBuildOf
    CheckoutOf <- TwoCheckoutOf
    TreeRowOf <- TwoTreeRowOf
    DummyBuilds = {12}
    Flushes = {"f1", "f2", "f3"}
    CheckoutsIn <- PagesCheckouts
    Reported <- PagesReported
    DetailIn <- PagesDetails
    BatchSize = 1
    MaxRetries = 1
    MaxFaults = 1
    MaxReplays = 0
INVARIANTS
    TypeOK
    NothingForgotten
PROPERTIES
    PendingDrains
