\* Two tests of a build in the batch that brings the build's status.
SPECIFICATION Spec
CONSTANTS
    Tests = {1, 2}
    Builds = {11}
    Checkouts = {"c"}
    TreeRows = {"r"}
    Platforms = {"p"}
    NoPlatform = "none"
    BuildOf <- OneBuildOf
    CheckoutOf <- OneCheckoutOf
    TreeRowOf <- OneTreeRowOf
    DummyBuilds = {}
    Flushes = {"f1", "f2", "f3"}
    CheckoutsIn <- CorrectionCheckouts
    Reported <- CorrectionReported
    DetailIn <- CorrectionDetails
    BatchSize = 2
    MaxRetries = 2
    MaxFaults = 0
    MaxReplays = 0
INVARIANT HwBuildDecrementsMatched
