\* A report that was sent is sent again before the resend interval is over.
SPECIFICATION NotificationSpec

CONSTANTS
    Reports = {"a", "b", "c"}
    TreeKeys = {"k1", "k2"}
    KeyOf <- MCKeyOf
    BranchOf <- MCBranchOf
    Pathed = {"b"}
    ResendAfter = 1
    IntervalMin = 0
    IntervalMax = 2
    MaxNow = 2
    MaxSummaries = 2
    MaxPushes = 2
    IssueIds = {"i"}
    Maestro = {"i"}
    MaxVersion = 2
    MaxHour = 2
    MaxIncidents = 2
    MaxMishaps = 1
    MaxCommands = 3

INVARIANT ResendWaits

CHECK_DEADLOCK FALSE
