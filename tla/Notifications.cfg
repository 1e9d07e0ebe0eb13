\* The reports of trees and of issues, and what is noted of them.
SPECIFICATION NotificationSpec

CONSTANTS
    Reports = {"a", "b", "c"}
    TreeKeys = {"k1", "k2"}
    KeyOf <- MCKeyOf
    BranchOf <- MCBranchOf
    Pathed = {"b"}
    ResendAfter = 1
    IntervalMin = 0
    IntervalMax = 2
    MaxNow = 2
    MaxSummaries = 2
    MaxPushes = 2
    IssueIds = {"i"}
    Maestro = {"i"}
    MaxVersion = 2
    MaxHour = 2
    MaxIncidents = 2
    MaxMishaps = 1
    MaxCommands = 3

INVARIANTS
    NotMailedAgain
    ListedOnce
    MarkedHasId

CHECK_DEADLOCK FALSE
