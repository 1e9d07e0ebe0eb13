------------------------ MODULE MCPendingAggregation ------------------------
(***************************************************************************)
(* Small instances of PendingAggregation: values for its constants.        *)
(* Ids 1..9 are tests, ids from 11 on are builds.                          *)
(***************************************************************************)
EXTENDS PendingAggregation, TLC

Report(statuses) == statuses @@ [i \in Items |-> NoRow]

On(p, boot) == [boot |-> boot, platform |-> p]
Say(ts) == ts @@ [t \in Tests |-> NoDetail]

(* One tree.  Two tests of one build on one platform.  The first file has  *)
(* no status yet, no platform for the first test and no path for the       *)
(* second; the others bring the statuses, the platform, and a boot.        *)
OneBuildOf == (1 :> 11) @@ (2 :> 11)
OneCheckoutOf == (11 :> "c")
OneTreeRowOf == ("c" :> "r")
CorrectionCheckouts == ("f1" :> {"c"}) @@ ("f2" :> {}) @@ ("f3" :> {})
CorrectionReported ==
    ("f1" :> Report((1 :> Null) @@ (2 :> Null) @@ (11 :> Null))) @@
    ("f2" :> Report((1 :> "FAIL") @@ (11 :> "PASS"))) @@
    ("f3" :> Report(2 :> "PASS"))
CorrectionDetails ==
    ("f1" :> Say(2 :> On("p", FALSE))) @@
    ("f2" :> Say(1 :> On("p", FALSE))) @@
    ("f3" :> Say(2 :> On("p", TRUE)))

(* The build's status arrives alone, after the results of its tests.       *)
LateBuildCheckouts == ("f1" :> {"c"}) @@ ("f2" :> {})
LateBuildReported ==
    ("f1" :> Report((1 :> "PASS") @@ (2 :> "FAIL") @@ (11 :> Null))) @@
    ("f2" :> Report(11 :> "PASS"))
LateBuildDetails ==
    ("f1" :> Say((1 :> On("p", FALSE)) @@ (2 :> On("p", TRUE)))) @@
    ("f2" :> Say(1 :> NoDetail))

(* Two checkouts of one commit, so of one tree_listing row.  Build 12 is a *)
(* dummy; test 3 has no platform, and its build arrives late; test 1 is    *)
(* reported on a second platform.                                          *)
TwoBuildOf == (1 :> 11) @@ (2 :> 12) @@ (3 :> 11)
TwoCheckoutOf == (11 :> "c") @@ (12 :> "d")
TwoTreeRowOf == ("c" :> "r") @@ ("d" :> "r")
PagesCheckouts == ("f1" :> {"d"}) @@ ("f2" :> {"c"}) @@ ("f3" :> {})
PagesReported ==
    ("f1" :> Report((1 :> Null) @@ (2 :> "FAIL") @@ (12 :> "PASS"))) @@
    ("f2" :> Report((3 :> "PASS") @@ (11 :> "FAIL"))) @@
    ("f3" :> Report(1 :> "INC"))
PagesDetails ==
    ("f1" :> Say((1 :> On("p", FALSE)) @@ (2 :> On("p", FALSE)))) @@
    ("f2" :> Say(3 :> NoDetail)) @@
    ("f3" :> Say(1 :> On("q", TRUE)))
=============================================================================
