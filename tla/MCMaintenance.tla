--------------------------- MODULE MCMaintenance ---------------------------
(***************************************************************************)
(* Small instances of the maintenance commands: values for the constants.  *)
(***************************************************************************)
EXTENDS Maintenance, TLC

(* The rollup: a test in each of two checkouts, one of them stale.         *)
MCRollupCheckoutOf == (1 :> "c") @@ (2 :> "d")
MCRollupCommitOf == ("c" :> "m") @@ ("d" :> "n")

(* The cleanup: two tests of the older of two checkouts of one tree.       *)
MCHwCheckoutOf == (1 :> "old") @@ (2 :> "old")
MCHwTreeOf == ("old" :> "r") @@ ("new" :> "r")
MCStartTime == ("old" :> 1) @@ ("new" :> 2)

(* The pruning: two builds of one checkout, of two origins, one tested.    *)
MCParent == ("b1" :> "k") @@ ("b2" :> "k") @@ ("t" :> "b1")
MCOriginOf == ("k" :> "x") @@ ("b1" :> "x") @@ ("b2" :> "y") @@ ("t" :> "x")
MCTableChoices ==
    {{"checkouts", "builds", "tests"}, {"builds", "tests"}, {"checkouts", "tests"}, {"tests"}}

(* The copy: a row of each table that is outside the interval or refers to *)
(* rows that may be missing, and the parents the target has already.       *)
MCTableOfRow ==
    ("i" :> "issues") @@ ("c1" :> "checkouts") @@ ("c2" :> "checkouts") @@
    ("b1" :> "builds") @@ ("b2" :> "builds") @@ ("t1" :> "tests") @@ ("t2" :> "tests") @@
    ("n" :> "incidents") @@ ("l" :> "latest_checkout") @@ ("h" :> "hardware_status") @@
    ("g" :> "tree_listing") @@ ("r" :> "tree_tests_rollup")
MCRefers ==
    ("b1" :> {"c1"}) @@ ("b2" :> {"c2"}) @@ ("t1" :> {"b1"}) @@ ("t2" :> {"b2"}) @@
    ("n" :> {"i", "t2"}) @@ ("l" :> {"c2"}) @@ ("h" :> {"c2"}) @@ ("g" :> {"c2"}) @@
    ("r" :> {"c2"}) @@ [x \in UpdRows |-> {}]
MCBefore == {UpdRows, UpdRows \ {"c2"}, UpdRows \ {"b2"}, UpdRows \ {"c2", "b2", "t2"},
             UpdRows \ {"n", "i"}}
=============================================================================
