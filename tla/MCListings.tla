----------------------------- MODULE MCListings -----------------------------
(***************************************************************************)
(* Two checkouts, of one commit or of two, one build and test of each or   *)
(* both of the first, some without a status for now, on one platform.      *)
(***************************************************************************)
EXTENDS Listings, MCViews

OnBoard(b, status, path) == [Test(b, status, path) EXCEPT !.platform = "board"]

MCListingBatches ==
  ("first" :> {Holds(("c1" :> Checkout("h1", "v1", 2)) @@ ("b1" :> b) @@ ("t1" :> t), {}) :
                 b \in {Build("c1", Null), [Build("c1", "PASS") EXCEPT !.dummy = TRUE]},
                 t \in {OnBoard("b1", "FAIL", "boot"), OnBoard("b1", "PASS", None)}}) @@
  ("second" :> {Holds(("c2" :> c) @@ ("b2" :> Build("c2", "FAIL")) @@ ("t2" :> t), {}) :
                  c \in {Checkout("h1", "v1", 3), Checkout("h0", "v0", 1), Checkout("h2", "v2", 4)},
                  t \in {OnBoard("b1", Null, "kselftest"),
                         [OnBoard("b2", "FAIL", "boot") EXCEPT !.lab = Unknown, !.compatible = <<>>]}})

MCMailKeys == {[hardware |-> "board", origin |-> "o", labs |-> {"lab"}, from |-> 1, to |-> 4]}
MCMailWindows == {[from |-> 1, to |-> 3], [from |-> 2, to |-> 4]}
=============================================================================
