------------------------------ MODULE MCViews ------------------------------
(***************************************************************************)
(* Two checkouts, of one tree or of two, with builds and tests of several  *)
(* statuses and places, and two incidents, arriving in any order.          *)
(***************************************************************************)
EXTENDS HardwareDetails, TLC

Place == <<"name", "url">>
Elsewhere == <<"name", "other">>
Checkout(hash, tag, start) ==
  [tree |-> Place, origin |-> "o", hash |-> hash, tag |-> tag, start |-> start, stamp |-> start]
Build(c, status) ==
  [checkout |-> c, status |-> status, origin |-> "o", duration |-> 29, config |-> "defconfig",
   lab |-> Unknown, platform |-> Unknown, dummy |-> FALSE, start |-> 2]
Test(b, status, path) ==
  [build |-> b, status |-> status, origin |-> "o", duration |-> 30, path |-> path, lab |-> "lab",
   compatible |-> <<"board">>, platform |-> Unknown, misc |-> TRUE, start |-> 3]
Incident(issue, t, b) == [issue |-> issue, test |-> t, build |-> b]

MCTableOf ==
  ("c1" :> "checkouts") @@ ("c2" :> "checkouts") @@ ("b1" :> "builds") @@ ("b2" :> "builds")
  @@ ("t1" :> "tests") @@ ("t2" :> "tests") @@ ("i1" :> "incidents") @@ ("i2" :> "incidents")

I == <<"i", 1>>
J == <<"i", 2>>

Builds1 ==
  {Build("c1", "FAIL"), [Build("c1", Null) EXCEPT !.duration = NoDuration]}
Builds2 ==
  {[Build("c2", "PASS") EXCEPT !.platform = "board", !.config = "tiny"],
   [Build("c1", "FAIL") EXCEPT !.dummy = TRUE]}
Tests1 ==
  {Test("b1", "FAIL", "boot"), [Test("b1", "PASS", None) EXCEPT !.platform = "board"],
   [Test("b1", Null, "kselftest") EXCEPT !.compatible = <<>>, !.duration = NoDuration]}
Tests2 ==
  {[Test("b2", "FAIL", "bootrr") EXCEPT !.platform = "board", !.compatible = <<>>],
   [Test("b2", "FAIL", "kselftest") EXCEPT !.duration = 95, !.lab = Unknown, !.platform = "board"]}

Holds(rows, versions) == [rows |-> rows, issues |-> versions]

FirstFlush == {Holds(("c1" :> Checkout("h1", "v1", 2)) @@ ("b1" :> b) @@ ("t1" :> t), {}) :
            b \in Builds1, t \in Tests1}
SecondFlush == {Holds(("c2" :> c) @@ ("b2" :> b) @@ ("t2" :> t), {}) :
             c \in {Checkout("h1", "v1", 3), Checkout("h0", "v0", 1),
                    [Checkout("h2", "v2", 1) EXCEPT !.tree = Elsewhere]}, b \in Builds2, t \in Tests2}

(* What only the pages of a hardware tell apart: trees and origins at one  *)
(* hash, tests without environment_misc, and two tests of a build.         *)
OneFlush == {Holds(("c1" :> Checkout("h1", "v1", 2)) @@ ("b1" :> Build("c1", "FAIL")) @@ ("t1" :> t)
                 @@ ("c2" :> c) @@ ("b2" :> b) @@ ("t2" :> u), {}) :
             t \in {Test("b1", "FAIL", "boot"),
                    [Test("b1", Null, "kselftest") EXCEPT !.misc = FALSE, !.duration = NoDuration]},
             c \in {[Checkout("h1", "v1", 1) EXCEPT !.tree = Elsewhere],
                    [Checkout("h1", "v1", 3) EXCEPT !.origin = "p"]},
             b \in Builds2, u \in Tests2}

MCBatches ==
  ("first" :> FirstFlush) @@ ("second" :> SecondFlush) @@ ("all" :> OneFlush) @@
  ("blame" :> {Holds("i1" :> Incident(I, "t1", None), {I}), Holds("i1" :> Incident(I, None, "b1"), {I})}) @@
  ("again" :> {Holds("i2" :> Incident(J, "t1", None), {J})})

MCRequests ==
  {[commit |-> "h1", by |-> "url", tree |-> "url", origin |-> "o"],
   [commit |-> "v1", by |-> "name", tree |-> "name", origin |-> "o"]}

P(field, kind, value) == [field |-> field, kind |-> kind, value |-> value]
MCFilterSets ==
  {{}, {P("status", "test", "FAIL")}, {P("status", "boot", "PASS"), P("status", "build", "FAIL")},
   {P("issues", "test", I), P("issues", "boot", I), P("issues", "build", I)},
   {P("hardware", "all", "board")}, {P("lab", "all", "lab")}, {P("config", "all", "defconfig")},
   {P("min", "test", 5), P("min", "boot", 5), P("max", "test", 9)}, {P("max", "build", 2)}, {P("path", "test", {"bootrr"})},
   {P("min", "boot", 5)}}

MCOrder == (<<Place, "h0">> :> 1) @@ (<<Place, "h1">> :> 2) @@ (<<Elsewhere, "h1">> :> 3)
           @@ (<<Elsewhere, "h2">> :> 4)

MCHardwareRequests ==
  {[hardware |-> "board", origin |-> "o", from |-> 1, to |-> 4, selected |-> selected] :
     selected \in {<<>>, 0 :> AtHead, 0 :> "h0"}}
=============================================================================
