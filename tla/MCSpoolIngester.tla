-------------------------- MODULE MCSpoolIngester --------------------------
(***************************************************************************)
(* Instances of SpoolIngester for TLC.                                     *)
(***************************************************************************)
EXTENDS SpoolIngester, TLC

CONSTANTS pair, build, bad, broken, nothing, void,   \* files
          pairBuild, pairTest, buildBuild,      \* items
          w1, w2

\* pair carries a build and a test, build only a build: with a FlushSize of 2
\* the two builds are flushed together and the test is left in its buffer.
MCFileOf == [i \in Items |->
                 IF i = buildBuild THEN build ELSE pair]
MCTableOf == [i \in Items |->
                 IF i = pairTest THEN "tests" ELSE "builds"]

WorkersAlike == Permutations({w1, w2})

=============================================================================
