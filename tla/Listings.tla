------------------------------ MODULE Listings ------------------------------
(***************************************************************************)
(* The pages that list trees and hardware, and the mails that tell the     *)
(* same.  The pages read the tables the aggregator fills (tree_listing,    *)
(* hardware_status), the mails and the page of one revision count the      *)
(* tests and builds themselves.                                            *)
(*                                                                         *)
(* An item is counted once, in each table, by a transaction of its own,    *)
(* under the kind and the status it has then; its status may come later.   *)
(* What the aggregator does about that, and gets wrong, is the subject of  *)
(* PendingAggregation: here a count is left as it was made, and nothing is *)
(* said of a row while an item of it was counted as something else than it *)
(* is now.                                                                 *)
(***************************************************************************)
EXTENDS HardwareDetails

CONSTANTS
  MailKeys,     \* [hardware, origin, labs, from, to]: what the hardware mails are about
  MailWindows,  \* [from, to]: the starts from 29 to 5 hours before a mail
  LateStatuses  \* the statuses that may come for an item that had none

ASSUME LateStatusesAssumption == LateStatuses \subseteq Statuses

VARIABLES
  inTree,      \* item counted in tree_listing: the kind and status it was counted as
  onHardware   \* origin, platform and item counted in hardware_status: the same

listingsVars == <<row, issues, rolled, inTree, onHardware>>

Outcome(status) == IF status \in {"PASS", "FAIL"} THEN status ELSE "INCONCLUSIVE"
Outcomes == {"PASS", "FAIL", "INCONCLUSIVE"}
Platform(t) == row[t].platform

(* What the aggregator counts: the tests, and the builds but dummy ones.   *)
Items == In("tests") \cup {b \in In("builds") : ~row[b].dummy}
CheckoutOfItem(x) == IF TableOf[x] = "builds" THEN row[x].checkout ELSE CheckoutOf(x)
Now(x) == [kind |-> IF TableOf[x] = "builds" THEN "build" ELSE KindOf(x), status |-> Status(x)]

-----------------------------------------------------------------------------
ListingsInit == TablesInit /\ inTree = <<>> /\ onHardware = <<>>

(* The item is submitted again, with a status: COALESCE fills in a NULL.   *)
Complete(x) ==
  /\ row[x].status = Null
  /\ \E status \in LateStatuses : row' = [row EXCEPT ![x].status = status]
  /\ UNCHANGED <<issues, rolled, inTree, onHardware>>

(* is_boot is false of a test that was first submitted without its path,   *)
(* and stays so when the path comes.                                       *)
CountableAs(x) ==
  {Now(x)} \cup (IF TableOf[x] = "tests" THEN {[Now(x) EXCEPT !.kind = "test"]} ELSE {})

CountInTree(x) ==
  /\ x \notin DOMAIN inTree
  /\ \E as \in CountableAs(x) :
       inTree' = [y \in DOMAIN inTree \cup {x} |-> IF y \in DOMAIN inTree THEN inTree[y] ELSE as]
  /\ UNCHANGED <<row, issues, rolled, onHardware>>

(* A build is counted with the first of its tests of an origin on a        *)
(* platform.                                                               *)
HardwareKey(t, x) == <<row[t].origin, Platform(t), x>>
BuildKeysWithDummies(t) == {HardwareKey(t, row[t].build)}
BuildKeys(t) == IF row[row[t].build].dummy THEN {} ELSE {HardwareKey(t, row[t].build)}

CountOnHardware(t) ==
  LET key == HardwareKey(t, t) IN
  /\ Platform(t) # Unknown /\ key \notin DOMAIN onHardware
  /\ \E as \in CountableAs(t) :
       onHardware' = [k \in DOMAIN onHardware \cup {key} \cup BuildKeys(t) |->
                        IF k \in DOMAIN onHardware THEN onHardware[k]
                        ELSE IF k = key THEN as ELSE Now(k[3])]
  /\ UNCHANGED <<row, issues, rolled, inTree>>

ListingsNext ==
  \/ \E batch \in DOMAIN Batches : Flush(batch) /\ UNCHANGED <<inTree, onHardware>>
  \/ \E x \in In("tests") \cup In("builds") : Complete(x)
  \/ \E x \in Items : CountInTree(x)
  \/ \E t \in In("tests") : CountOnHardware(t)

ListingsSpec == ListingsInit /\ [][ListingsNext]_listingsVars

LatestOf(S) == {c \in S : \A d \in S : row[d].start <= row[c].start}

-----------------------------------------------------------------------------
(* The tree listing: the last checkout of each tree, with the counters of  *)
(* its commit, which all checkouts of the commit add to.  The interval of  *)
(* the page leaves out whole trees.                                        *)
ListedTrees(origin) ==
  UNION {LatestOf({d \in In("checkouts") : row[d].origin = origin /\ row[d].tree = tree}) :
           tree \in {row[c].tree : c \in In("checkouts")}}

OfCommit(c) == {x \in Items : TreeKey(CheckoutOfItem(x)) = TreeKey(c)}

(* The counters of one checkout only. *)
TreeCountsOfCheckout(c, kind, outcome) ==
  {x \in DOMAIN inTree : /\ CheckoutOfItem(x) = c /\ inTree[x].kind = kind
                         /\ Outcome(inTree[x].status) = outcome}

TreeCounts(c, kind, outcome) ==
  {x \in DOMAIN inTree : /\ TreeKey(CheckoutOfItem(x)) = TreeKey(c) /\ inTree[x].kind = kind
                         /\ Outcome(inTree[x].status) = outcome}

(* The tree mail: the commit of the last checkout of a url and branch,     *)
(* whatever its name and origin are, among the pairs asked for and those   *)
(* that started in the window; then the commit's checkouts of any time.    *)
MailedTrees(pairs, window) ==
  LET asked == {c \in In("checkouts") : /\ <<row[c].tree[2], row[c].origin>> \in pairs
                                        /\ row[c].start \in window.from .. window.to}
      first == UNION {LatestOf({d \in asked : row[d].tree[2] = p[1]}) : p \in pairs}
  IN  {c \in In("checkouts") : \E d \in first : TreeKey(c) = TreeKey(d)}

(* The rows of the mail, one per pair of finish times, taken together.     *)
MailedCounts(heads, kind, status) ==
  IF kind = "build"
  THEN {b \in UNION {BuildsOf(c) : c \in heads} : ~row[b].dummy /\ Status(b) = status}
  ELSE {t \in UNION {TestsOf(b) : b \in UNION {BuildsOf(c) : c \in heads}} :
          row[t].path # None /\ KindOf(t) = kind /\ Status(t) = status}

-----------------------------------------------------------------------------
(* The hardware listing: hardware_status holds a row per origin, platform  *)
(* and checkout.                                                           *)
CommitCheckouts(req, commits) ==
  {c \in In("checkouts") : InPeriod(req, c) /\ \E commit \in commits : commit \in {row[c].hash, row[c].tag}}

StatusTable(req, commits, platform) ==
  {k \in DOMAIN onHardware : /\ k[1] = req.origin /\ k[2] = platform
                             /\ CheckoutOfItem(k[3]) \in CommitCheckouts(req, commits)}

StatusCounts(req, commits, platform, kind, outcome) ==
  {k[3] : k \in {l \in StatusTable(req, commits, platform) :
                   onHardware[l].kind = kind /\ Outcome(onHardware[l].status) = outcome}}

(* The page of a revision: groups of a platform and a list of compatibles. *)
RevisionTests(req, c, platform) ==
  {t \in In("tests") : /\ CommitOf(CheckoutOf(t)) = CommitOf(c)
                       /\ row[t].origin = req.origin
                       /\ Platform(t) = platform /\ platform # Unknown}

RevisionCounts(tests, kind, status) ==
  IF kind = "build"
  THEN {<<row[t].build, row[t].compatible>> :
          t \in {u \in tests : ~row[row[u].build].dummy /\ Status(row[u].build) = status}}
  ELSE {t \in tests : row[t].path # None /\ KindOf(t) = kind /\ Status(t) = status}

-----------------------------------------------------------------------------
(* The hardware mails, all keys in one pair of queries.                    *)
Wanted(keys) ==
  {t \in In("tests") : \E key \in keys : RanOn(key, t) /\ InPeriod(key, t) /\ row[t].lab \in key.labs}

(* get_hardware_listing_data_bulk, in no order: the mail takes the first   *)
(* group of its platform and origin.                                       *)
BulkGroups(keys) ==
  {[platform |-> Platform(t), hardware |-> row[t].compatible, origin |-> row[t].origin] :
     t \in {u \in Wanted(keys) : Platform(u) # Unknown}}

GroupsFor(keys, key) == {g \in BulkGroups(keys) : g.platform = key.hardware /\ g.origin = key.origin}

GroupCounts(keys, g, kind, status) ==
  RevisionCounts({t \in Wanted(keys) : /\ Platform(t) = g.platform
                                       /\ row[t].compatible = g.hardware
                                       /\ row[t].origin = g.origin}, kind, status)

(* get_hardware_summary_data: the failures, by platform and origin.         *)
Failures(keys) == {t \in Wanted(keys) : Status(t) = "FAIL"}

(* The failures of the hardware, in any lab. *)
MailFailuresOfAnyLab(keys, key) ==
  {t \in In("tests") : /\ RanOn(key, t) /\ InPeriod(key, t)
                       /\ Status(t) = "FAIL" /\ Platform(t) = key.hardware}

MailFailures(keys, key) ==
  {t \in Failures(keys) : Platform(t) = key.hardware /\ row[t].origin = key.origin}

-----------------------------------------------------------------------------
(* Counted, as what the item is now. *)
SettledInTree(x) == x \in DOMAIN inTree /\ inTree[x] = Now(x)

SettledOnHardware(t) ==
  /\ HardwareKey(t, t) \in DOMAIN onHardware /\ onHardware[HardwareKey(t, t)] = Now(t)
  /\ \A key \in BuildKeys(t) : onHardware[key] = Now(key[3])

(* The statuses of an outcome. *)
Behind(outcome) == {s \in Statuses : Outcome(s) = outcome}

(* The mail about a tree is about the commit the listing shows, if that    *)
(* was checked out within the mail's window; and what it tells of a commit *)
(* is what the listing has of it, once every item is counted as what it is *)
(* now, but for tests of no path, which the mail leaves out.  Two commits  *)
(* of a tree that start at one instant are told apart by neither.          *)
TreeMailMatchesListing ==
  \A req \in Requests, window \in MailWindows : \A c \in ListedTrees(req.origin) :
    LET heads == MailedTrees({<<row[c].tree[2], req.origin>>}, window)
    IN  /\ \A d \in In("checkouts") : row[d].tree[2] = row[c].tree[2] => row[d].tree = row[c].tree
        /\ \A d, e \in In("checkouts") :
             row[d].tree = row[e].tree /\ row[d].start = row[e].start => row[d].hash = row[e].hash
        => /\ row[c].start \in window.from .. window.to => c \in heads
           /\ \A h \in heads : (\A x \in OfCommit(h) : SettledInTree(x)) =>
                \A kind \in Kinds \cup {"build"}, outcome \in Outcomes :
                  UNION {MailedCounts(heads, kind, s) : s \in Behind(outcome)}
                    = {x \in TreeCounts(h, kind, outcome) : kind = "build" \/ row[x].path # None}

(* The groups of the page of a revision whose status is of an outcome. *)
RevisionOutcome(tests, kind, outcome) ==
  UNION {RevisionCounts(tests, kind, s) : s \in Behind(outcome)}

(* The hardware listing of a commit and the page of the revision count the *)
(* same tests (of a path) and the same builds on a platform, once its      *)
(* tests are counted, they and their builds, as what they are now; the     *)
(* page shows a build once per list of compatibles.                        *)
HardwareListingsAgree ==
  \A req \in HardwareRequests, c \in In("checkouts"), platform \in {Platform(t) : t \in In("tests")} :
    LET tests == RevisionTests(req, c, platform)
        commits == {row[c].hash}
    IN  /\ platform # Unknown
        /\ \A d \in In("checkouts") : row[c].hash \in {row[d].hash, row[d].tag} =>
                                      CommitOf(d) = CommitOf(c) /\ InPeriod(req, d)
        /\ \A t \in tests : SettledOnHardware(t)
        => \A outcome \in Outcomes :
             /\ {g[1] : g \in RevisionOutcome(tests, "build", outcome)}
                  = StatusCounts(req, commits, platform, "build", outcome)
             /\ \A kind \in Kinds :
                  RevisionOutcome(tests, kind, outcome)
                    = {t \in StatusCounts(req, commits, platform, kind, outcome) : row[t].path # None}

(* A hardware mail lists exactly the failures it counts, whichever group   *)
(* it takes, if a platform's tests name one list of compatibles and a path.*)
HardwareMailAgrees ==
  \A key \in MailKeys :
    /\ \A t, u \in Wanted(MailKeys) : Platform(t) = Platform(u) => row[t].compatible = row[u].compatible
    => \A g \in GroupsFor(MailKeys, key) :
         UNION {GroupCounts(MailKeys, g, kind, "FAIL") : kind \in Kinds}
           = {t \in MailFailures(MailKeys, key) : row[t].path # None}
=============================================================================
