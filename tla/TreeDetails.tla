---------------------------- MODULE TreeDetails ----------------------------
(***************************************************************************)
(* The pages of one commit of a tree: the full details, the summary that   *)
(* is computed from the rollup, and the tabs of builds, boots and tests.   *)
(* Each has its own query and its own pass over the rows; they show the    *)
(* same commit side by side.                                               *)
(*                                                                         *)
(* A request names the commit by its hash or by a tag, and the tree by its *)
(* name (the short form) or by its url.                                    *)
(***************************************************************************)
EXTENDS DashboardTables

CONSTANTS
  Requests,   \* [commit, by, tree, origin]: the requests considered
  FilterSets  \* the filters considered, each the set of its parameters

Kinds == {"boot", "test"}

Selected(req) ==
  {c \in In("checkouts") :
     /\ row[c].origin = req.origin
     /\ req.tree = IF req.by = "name" THEN row[c].tree[1] ELSE row[c].tree[2]}

Named(req, c) == req.commit \in {row[c].hash, row[c].tag}

Newest(S) == {c \in S : \A d \in S : row[d].stamp <= row[c].stamp}

(* RELEVANT_HASH looks for the commit in every tree, then keeps the tree's *)
(* checkouts of it; the queries of the summary look in the tree only.      *)
Relevant(req) ==
  {c \in Selected(req) :
     \E d \in Newest({e \in In("checkouts") : Named(req, e)}) : row[d].hash = row[c].hash}

Found(req) == {c \in Selected(req) : Named(req, c)}

-----------------------------------------------------------------------------
(* The rows of get_tree_details_data: a build, a test of it and an incident *)
(* of either.                                                              *)
BuildTests(checkouts) ==
  UNION {{<<b, t>> : t \in LeftJoin(TestsOf(b))} :
           b \in UNION {LeftJoin(BuildsOf(c)) : c \in checkouts}}

WithIncidents(b, t) == {<<b, t, i>> : i \in LeftJoin(OfTest(t) \cup OfBuild(b))}

DetailsRows(req) == UNION {WithIncidents(p[1], p[2]) : p \in BuildTests(Relevant(req))}

(* get_current_row_data: the values a row gets where the columns are NULL. *)
BuildStatus(b) == IF b = None THEN Null ELSE Status(b)
TestStatus(t) == IF t = None THEN Null ELSE Status(t)
ConfigOf(b) == IF b = None THEN Unknown ELSE row[b].config
LabOf(t) == IF t = None THEN Unknown ELSE row[t].lab
PathShown(t) == IF row[t].path = None THEN Unknown ELSE row[t].path
IssueShown(b, t, i) ==
  IF IssueOfIncident(i) = NoIssue /\ (BuildStatus(b) \in BuildFailures \/ TestStatus(t) = "FAIL")
  THEN Uncategorized ELSE IssueOfIncident(i)

(* call_based_on_compatible_and_misc_platform *)
DetailsHardware(b, t) ==
  CASE t # None /\ row[t].compatible # <<>> -> row[t].compatible[1]
    [] t # None /\ row[t].platform # Unknown /\ row[t].compatible = <<>> -> row[t].platform
    [] OTHER -> BuildPlatform(b)

RowOut(f, r) == RecordOut(f, {DetailsHardware(r[1], r[2])}, ConfigOf(r[1]), LabOf(r[2]))

BuildPasses(f, r) ==
  /\ r[1] # None /\ ~row[r[1]].dummy
  /\ ~RowOut(f, r)
  /\ ~BuildOut(f, row[r[1]], IssueShown(r[1], r[2], r[3]), TestOfIncident(r[3]))

TestPasses(f, r, kind) ==
  /\ r[2] # None /\ KindOf(r[2]) = kind
  /\ ~RowOut(f, r)
  /\ ~TestOut(f, kind, row[r[2]], PathShown(r[2]), IssueShown(r[1], r[2], r[3]),
              TestOfIncident(r[3]), None)

DetailsBuilds(rows, f) == {r[1] : r \in {s \in rows : BuildPasses(f, s)}}
DetailsTests(rows, f, kind) == {r[2] : r \in {s \in rows : TestPasses(f, s, kind)}}

(* The rows that add one to the boots or tests with unknown issues: each   *)
(* row of a failed test that holds no issue of a test.                     *)
DetailsUnknown(rows, f, kind) ==
  Cardinality({r \in rows :
     /\ TestPasses(f, r, kind) /\ Status(r[2]) = "FAIL"
     /\ TestIssueOf(IssueOfIncident(r[3]), TestOfIncident(r[3])) = NoIssue})

-----------------------------------------------------------------------------
(* The summary.  A row of the rollup is the tests with the same key; they  *)
(* pass the filters together, their statuses one by one.  Durations are    *)
(* not in the rollup and are not looked at; a path filter sends the        *)
(* request to the rows of the details.                                     *)
CheckoutOf(t) == row[row[t].build].checkout
TreeKey(c) == <<row[c].origin, row[c].tree, row[c].hash>>

RolledOf(req) ==
  {t \in DOMAIN rolled : \E c \in Newest(Found(req)) : TreeKey(CheckoutOf(t)) = TreeKey(c)}

(* The platform even of a test with compatibles. *)
RollupPlatform(t) == row[t].platform

RollupHardware(t) ==
  CASE row[t].compatible # <<>> -> row[t].compatible[1]
    [] OTHER -> row[t].platform

(* Any test without an issue, failed or not. *)
RolledWithoutIssue(t) == rolled[t] = NoIssue
RolledUncategorized(t) == rolled[t] = NoIssue /\ Status(t) = "FAIL"
RolledIssue(t) == IF RolledUncategorized(t) THEN Uncategorized ELSE rolled[t]

RollupPasses(f, t, kind) ==
  /\ KindOf(t) = kind
  /\ ~RecordOut(f, {RollupHardware(t)}, ConfigOf(row[t].build), LabOf(t))
  /\ Lets(f.status[kind], Status(t))
  /\ ~TestIssueOut(f.issues[kind], RolledIssue(t), IF RolledIssue(t) = NoIssue THEN None ELSE t)
  /\ Lets(f.platform[kind], row[t].platform)
  /\ Lets(f.origin[kind], row[t].origin)

FallsBack(req, f) == RolledOf(req) = {} \/ \E kind \in Kinds : f.path[kind] # {}

SummaryTests(req, f, kind) ==
  IF FallsBack(req, f) THEN DetailsTests(DetailsRows(req), f, kind)
  ELSE {t \in RolledOf(req) : RollupPasses(f, t, kind)}

SummaryUnknown(req, f, kind) ==
  IF FallsBack(req, f) THEN DetailsUnknown(DetailsRows(req), f, kind)
  ELSE Cardinality({t \in SummaryTests(req, f, kind) : RolledUncategorized(t)})

(* get_tree_details_builds joins the incidents that name no test.          *)
BuildsOfSummary(req) ==
  UNION {{<<b, i>> : i \in LeftJoin({j \in OfBuild(b) : row[j].test = None})} :
           b \in UNION {BuildsOf(c) : c \in Found(req)}}

(* No hardware and no lab is given to the filter of the summary's builds.  *)
SummaryBuildPasses(f, b, i) ==
  /\ ~RecordOut(f, {Unknown}, ConfigOf(b), Unknown)
  /\ ~BuildOut(f, row[b], IssueShown(b, None, i), None)

(* The summary's builds, the dummy ones too. *)
SummaryBuildsAndDummies(req, f) ==
  {r[1] : r \in {s \in BuildsOfSummary(req) : SummaryBuildPasses(f, s[1], s[2])}}

SummaryBuilds(req, f) ==
  {r[1] : r \in {s \in BuildsOfSummary(req) :
                   ~row[s[1]].dummy /\ SummaryBuildPasses(f, s[1], s[2])}}

-----------------------------------------------------------------------------
(* The tabs.  get_tree_data selects the paths in SQL, where a NULL path is  *)
(* neither boot nor test, and joins the incidents of the tab's own rows.   *)
TabRows(req, kind) ==
  LET builds == UNION {BuildsOf(c) : c \in Relevant(req)} IN
  IF kind = "build" THEN UNION {{<<b, None, i>> : i \in LeftJoin(OfBuild(b))} : b \in builds}
  ELSE UNION {{<<row[t].build, t, i>> : i \in LeftJoin(OfTest(t))} :
                t \in {u \in UNION {TestsOf(b) : b \in builds} :
                         row[u].path # None /\ KindOf(u) = kind}}

TabBuilds(req, f) == {r[1] : r \in {s \in TabRows(req, "build") : BuildPasses(f, s)}}
TabBoots(req, f) == {r[2] : r \in {s \in TabRows(req, "boot") : TestPasses(f, s, "boot")}}

(* A tests tab that leaves out the tests no incident blames. *)
TabTestsBlamed(req, f) ==
  {r[2] : r \in {s \in TabRows(req, "test") : s[3] # None /\ TestPasses(f, s, "test")}}
TabTests(req, f) == {r[2] : r \in {s \in TabRows(req, "test") : TestPasses(f, s, "test")}}

-----------------------------------------------------------------------------
(* What the properties compare: the answers under filters they all read.   *)
Filters == {FilterParams(request) : request \in FilterSets}

ASSUME BoundsAssumption ==
  \A f \in Filters, kind \in Kinds \cup {"build"} :
    f.min[kind] \in Nat \cup {NoBound} /\ f.max[kind] \in Nat \cup {NoBound}

NoDurations(f) == \A kind \in Kinds : f.min[kind] = NoBound /\ f.max[kind] = NoBound
NoIssues(f) == \A kind \in Kinds \cup {"build"} : f.issues[kind] = {}
KnownIssues(f, kind) == \A issue \in f.issues[kind] : KnownIssue(issue)
NoPlatforms(f) == \A kind \in Kinds : f.platform[kind] = {}
NoHardware(f) == f.hardware = {} /\ f.lab = {} /\ NoPlatforms(f)

(* One commit of one tree answers the request, whichever query looks.      *)
OneTree(req) ==
  /\ \A c, d \in Found(req) \cup Relevant(req) : row[c].tree = row[d].tree
  /\ \A c \in In("checkouts"), d \in In("checkouts") :
       Named(req, c) /\ Named(req, d) => row[c].hash = row[d].hash

(* Every checkout of the commit bears the name the request gives it.       *)
NamedAlike(req) ==
  \A c, d \in In("checkouts") : Named(req, c) /\ row[c].hash = row[d].hash => Named(req, d)

(* An incident is of a test or of a build, not of both.                    *)
OneSubject == \A i \in In("incidents") : row[i].test = None \/ row[i].build = None

Tests(req) == UNION {TestsOf(b) : b \in UNION {BuildsOf(c) : c \in Relevant(req)}}
AllRolled(req) == Tests(req) \subseteq DOMAIN rolled

(* The summary counts the tests the details list: once the tests of the    *)
(* commit are rolled up, for every filter on status, hardware, config, lab *)
(* and origin, and for durations with a path, whatever the rollup lacks.   *)
SummaryMatchesDetails ==
  \A req \in Requests : OneTree(req) /\ AllRolled(req) =>
    LET rows == DetailsRows(req) IN
    \A f \in Filters, kind \in Kinds :
      /\ NoDurations(f) \/ FallsBack(req, f)
      /\ NoIssues(f) /\ NoPlatforms(f)
      /\ f.hardware = {} \/ \A b \in In("builds") : BuildPlatform(b) = Unknown
      => SummaryTests(req, f, kind) = DetailsTests(rows, f, kind)

(* "We only use the rollup rows if they exist and we have no other         *)
(* constraints": under any filter but one on issues, the same tests.       *)
SummaryUnderConstraints ==
  \A req \in Requests : OneTree(req) /\ AllRolled(req) =>
    LET rows == DetailsRows(req) IN
    \A f \in Filters, kind \in Kinds :
      /\ NoIssues(f) /\ NoHardware(f)
      => SummaryTests(req, f, kind) = DetailsTests(rows, f, kind)

(* A failed test that no incident explains is counted as unknown once, on  *)
(* both pages, if no incident came after its rollup or blames its build.   *)
UnknownAgrees ==
  \A req \in Requests :
    /\ OneTree(req) /\ AllRolled(req)
    /\ \A t \in Tests(req) : OfBuild(row[t].build) = {} /\ (rolled[t] = NoIssue <=> OfTest(t) = {})
    => LET rows == DetailsRows(req) IN
       \A f \in Filters, kind \in Kinds :
         /\ NoDurations(f) /\ NoIssues(f) /\ NoHardware(f)
         => SummaryUnknown(req, f, kind) = DetailsUnknown(rows, f, kind)

(* The three lists of builds agree for filters on status, config, origin,  *)
(* duration and known issues.                                              *)
BuildListsAgree ==
  \A req \in Requests : OneTree(req) /\ NamedAlike(req) =>
    LET rows == DetailsRows(req) IN
    \A f \in Filters : NoHardware(f) /\ KnownIssues(f, "build") =>
      /\ DetailsBuilds(rows, f) = SummaryBuilds(req, f)
      /\ DetailsBuilds(rows, f) = TabBuilds(req, f)

(* The boots and tests tabs list what the details list, but for tests of   *)
(* no path and for the filter on uncategorized issues, while an incident   *)
(* of a build names no test.                                               *)
TabsMatchDetails ==
  OneSubject => \A req \in Requests :
    LET rows == DetailsRows(req) IN
    \A f \in Filters, kind \in Kinds : KnownIssues(f, kind) =>
      (IF kind = "boot" THEN TabBoots(req, f) ELSE TabTests(req, f))
        = {t \in DetailsTests(rows, f, kind) : row[t].path # None}
=============================================================================
