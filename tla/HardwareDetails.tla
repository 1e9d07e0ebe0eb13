-------------------------- MODULE HardwareDetails --------------------------
(***************************************************************************)
(* The pages of a hardware: the details (and their tabs, which read the    *)
(* same records with the same predicates), the summary, which counts in    *)
(* SQL, and the history of the commits of the trees that ran on it.        *)
(*                                                                         *)
(* A request names the hardware, the origin of its tests and a period, and *)
(* selects commits by the index of their tree among the trees shown; no    *)
(* index selects everything.                                               *)
(***************************************************************************)
EXTENDS CommitHistory

CONSTANTS
  HardwareRequests,  \* [hardware, origin, from, to, selected]
  SqlOrder,          \* where ORDER BY puts a tree and commit: a number
  PageOrder          \* where sorted() puts it: NULL is '' there and first

AtHead == "head"

InPeriod(req, x) == row[x].start \in req.from .. req.to

RanOn(req, t) ==
  /\ req.hardware \in Range(row[t].compatible) \cup {row[t].platform}
  /\ row[t].origin = req.origin

CommitOf(c) == <<row[c].tree, row[c].hash>>

(* The last checkout of each tree and origin in the period, whatever it    *)
(* ran on: "not the last head that has that hardware".                     *)
TreeHeads(req) ==
  {c \in In("checkouts") :
     /\ InPeriod(req, c)
     /\ \A d \in In("checkouts") :
          /\ InPeriod(req, d) /\ row[d].tree = row[c].tree /\ row[d].origin = row[c].origin
          => row[d].start <= row[c].start}

(* The heads that ran on the hardware; of two origins with one commit of a *)
(* tree, the later.                                                        *)
Trees(req) ==
  LET ran == {c \in TreeHeads(req) : \E b \in BuildsOf(c) : \E t \in TestsOf(b) : RanOn(req, t)}
  IN  {c \in ran : \A d \in ran : CommitOf(d) = CommitOf(c) => row[d].start <= row[c].start}

Index(req, c) == Cardinality({d \in Trees(req) : SqlOrder[CommitOf(d)] < SqlOrder[CommitOf(c)]})
IsSelected(req, c) == Index(req, c) \in DOMAIN req.selected

Displayed(req, c) ==
  IF IsSelected(req, c) /\ req.selected[Index(req, c)] # AtHead
  THEN req.selected[Index(req, c)] ELSE row[c].hash

-----------------------------------------------------------------------------
(* get_current_record_tree_in_selection: a record of a tree that is not    *)
(* shown, as one whose head is kept for another origin, is skipped.        *)
TreesOf(req, c) ==
  {d \in Trees(req) : row[d].tree = row[c].tree /\ row[d].origin = row[c].origin}

TreeSelected(req, c) ==
  \/ DOMAIN req.selected = {}
  \/ \E d \in TreesOf(req, c) : IsSelected(req, d) /\ Displayed(req, d) = row[c].hash

(* query_records: the tests of every displayed commit, each with its       *)
(* incidents times those of its build.  The records of no tree are left    *)
(* out; asked tells those of a selected tree.                              *)
Records(req) ==
  LET hashes == {Displayed(req, c) : c \in Trees(req)}
      found == {t \in In("tests") : /\ RanOn(req, t) /\ InPeriod(req, t)
                                    /\ row[CheckoutOf(t)].hash \in hashes
                                    /\ TreesOf(req, CheckoutOf(t)) # {}}
  IN  UNION {{[test |-> t, build |-> row[t].build, own |-> i, ofBuild |-> j,
               asked |-> TreeSelected(req, CheckoutOf(t))] :
                i \in LeftJoin(OfTest(t)), j \in LeftJoin(OfBuild(row[t].build))} : t \in found}

Compatibles(t) == IF row[t].compatible = <<>> THEN {Unknown} ELSE Range(row[t].compatible)

(* The records of a displayed commit, its tree selected or not. *)
HardwareRecordOutUnasked(f, r) ==
  RecordOut(f, Compatibles(r.test), ConfigOf(r.build), LabOf(r.test))

HardwareRecordOut(f, r) ==
  ~r.asked \/ RecordOut(f, Compatibles(r.test), ConfigOf(r.build), LabOf(r.test))

HardwareTestPasses(f, r, kind) ==
  /\ KindOf(r.test) = kind
  /\ ~HardwareRecordOut(f, r)
  /\ LET issue == IF r.own = None /\ Status(r.test) = "FAIL" THEN Uncategorized
                  ELSE IssueOfIncident(r.own)
     IN  ~TestOut(f, kind, row[r.test], row[r.test].path, issue, TestOfIncident(r.own),
                  row[r.test].platform)

(* The issue is the build's; the test it may name is that of the test's.   *)
HardwareBuildPasses(f, r) ==
  /\ ~HardwareRecordOut(f, r) /\ ~row[r.build].dummy
  /\ LET issue == IF r.ofBuild = None /\ Status(r.build) \in BuildFailures THEN Uncategorized
                  ELSE IssueOfIncident(r.ofBuild)
     IN  ~BuildOut(f, row[r.build], issue, TestOfIncident(r.own))

(* decide_if_is_test_in_filter reads the platform out of environment_misc; *)
(* where that is NULL it raises, and the page is an error.                 *)
Answers(records, f) == \A r \in records : HardwareRecordOut(f, r) \/ row[r.test].misc

HardwareTests(records, f, kind) == {r.test : r \in {s \in records : HardwareTestPasses(f, s, kind)}}
HardwareBuilds(records, f) == {r.build : r \in {s \in records : HardwareBuildPasses(f, s)}}

(* What the status summary of a tree may count for one of its builds: one  *)
(* per record until a record of it passes; records come in no fixed order. *)
BuildCounts(records, f, b) ==
  LET of == {r \in records : r.build = b}
      passing == {r \in of : HardwareBuildPasses(f, r)}
  IN  IF passing = {} THEN {Cardinality(of)} ELSE 1 .. (1 + Cardinality(of \ passing))

-----------------------------------------------------------------------------
(* The heads, whatever is selected of them. *)
HashesOfHeads(req, selected) == {row[c].hash : c \in Trees(req)}

(* The summary: select_commits_hashes, then two counts grouped in SQL.     *)
Hashes(req, selected) ==
  IF selected = {} THEN {row[c].hash : c \in Trees(req)}
  ELSE {Displayed(req, c) : c \in {d \in Trees(req) : Index(req, d) \in selected}}

GroupOut(f, kind, status, config, lab, compatibles) ==
  \/ f.status[kind] # {} /\ (status = Null \/ status \notin f.status[kind])
  \/ ~Lets(f.config, config)
  \/ ~Lets(f.lab, lab)
  \/ f.hardware # {} /\ f.hardware \cap compatibles = {}

(* COUNT( * ) of the tests joined with their incidents. *)
SummaryTestRows(req, f, hashes, kind) ==
  {p \in UNION {{<<t, i>> : i \in LeftJoin(OfTest(t))} : t \in In("tests")} :
     LET t == p[1] IN
     /\ KindOf(t) = kind /\ RanOn(req, t) /\ InPeriod(req, t)
     /\ row[CheckoutOf(t)].hash \in hashes
     /\ TestDurationAsked(f, t)
     /\ ~GroupOut(f, kind, Status(t), ConfigOf(row[t].build), row[t].lab, Range(row[t].compatible))}

(* COUNT(DISTINCT builds.id) in groups that tell environments apart: a     *)
(* build is counted once per environment of its tests.                     *)
SummaryBuildRows(req, f, hashes) ==
  {g \in {<<row[t].build, row[t].compatible, row[t].platform>> :
            t \in {u \in In("tests") : req.hardware \in Range(row[u].compatible) \cup {row[u].platform}}} :
     LET b == g[1] IN
     /\ row[b].origin = req.origin /\ InPeriod(req, b)
     /\ row[b].config # Unknown /\ ~row[b].dummy
     /\ row[row[b].checkout].hash \in hashes
     /\ DurationAsked(f, "build", row[b].duration)
     /\ ~GroupOut(f, "build", Status(b), row[b].config, row[b].lab, Range(g[2]))}

(* The trees of the summary of what is selected. *)
SummaryTreesSelected(req) ==
  LET heads == Hashes(req, DOMAIN req.selected)
      tests == UNION {SummaryTestRows(req, NoFilter, heads, kind) : kind \in Kinds}
  IN  {CommitOf(CheckoutOf(p[1])) : p \in tests}
      \cup {CommitOf(row[g[1]].checkout) : g \in SummaryBuildRows(req, NoFilter, heads)}

(* The trees the page numbers come from the summary of every head.         *)
SummaryTrees(req) ==
  LET heads == Hashes(req, {})
      tests == UNION {SummaryTestRows(req, NoFilter, heads, kind) : kind \in Kinds}
  IN  {CommitOf(CheckoutOf(p[1])) : p \in tests}
      \cup {CommitOf(row[g[1]].checkout) : g \in SummaryBuildRows(req, NoFilter, heads)}

(* aggregate_common sorts them and gives each its place.                   *)
PageIndex(req, commit) ==
  Cardinality({other \in SummaryTrees(req) : PageOrder[other] < PageOrder[commit]})

-----------------------------------------------------------------------------
(* get_hardware_commit_history, for the commits of the trees shown.        *)
Since(req, head) ==
  LET S == {row[c].start : c \in {d \in In("checkouts") : CommitOf(d) = head /\ row[d].origin = req.origin}}
  IN  IF S = {} THEN -1 ELSE Min(S)

(* The checkouts before the head's, without it. *)
HardwareHistoryBefore(req, head) ==
  {CommitOf(c) : c \in {d \in In("checkouts") :
     row[d].tree = head[1] /\ InPeriod(req, d) /\ row[d].start < Since(req, head)}}

HardwareHistoryOf(req, head) ==
  {CommitOf(c) : c \in {d \in In("checkouts") :
     row[d].tree = head[1] /\ InPeriod(req, d) /\ row[d].start <= Since(req, head)}}

-----------------------------------------------------------------------------
(* What the properties compare. *)
Plain(f) ==
  /\ NoIssues(f) /\ NoPlatforms(f) /\ Unknown \notin f.hardware
  /\ \A kind \in Kinds \cup {"build"} : f.origin[kind] = {} /\ Null \notin f.status[kind]
  /\ \A kind \in Kinds : f.path[kind] = {}

(* The bounds on boots ask nothing more of a test that has no path.        *)
BootBoundsHold(f) ==
  PlainPaths \/ /\ f.min["boot"] \in {NoBound, f.min["test"]}
                /\ f.max["boot"] \in {NoBound, f.max["test"]}

(* The checkouts of a tree that is shown, at the commit that is displayed. *)
Selection(req) == {c \in In("checkouts") : TreesOf(req, c) # {} /\ TreeSelected(req, c)}

(* No displayed commit is also of another tree or origin.                  *)
Apart(req) ==
  \A c \in In("checkouts"), d \in Trees(req) :
    row[c].hash \in {row[d].hash, Displayed(req, d)}
    => row[c].tree = row[d].tree /\ row[c].origin = row[d].origin

(* Tests and their builds have one origin, lie in the period together, and *)
(* their configuration is known.                                           *)
BuildsAlongside(req) ==
  \A t \in In("tests") : LET b == row[t].build IN
    /\ row[b].origin = row[t].origin /\ row[b].config # Unknown
    /\ InPeriod(req, b) /\ InPeriod(req, t)

(* Whichever commits are selected, the summary counts the tests the        *)
(* details list, but for those that exceed a bound by a fraction of a      *)
(* second; what it counts besides are the tests of other trees at the same *)
(* hashes, and there are none if no commit is of two trees.  It counts no  *)
(* test twice unless it has several incidents.  The details answer at all  *)
(* unless a record lacks its environment_misc.  A test without a path is a *)
(* boot to the bounds of the summary and none to those of the details, so  *)
(* the bounds on boots must ask nothing more of it.                        *)
HardwareTestsAgree ==
  \A req \in HardwareRequests :
    LET records == Records(req)
        hashes == Hashes(req, DOMAIN req.selected)
        selection == Selection(req)
    IN \A f \in Filters, kind \in Kinds : Plain(f) /\ BootBoundsHold(f) /\ Answers(records, f) =>
      LET rows == SummaryTestRows(req, f, hashes, kind)
          counted == {p[1] : p \in rows}
      IN  /\ {t \in counted : CheckoutOf(t) \in selection}
               = {t \in HardwareTests(records, f, kind) : ~OverByAFraction(f, kind, row[t].duration)}
          /\ Apart(req) => \A t \in counted : CheckoutOf(t) \in selection
          /\ (\A t \in counted : Cardinality(OfTest(t)) <= 1)
               => Cardinality(rows) = Cardinality(counted)

(* The same of builds.  The summary does not look at the tests' origins    *)
(* and times, nor the details at the builds'.                              *)
HardwareBuildsAgree ==
  \A req \in HardwareRequests : BuildsAlongside(req) =>
    LET records == Records(req)
        hashes == Hashes(req, DOMAIN req.selected)
        selection == Selection(req)
    IN \A f \in Filters : Plain(f) /\ f.lab = {} =>
      LET counted == {g[1] : g \in SummaryBuildRows(req, f, hashes)}
      IN  /\ {b \in counted : row[b].checkout \in selection}
               = {b \in HardwareBuilds(records, f) : ~OverByAFraction(f, "build", row[b].duration)}
          /\ Apart(req) => \A b \in counted : row[b].checkout \in selection

(* The page numbers the trees of the summary and sends those numbers back, *)
(* to select commits among the heads, which a query numbers.  Whatever is  *)
(* selected, a number means the same tree to both, as long as the order of *)
(* the database and that of sorted() agree on the trees shown, no commit   *)
(* is of two trees, and no two heads of one commit start at one instant.   *)
SelectionKeepsIndexes ==
  \A req \in HardwareRequests :
    /\ \A c \in In("checkouts"), d \in Trees(req) : row[c].hash = row[d].hash => row[c].tree = row[d].tree
    /\ \A c, d \in Trees(req) : CommitOf(c) = CommitOf(d) => c = d
    /\ \A t \in In("tests") : InPeriod(req, t)
    /\ \A c, d \in Trees(req) : SqlOrder[CommitOf(c)] < SqlOrder[CommitOf(d)]
                                <=> PageOrder[CommitOf(c)] < PageOrder[CommitOf(d)]
    => /\ SummaryTrees(req) = {CommitOf(c) : c \in Trees(req)}
       /\ \A c \in Trees(req) : PageIndex(req, CommitOf(c)) = Index(req, c)

(* The history of a tree's head starts with the head, and that of an older *)
(* commit is the part of it up to that commit, if one origin checks out.   *)
HistoriesNest ==
  \A req \in HardwareRequests :
    (\A c \in In("checkouts") : row[c].origin = req.origin /\ InPeriod(req, c)) =>
      \A c \in Trees(req) : LET history == HardwareHistoryOf(req, CommitOf(c)) IN
        /\ CommitOf(c) \in history
        /\ \A older \in history : older \in HardwareHistoryOf(req, older)
                                 /\ HardwareHistoryOf(req, older) \subseteq history

(* "Status Summary should be unaffected by filters because it is placed    *)
(* above filters in the UI": a build counts the same under any filter.     *)
StatusSummaryUnfiltered ==
  \A req \in HardwareRequests : LET records == Records(req) IN
    \A f \in Filters, b \in In("builds") :
      BuildCounts(records, f, b) = BuildCounts(records, NoFilter, b)
=============================================================================
