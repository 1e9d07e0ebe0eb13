--------------------------- MODULE CommitHistory ---------------------------
(***************************************************************************)
(* The history of a tree's commits, up to the commit of the request: the   *)
(* endpoint that reads rows and filters them in Python, and the one that   *)
(* counts in SQL.                                                          *)
(***************************************************************************)
EXTENDS TreeDetails

CONSTANT
  CommitLimit  \* LIMIT of the commits before and with the head

ASSUME CommitLimitAssumption == CommitLimit \in Nat \ {0}

AllTypes == {"builds", "boots", "tests"}

(* HEAD_START_TIME: the last start of the commit in its tree. *)
HeadStart(req) == Max({row[c].start : c \in Found(req)})

(* The commits before the head, without it. *)
EarlierStrictly(req) == {c \in Selected(req) : row[c].start < HeadStart(req)}
Earlier(req) == {c \in Selected(req) : row[c].start <= HeadStart(req)}

(* EARLIEST_COMMITS: the last checkout of each commit of a url, the newest *)
(* CommitLimit of them; then every earlier checkout of those commits.      *)
LastOfCommit(req) ==
  {c \in Earlier(req) :
     \A d \in Earlier(req) :
       row[d].tree[2] = row[c].tree[2] /\ row[d].hash = row[c].hash => row[d].start <= row[c].start}

SelectedCheckouts(req) ==
  {c \in Earlier(req) :
     \E d \in LastOfCommit(req) :
       /\ row[d].hash = row[c].hash
       /\ Cardinality({e \in LastOfCommit(req) : row[e].start > row[d].start}) < CommitLimit}

(* When only builds are asked, tests are read too if a filter needs them.  *)
Included(f, types, related) ==
  IF types = {"builds"} /\ (related \/ f.hardware # {}) THEN AllTypes ELSE types

(* A comparison that a NULL path fails. *)
PathIncludedNotNull(types, path) ==
  \/ {"boots", "tests"} \subseteq types
  \/ path # None /\ ((path \in {"boot", "boot.nfs", "bootrr"}) = ("boots" \in types))

(* With one of boots and tests, the paths are selected by 'boot%'.         *)
PathIncluded(types, path) ==
  \/ path = None
  \/ {"boots", "tests"} \subseteq types
  \/ (path \in {"boot", "boot.nfs", "bootrr"}) = ("boots" \in types)

JoinedTests(types, b) ==
  IF types \cap {"boots", "tests"} = {} THEN {}
  ELSE {t \in TestsOf(b) : PathIncluded(types, row[t].path)}

(* Issues are joined by identifier alone: a row for each of its versions.  *)
Versions(i) == IF i = None THEN {NoIssue} ELSE {issue \in issues : issue[1] = row[i].issue[1]}

HistoryRows(c, types) ==
  UNION {UNION {UNION {{[build |-> IF "builds" \in types THEN b ELSE None, test |-> t,
                         issue |-> v, ofTest |-> TestOfIncident(i)] : v \in Versions(i)} :
                       i \in LeftJoin(OfBuild(b) \cup OfTest(t))} :
                t \in LeftJoin(JoinedTests(types, b))} :
         b \in LeftJoin(BuildsOf(c))}

(* All the compatibles and the platform, else the platform of the build.   *)
HistoryHardware(r) ==
  LET own == IF r.test = None THEN {}
             ELSE Range(row[r.test].compatible) \cup ({row[r.test].platform} \ {Unknown})
  IN  IF own = {} THEN {BuildPlatform(r.build)} ELSE own

HistoryRecordOut(f, r) ==
  RecordOut(f, HistoryHardware(r), ConfigOf(r.build), LabOf(r.test))

HistoryTestOut(f, r) ==
  \/ r.test = None
  \/ LET issue == IF r.issue = NoIssue /\ (BuildStatus(r.build) \in BuildFailures \/ Status(r.test) = "FAIL")
                  THEN Uncategorized ELSE r.issue
     IN  TestOut(f, KindOf(r.test), row[r.test], row[r.test].path, issue, r.ofTest, None)

Shown(rows, f) == {r \in rows : ~HistoryRecordOut(f, r)}

HistoryTests(rows, f, types, kind) ==
  IF types = {"builds"} THEN {}
  ELSE {r.test : r \in {s \in Shown(rows, f) : ~HistoryTestOut(f, s) /\ KindOf(s.test) = kind}}

HistoryBuilds(rows, f, related) ==
  {r.build : r \in {s \in Shown(rows, f) :
                      /\ related => ~HistoryTestOut(f, s)
                      /\ s.build # None /\ ~row[s.build].dummy
                      /\ ~BuildOut(f, row[s.build], s.issue, s.ofTest)}}

HistoryOf(req, hash) == {c \in SelectedCheckouts(req) : row[c].hash = hash}

(* The rows of a commit, for what the request includes. *)
CommitRows(req, hash, f, types, related) ==
  UNION {HistoryRows(c, Included(f, types, related)) : c \in HistoryOf(req, hash)}

-----------------------------------------------------------------------------
(* The counts made in SQL: one query of builds and one of tests, joined by *)
(* UNION ALL.  The rows are grouped; the issues of a whole group must be   *)
(* among those asked.  A column that is NULL matches no filter here, and   *)
(* filters on origins and paths are not read.                              *)
IssuesOfTest(t) == {row[i].issue : i \in OfTest(t)} \cup (IF OfTest(t) = {} THEN {Uncategorized} ELSE {})
IssuesOfBuild(b) == {row[i].issue : i \in OfBuild(b)} \cup (IF OfBuild(b) = {} THEN {Uncategorized} ELSE {})

PathAsked(types, path) ==
  \/ {"boots", "tests"} \subseteq types
  \/ path # None /\ (IsBoot(path) = ("boots" \in types))

(* The clauses leave out a test unless its path is of the other kind: one  *)
(* without a path must meet the bounds on boots and those on tests.        *)
TestDurationAsked(f, t) ==
  /\ DurationAsked(f, KindOf(t), row[t].duration)
  /\ row[t].path = None => DurationAsked(f, "boot", row[t].duration)

OnPlatform(f, t) ==
  f.hardware = {} \/ f.hardware \cap (Range(row[t].compatible) \cup ({row[t].platform} \ {Unknown})) # {}

AskedBuilds(req, f, hash) ==
  {b \in UNION {BuildsOf(c) : c \in {d \in Selected(req) : row[d].hash = hash}} :
     /\ ~row[b].dummy /\ row[b].config # Unknown
     /\ DurationAsked(f, "build", row[b].duration)
     /\ f.hardware = {} \/ \E t \in TestsOf(b) : OnPlatform(f, t)}

AskedTests(req, f, hash, types) ==
  {t \in UNION {TestsOf(b) : b \in UNION {BuildsOf(c) : c \in {d \in Selected(req) : row[d].hash = hash}}} :
     /\ types \cap {"boots", "tests"} # {} /\ PathAsked(types, row[t].path)
     /\ OnPlatform(f, t) /\ TestDurationAsked(f, t)}

BuildGroup(asked, b) ==
  {d \in asked : /\ row[d].checkout = row[b].checkout /\ Status(d) = Status(b)
                 /\ row[d].config = row[b].config /\ row[d].lab = row[b].lab}
TestGroup(asked, t) ==
  {u \in asked : /\ CheckoutOf(u) = CheckoutOf(t) /\ Status(u) = Status(t)
                 /\ KindOf(u) = KindOf(t) /\ (row[u].path = None <=> row[t].path = None)
                 /\ ConfigOf(row[u].build) = ConfigOf(row[t].build) /\ row[u].lab = row[t].lab}

(* UNION ALL takes columns by their position and names them by the first   *)
(* query: is_build, is_boot, is_test.  The query of tests ends is_build,   *)
(* is_test, is_boot, so beside builds every test reads as a boot.          *)
ListedKind(types, t) == IF "builds" \in types THEN "boot" ELSE KindOf(t)

InstanceOut(f, kind, status, config, lab, known) ==
  \/ f.status[kind] # {} /\ (status = Null \/ status \notin f.status[kind])
  \/ f.config # {} /\ (config = Unknown \/ config \notin f.config)
  \/ f.lab # {} /\ (lab = Unknown \/ lab \notin f.lab)
  \/ f.issues[kind] # {} /\ ~(known \subseteq f.issues[kind])

(* Read with the types the request includes. *)
ListedBuilds(req, f, hash, types) ==
  LET asked == AskedBuilds(req, f, hash) IN
  {b \in asked :
     /\ "builds" \in types
     /\ ~InstanceOut(f, "build", Status(b), row[b].config, row[b].lab,
                     UNION {IssuesOfBuild(d) : d \in BuildGroup(asked, b)})}

ListedTests(req, f, hash, types, kind) ==
  LET asked == AskedTests(req, f, hash, types) IN
  {t \in asked :
     /\ ListedKind(types, t) = kind
     /\ ~InstanceOut(f, kind, Status(t), ConfigOf(row[t].build), row[t].lab,
                     UNION {IssuesOfTest(u) : u \in TestGroup(asked, t)})}

-----------------------------------------------------------------------------
(* What the properties compare. *)
PlainPaths == \A t \in In("tests") : row[t].path # None
OneVersion == \A v, w \in issues : v[1] = w[1] => v = w
OnePlace ==
  \A t \in In("tests") :
    Len(row[t].compatible) + Cardinality({row[t].platform} \ {Unknown}) <= 1

(* The history shows of the head commit what its details show, under every *)
(* filter, issues and durations included, while issues have one version    *)
(* and tests one hardware.                                                 *)
HistoryMatchesDetails ==
  OneVersion /\ PlainPaths =>
    \A req \in Requests : OneTree(req) /\ NamedAlike(req) =>
      \A hash \in {row[c].hash : c \in Found(req)} :
        LET details == DetailsRows(req)
            history == CommitRows(req, hash, NoFilter, AllTypes, FALSE)
        IN \A f \in Filters : f.hardware = {} \/ OnePlace =>
             /\ HistoryBuilds(history, f, FALSE) = DetailsBuilds(details, f)
             /\ \A kind \in Kinds :
                  HistoryTests(history, f, AllTypes, kind) = DetailsTests(details, f, kind)

(* A history asked for some kinds of rows only (builds for one tab, boots  *)
(* for another) shows of them what the whole history shows.  Without       *)
(* builds a row has no configuration and no status of its build; with one  *)
(* of boots and tests, paths like 'boot%' are boots.                       *)
HistoryByType ==
  (\A t \in In("tests") : row[t].path # "bootrr") =>
    \A req \in Requests : Found(req) # {} =>
      \A hash \in {row[c].hash : c \in SelectedCheckouts(req)} :
        LET whole == CommitRows(req, hash, NoFilter, AllTypes, FALSE) IN
        \A types \in (SUBSET AllTypes) \ {{}} :
          LET some == CommitRows(req, hash, NoFilter, types, FALSE) IN
          \A f \in Filters : NoHardware(f) /\ f.config = {} /\ NoIssues(f) =>
            /\ "builds" \in types => HistoryBuilds(some, f, FALSE) = HistoryBuilds(whole, f, FALSE)
            /\ "boots" \in types =>
                 HistoryTests(some, f, types, "boot") = HistoryTests(whole, f, AllTypes, "boot")
            /\ "tests" \in types =>
                 HistoryTests(some, f, types, "test") = HistoryTests(whole, f, AllTypes, "test")

(* The filters both history endpoints read, and read alike.                *)
ReadAlike(f) ==
  /\ NoIssues(f) /\ NoHardware(f) /\ Unknown \notin f.config
  /\ \A kind \in Kinds \cup {"build"} : f.origin[kind] = {} /\ Null \notin f.status[kind]
  /\ \A kind \in Kinds : f.path[kind] = {}

(* The first endpoint shows the whole of a commit. *)
ShownWhole(req, hash) == {c \in Selected(req) : row[c].hash = hash} = HistoryOf(req, hash)

AskedKinds(types) == {kind \in Kinds : IF kind = "boot" THEN "boots" \in types ELSE "tests" \in types}

(* What the first endpoint shows and the second can count: it has no      *)
(* builds of no config, and compares durations without rounding them.      *)
Countable(f, kind, items) == {x \in items : ~OverByAFraction(f, kind, row[x].duration)}
CountableBuilds(history, f) ==
  Countable(f, "build", {b \in HistoryBuilds(history, f, FALSE) : row[b].config # Unknown})
CountableTests(history, f) ==
  [kind \in Kinds |-> Countable(f, kind, HistoryTests(history, f, AllTypes, kind))]

(* With builds among the types the kind of a test is lost: boots and tests *)
(* together are still the right ones, if the same status is asked of both. *)
CountsShown(req, f, hash, types, builds, tests) ==
  /\ ListedBuilds(req, f, hash, types) = IF "builds" \in types THEN builds ELSE {}
  /\ "builds" \notin types =>
       \A kind \in Kinds :
         ListedTests(req, f, hash, types, kind)
           = IF kind \in AskedKinds(types) THEN tests[kind] ELSE {}
  /\ "builds" \in types /\ f.status["boot"] = f.status["test"] =>
       UNION {ListedTests(req, f, hash, types, kind) : kind \in Kinds}
         = UNION {tests[kind] : kind \in AskedKinds(types)}

(* The endpoint that counts in SQL counts what the one that filters in     *)
(* Python shows, under filters on status, config and duration and whatever *)
(* types are asked for, as far as it can count.                            *)
HistoriesAgree ==
  PlainPaths =>
    \A req \in Requests : Found(req) # {} =>
      \A hash \in {row[c].hash : c \in SelectedCheckouts(req)} : ShownWhole(req, hash) =>
        LET history == CommitRows(req, hash, NoFilter, AllTypes, FALSE) IN
        \A f \in Filters : ReadAlike(f) =>
          LET builds == CountableBuilds(history, f)
              tests == CountableTests(history, f)
          IN \A types \in (SUBSET AllTypes) \ {{}} : CountsShown(req, f, hash, types, builds, tests)

(* "List of types to include": what was not asked for is not counted.      *)
TypesAskedOnly ==
  \A req \in Requests, hash \in {row[c].hash : c \in In("checkouts")}, types \in (SUBSET AllTypes) \ {{}} :
    \A kind \in Kinds \ AskedKinds(types) : ListedTests(req, NoFilter, hash, types, kind) = {}
=============================================================================
