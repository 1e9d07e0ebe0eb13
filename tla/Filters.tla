------------------------------ MODULE Filters ------------------------------
(***************************************************************************)
(* helpers/filters.py: what the endpoints of a tree or of a hardware show  *)
(* of the rows their queries return.  A filter is a record of sets and     *)
(* bounds, per kind of row ("build", "boot" or "test") where the code has  *)
(* one field per kind; an empty set and NoBound ask for nothing.           *)
(*                                                                         *)
(* An issue is a pair of an identifier and a version, 0 standing for a     *)
(* version that is None.  The path of a filter is the set of the paths     *)
(* that contain its text.  "config" stands for the three columns that are  *)
(* filtered alike: config_name, architecture and compiler.  A duration is  *)
(* a float; here it is counted in tenths of a second, and the bounds on it *)
(* in whole seconds.                                                       *)
(***************************************************************************)
EXTENDS Integers, FiniteSetsExt

None == "none"
Unknown == "unknown"
Null == "NULL"
NoBound == -1
NoDuration == -1
NoIssue == <<None, 0>>
Uncategorized == <<"uncategorized", 0>>

BuildFailures == {"FAIL", Null}

(* A filter field that was not given lets everything through. *)
Lets(values, value) == values = {} \/ value \in values

KnownIssue(issue) == issue[1] \notin {None, Uncategorized[1]} /\ issue[2] # 0
OnlyOfBuild(issue, ofTest) == KnownIssue(issue) /\ ofTest = None
OnlyOfTest(issue, ofTest) == KnownIssue(issue) /\ ofTest # None

(***************************************************************************)
(* The issue of a build is no issue of its tests: for them the row counts  *)
(* as uncategorized, but it keeps its version, so it matches no filter.    *)
(* A filter holds pairs, so "UNCATEGORIZED_STRING in issue_filters", which *)
(* would let the row through, is never true.                               *)
(***************************************************************************)
TestIssueOut(issues, issue, ofTest) ==
  /\ issues # {}
  /\ (IF OnlyOfBuild(issue, ofTest) THEN <<Uncategorized[1], issue[2]>> ELSE issue)
       \notin issues

BuildIssueOut(issues, issue, ofTest, status) ==
  /\ issues # {}
  /\ \/ status \notin BuildFailures
     \/ (IF OnlyOfTest(issue, ofTest) \/ (~KnownIssue(issue) /\ ofTest = None)
         THEN <<Uncategorized[1], issue[2]>> ELSE issue) \notin issues

(* The issue a row adds to its test or build, NoIssue when it adds none.   *)
TestIssueOf(issue, ofTest) == IF KnownIssue(issue) /\ ofTest # None THEN issue ELSE NoIssue
BuildIssueOf(issue, ofTest, status) ==
  IF KnownIssue(issue) /\ ofTest = None /\ status \in BuildFailures THEN issue ELSE NoIssue

Second == 10

(* to_int_or_default: int() of a duration drops its fraction.              *)
Seconds(duration) == duration \div Second

DurationOut(f, kind, duration) ==
  /\ f.min[kind] # NoBound \/ f.max[kind] # NoBound
  /\ \/ duration = NoDuration
     \/ f.max[kind] # NoBound /\ Seconds(duration) > f.max[kind]
     \/ f.min[kind] # NoBound /\ Seconds(duration) < f.min[kind]

(* The clauses of the queries, if NULL passed them.                        *)
DurationAskedIfKnown(f, kind, duration) ==
  \/ duration = NoDuration
  \/ /\ f.min[kind] # NoBound => duration >= Second * f.min[kind]
     /\ f.max[kind] # NoBound => duration <= Second * f.max[kind]

(* The clauses of the queries compare the float; NULL fails them.          *)
DurationAsked(f, kind, duration) ==
  /\ f.min[kind] # NoBound => duration # NoDuration /\ duration >= Second * f.min[kind]
  /\ f.max[kind] # NoBound => duration # NoDuration /\ duration <= Second * f.max[kind]

(* The two disagree on a duration between the upper bound and the next     *)
(* second: 5.5 s under a bound of 5.                                       *)
OverByAFraction(f, kind, duration) ==
  /\ f.max[kind] # NoBound /\ duration # NoDuration
  /\ duration > Second * f.max[kind] /\ Seconds(duration) <= f.max[kind]

NoFilter ==
  LET None3 == [kind \in {"build", "boot", "test"} |-> {}]
      Open == [kind \in {"build", "boot", "test"} |-> NoBound]
  IN  [status |-> None3, origin |-> None3, issues |-> None3, path |-> None3,
       min |-> Open, max |-> Open, platform |-> None3, hardware |-> {}, config |-> {}, lab |-> {}]

(***************************************************************************)
(* One parameter of a request.  A bound on the duration of a build is read *)
(* from the first character of the text, so from its first digit.          *)
(***************************************************************************)
FirstDigit(n) == CHOOSE d \in 0..9 : \E k \in 0..8 : n \div (10 ^ k) = d /\ (d > 0 \/ n = 0)

Handled(p, f) ==
  CASE p.field \in {"min", "max"} ->
         [f EXCEPT ![p.field][p.kind] = IF p.kind = "build" THEN FirstDigit(p.value) ELSE p.value]
    [] p.field = "path" -> [f EXCEPT !.path[p.kind] = p.value]
    [] p.field \in {"hardware", "config", "lab"} -> [f EXCEPT ![p.field] = @ \cup {p.value}]
    [] OTHER -> [f EXCEPT ![p.field][p.kind] = @ \cup {p.value}]

FilterParams(request) == FoldSet(Handled, NoFilter, request)

BuildOut(f, build, issue, ofTest) ==
  \/ ~Lets(f.status["build"], build.status)
  \/ DurationOut(f, "build", build.duration)
  \/ ~Lets(f.origin["build"], build.origin)
  \/ BuildIssueOut(f.issues["build"], issue, ofTest, build.status)

RecordOut(f, hardware, config, lab) ==
  \/ f.hardware # {} /\ f.hardware \cap hardware = {}
  \/ ~Lets(f.config, config)
  \/ ~Lets(f.lab, lab)

(* is_boot_filtered_out and is_test_filtered_out differ in the fields they read. *)
TestOut(f, kind, test, path, issue, ofTest, platform) ==
  \/ ~Lets(f.path[kind], path)
  \/ ~Lets(f.status[kind], test.status)
  \/ DurationOut(f, kind, test.duration)
  \/ TestIssueOut(f.issues[kind], issue, ofTest)
  \/ ~Lets(f.platform[kind], platform)
  \/ ~Lets(f.origin[kind], test.origin)
=============================================================================
