---------------------------- MODULE IssueReports ----------------------------
(***************************************************************************)
(* The "new_issues" and "issue_report" actions of the notifications        *)
(* command.  new_issues runs hourly: it mails a summary of the issues that *)
(* were first seen within the hour and a report of each new build issue,   *)
(* and stores every one of them in notifications_issue, a table of another *)
(* database; issue_report mails a report of one issue, or, with --all, of  *)
(* every stored issue that has none yet.                                   *)
(***************************************************************************)
EXTENDS Integers, FiniteSets, Sequences

CONSTANTS
    IssueIds,
    Maestro,       \* the issues of origin maestro
    MaxVersion,
    MaxHour,       \* bound on the clock
    MaxIncidents,  \* bound on the incidents
    MaxMishaps,    \* bound on the failed stores and lost mails of a version
    MaxCommands    \* bound on the runs of the command

ASSUME IssueAssumption ==
    /\ IsFiniteSet(IssueIds) /\ Maestro \subseteq IssueIds
    /\ MaxVersion \in Nat /\ MaxHour \in Nat /\ MaxIncidents \in Nat
    /\ MaxMishaps \in Nat /\ MaxCommands \in Nat

VARIABLES
    hour,
    issues,       \* <<id, version, _timestamp>>
    seen,         \* incidents: <<issue id, "build", "boot" or "test", _timestamp>>
    stored,       \* notifications_issue: <<id, version>> -> [type, sent]
    command,      \* what the command is doing
    commands,
    listed,       \* history: <<id, version>> -> summaries of new issues that had it
    unstored,     \* history: <<id, version>> -> times storing it failed
    reported,     \* history: <<id, version>> -> reports mailed of it
    toNobody        \* history: <<id, version>> -> reports that got an id and no reader

issueVars == <<hour, issues, seen, stored, command, commands, listed, unstored, reported,
               toNobody>>

IssueKeys == IssueIds \X (1..MaxVersion)
Kinds == {"build", "boot", "test"}
Quiet == [at |-> "idle", rows |-> <<>>, boots |-> <<>>, keys |-> {}, fresh |-> <<>>,
          ask |-> FALSE, update |-> FALSE]

IssueInit ==
    /\ hour = 0
    /\ issues = {}
    /\ seen = {}
    /\ stored = [k \in {} |-> Quiet]
    /\ command = Quiet
    /\ commands = 0
    /\ listed = [k \in IssueKeys |-> 0]
    /\ unstored = [k \in IssueKeys |-> 0]
    /\ reported = [k \in IssueKeys |-> 0]
    /\ toNobody = [k \in IssueKeys |-> 0]

HourPasses ==
    /\ hour < MaxHour
    /\ hour' = hour + 1
    /\ UNCHANGED <<issues, seen, stored, command, commands, listed, unstored, reported, toNobody>>

IssueVersions(i) == {x[2] : x \in {y \in issues : y[1] = i}}

(* A version arrives, the next one or one that is there: its _timestamp is *)
(* renewed.                                                                *)
IssueArrives(i) ==
    /\ \E v \in 1..MaxVersion :
         /\ v <= Cardinality(IssueVersions(i)) + 1
         /\ issues' = {x \in issues : <<x[1], x[2]>> # <<i, v>>} \union {<<i, v, hour>>}
    /\ UNCHANGED <<hour, seen, stored, command, commands, listed, unstored, reported, toNobody>>

IncidentIsSeen(i) ==
    /\ Cardinality(seen) < MaxIncidents
    /\ \E kind \in Kinds : seen' = seen \union {<<i, kind, hour>>}
    /\ UNCHANGED <<hour, issues, stored, command, commands, listed, unstored, reported, toNobody>>

-----------------------------------------------------------------------------
Mishap(k) == unstored[k] + toNobody[k] < MaxMishaps

Greatest(S) == CHOOSE x \in S : \A y \in S : y <= x
Within(t) == t >= hour - 1

(* kcidb_new_issues.  The highest version of the hour of every issue with  *)
(* no incident before the hour, joined with the first incident of the hour *)
(* among those of builds and with the first among those of boots; an issue *)
(* without either has a row of its own, without build_id or test_id.       *)
NewIds == {i \in IssueIds :
             /\ \E x \in issues : x[1] = i /\ Within(x[3])
             /\ \A inc \in seen : inc[1] = i => Within(inc[3])}
NewVersion(i) == Greatest({x[2] : x \in {y \in issues : y[1] = i /\ Within(y[3])}})
FirstKinds(i) == {k \in {"build", "boot"} : \E inc \in seen : inc[1] = i /\ inc[2] = k /\ Within(inc[3])}

NewIssues(kind) == {<<i, NewVersion(i)>> : i \in {j \in NewIds : kind \in FirstKinds(j)}}

(* kcidb_issue_details: the highest version, joined with the first incident*)
(* among those of builds and the first among those of tests.  Which of two *)
(* rows is the first is not said.                                          *)
Highest(i) == Greatest(IssueVersions(i))
KindsOf(i) ==
    LET first == {inc[2] : inc \in {x \in seen : x[1] = i}}
        tests == {inc \in seen : inc[1] = i /\ inc[2] # "build"}
        firstTest == {inc[2] : inc \in {x \in tests : \A y \in tests : x[3] <= y[3]}}
    IN  (first \intersect {"build"}) \union firstTest

-----------------------------------------------------------------------------
(* look_for_new_issues: one query, of which the builds are stored first,   *)
(* then the boots.  The stored keys are read once for each of the two.     *)
InSomeOrder(S) == {f \in [1..Cardinality(S) -> S] : \A x \in S : \E n \in DOMAIN f : f[n] = x}

NewIssuesStarts ==
    /\ command.at = "idle"
    /\ commands < MaxCommands
    /\ commands' = commands + 1
    /\ \E builds \in InSomeOrder(NewIssues("build")), boots \in InSomeOrder(NewIssues("boot")) :
         command' = [Quiet EXCEPT !.at = "builds", !.rows = builds, !.boots = boots,
                                  !.keys = DOMAIN stored, !.update = TRUE]
    /\ UNCHANGED <<hour, issues, seen, stored, listed, unstored, reported, toNobody>>

(* mark_issue_notification_not_sent, when nothing fails.                   *)
NotStored(k, type) ==
    IF k \in DOMAIN stored THEN stored
    ELSE [x \in DOMAIN stored \union {k} |->
            IF x = k THEN [type |-> type, sent |-> FALSE] ELSE stored[x]]

(* exclude_already_found_and_store, row by row.  A failure to store a row  *)
(* is swallowed, and its result not looked at: the row is listed anyway.   *)
FoundAlreadyById(k) == \E v \in 1..MaxVersion : v # k[2] /\ <<k[1], v>> \in command.keys
FoundAlready(k) == k \in command.keys

StoreNewIssue ==
    /\ command.at \in {"builds", "boots"}
    /\ command.rows # <<>>
    /\ LET k == Head(command.rows)
           kind == IF command.at = "builds" THEN "build" ELSE "boot"
       IN  \/ /\ FoundAlready(k)
              /\ command' = [command EXCEPT !.rows = Tail(@)]
              /\ UNCHANGED <<stored, unstored>>
           \/ /\ ~FoundAlready(k)
              /\ command' = [command EXCEPT !.rows = Tail(@), !.fresh = Append(@, <<k, kind>>)]
              /\ \/ stored' = NotStored(k, kind) /\ UNCHANGED unstored
                 \/ /\ Mishap(k)
                    /\ stored' = stored /\ unstored' = [unstored EXCEPT ![k] = @ + 1]
    /\ UNCHANGED <<hour, issues, seen, commands, listed, reported, toNobody>>

BuildsStored ==
    /\ command.at = "builds"
    /\ command.rows = <<>>
    /\ command' = [command EXCEPT !.at = "boots", !.rows = command.boots, !.boots = <<>>,
                                  !.keys = DOMAIN stored]
    /\ UNCHANGED <<hour, issues, seen, stored, commands, listed, unstored, reported, toNobody>>

(* The summary is mailed, or only printed; the reports follow either way.  *)
MailNewIssues ==
    /\ command.at = "boots"
    /\ command.rows = <<>>
    /\ LET new == {command.fresh[n][1] : n \in DOMAIN command.fresh}
           toReport == SelectSeq(command.fresh, LAMBDA x : x[2] = "build" /\ x[1][1] \in Maestro)
       IN  /\ \E mailed \in BOOLEAN :
                listed' = [k \in IssueKeys |-> listed[k] + IF mailed /\ k \in new THEN 1 ELSE 0]
           /\ command' = [command EXCEPT !.at = "reports", !.fresh = <<>>,
                            !.rows = [n \in DOMAIN toReport |-> toReport[n][1]]]
    /\ UNCHANGED <<hour, issues, seen, stored, commands, unstored, reported, toNobody>>

(* issue_report: --all asks about every unsent build issue.                *)
IssueReportStarts ==
    /\ command.at = "idle"
    /\ commands < MaxCommands
    /\ commands' = commands + 1
    /\ LET unsent == {k \in DOMAIN stored : ~stored[k].sent /\ stored[k].type = "build"}
           one == {<<i, 1>> : i \in IssueIds}
       IN  \E all, update \in BOOLEAN :
             \E rows \in IF all THEN InSomeOrder(unsent) ELSE {<<k>> : k \in one} :
               command' = [Quiet EXCEPT !.at = "reports", !.rows = rows, !.ask = all,
                                        !.update = update]
    /\ UNCHANGED <<hour, issues, seen, stored, listed, unstored, reported, toNobody>>

(* generate_issue_report knows the id only, and reports its highest        *)
(* version.  It exits when there is no such issue or no incident of it,    *)
(* and raises when the first test is not a boot or there is no passing     *)
(* test to compare with: CommandEnds.  An issue one asks to ignore is      *)
(* stored if it was not, without a type; a failure is swallowed.           *)
IgnoreIssue ==
    /\ command.at = "reports"
    /\ command.ask
    /\ command.rows # <<>>
    /\ LET i == Head(command.rows)[1]
       IN  stored' \in {stored, NotStored(<<i, Highest(i)>>, "none")}
    /\ command' = [command EXCEPT !.rows = Tail(@)]
    /\ UNCHANGED <<hour, issues, seen, commands, listed, unstored, reported, toNobody>>

(* mark_issue_notification_sent: a row of another type is not found, and   *)
(* another row of the issue cannot be created; any failure is swallowed.   *)
Marked(k, kind) ==
    IF k \notin DOMAIN stored \/ stored[k].type = kind
    THEN [x \in DOMAIN stored \union {k} |->
            IF x = k THEN [type |-> kind, sent |-> TRUE] ELSE stored[x]]
    ELSE stored

(* send_email_report: nothing is sent in a dry run or when one says no.    *)
(* Otherwise there is an id, also of a mail without recipients, which goes *)
(* to nobody.  The mail server refusing it raises: CommandEnds.            *)
Sendings == {"none", "nobody", "sent"}

(* generate_issue_report: a mail that got an id is marked.                 *)
MarksWanted(sending) == command.update
Marks(sending) == sending # "none" /\ command.update

ReportIssue ==
    /\ command.at = "reports"
    /\ command.rows # <<>>
    /\ LET i == Head(command.rows)[1]
           k == <<i, Highest(i)>>
       IN  /\ IssueVersions(i) # {}
           /\ \E kind \in KindsOf(i) \ {"test"}, sending \in Sendings, killed \in BOOLEAN :
                /\ killed => sending = "sent"
                /\ sending = "nobody" => Mishap(k)
                /\ reported' = [reported EXCEPT ![k] = IF sending = "sent" THEN @ + 1 ELSE @]
                /\ toNobody' = [toNobody EXCEPT ![k] = IF sending = "nobody" THEN @ + 1 ELSE @]
                /\ \/ Marks(sending) /\ ~killed /\ stored' = Marked(k, kind)
                   \/ stored' = stored
                /\ command' = IF killed THEN Quiet ELSE [command EXCEPT !.rows = Tail(@)]
    /\ UNCHANGED <<hour, issues, seen, commands, listed, unstored>>

(* The last report is done; or an exit, an exception or a kill.            *)
CommandEnds ==
    /\ command.at # "idle"
    /\ command' = Quiet
    /\ UNCHANGED <<hour, issues, seen, stored, commands, listed, unstored, reported, toNobody>>

IssueNext ==
    \/ HourPasses
    \/ \E i \in IssueIds : IssueArrives(i) \/ IncidentIsSeen(i)
    \/ NewIssuesStarts
    \/ StoreNewIssue
    \/ BuildsStored
    \/ MailNewIssues
    \/ IssueReportStarts
    \/ IgnoreIssue
    \/ ReportIssue
    \/ CommandEnds

IssueSpec == IssueInit /\ [][IssueNext]_issueVars

-----------------------------------------------------------------------------
(* Properties.                                                             *)

(* A version of an issue is in one summary of new issues, and in one more  *)
(* only for every time it could not be stored, however often the hour of   *)
(* its incidents is looked at, as a build and as a boot issue, and whatever*)
(* dies: it is stored before it is mailed (exclude_already_found_and_store,*)
(* look_for_new_issues).                                                   *)
ListedOnce == \A k \in IssueKeys : listed[k] <= 1 + unstored[k]

(* An issue marked as sent has a report that got an id, though the row of  *)
(* its key was written by another action or run, for another type or to be *)
(* ignored (mark_issue_notification_sent, mark_issue_notification_not_sent,*)
(* generate_issue_report).  Whether it was sent to anyone is another thing.*)
MarkedHasId == \A k \in DOMAIN stored : stored[k].sent => reported[k] + toNobody[k] > 0

(* smtp_send_email: what it returns is the "Message ID of the sent email", *)
(* so what is marked with one was sent.                                    *)
SentWasMailed == \A k \in DOMAIN stored : stored[k].sent => reported[k] > 0

(* models.py of the cache: "an issue can have at most 1 notification".     *)
OneNotification == \A k \in DOMAIN stored : stored[k].sent => reported[k] <= 1
=============================================================================
