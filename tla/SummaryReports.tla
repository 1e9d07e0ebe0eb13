--------------------------- MODULE SummaryReports ---------------------------
(***************************************************************************)
(* The "summary" action of the notifications command: for every tree that  *)
(* somebody subscribed to, the results of its last checkout are mailed,    *)
(* one mail per report of the tree's subscription file, unless the tree    *)
(* was reported lately.  What was mailed is noted in notifications_checkout*)
(* of another database, after the mail has gone.                           *)
(***************************************************************************)
EXTENDS Integers, FiniteSets

CONSTANTS
    Reports,      \* the reports of the subscription files
    TreeKeys,     \* (branch, giturl, origin)
    KeyOf,        \* [Reports -> TreeKeys]
    BranchOf,     \* [TreeKeys -> (branch, giturl)]
    Pathed,       \* the reports that name paths
    ResendAfter,  \* RESEND_INTERVAL
    IntervalMin, IntervalMax, \* the age of the checkouts that are reported
    MaxNow,       \* bound on the clock
    MaxSummaries, \* bound on the runs of the command
    MaxPushes     \* bound on the checkouts

NoKey == "none"

ASSUME SummaryAssumption ==
    /\ KeyOf \in [Reports -> TreeKeys]
    /\ TreeKeys = DOMAIN BranchOf
    /\ Pathed \subseteq Reports
    /\ NoKey \notin TreeKeys
    /\ ResendAfter \in Nat /\ IntervalMin \in Nat /\ IntervalMax \in Nat
    /\ MaxNow \in Nat /\ MaxSummaries \in Nat /\ MaxPushes \in Nat

VARIABLES
    now,
    pushed,      \* <<tree key, start_time>> of checkouts
    sentRows,    \* notifications_checkout: [key, path, at]
    summary,     \* the command: its options, the reports still to do, the one mailed
    summaries,
    mails        \* history: [report, run, began, skip, at, noted]

summaryVars == <<now, pushed, sentRows, summary, summaries, mails>>

-----------------------------------------------------------------------------
(* The path of a report without one is "%" everywhere.  A list of paths is *)
(* stored with str, in single quotes, and asked for with json.dumps.       *)
StoredPath(r) == IF r \in Pathed THEN <<"str", r>> ELSE <<"%", "">>
AskedPathAlways(r) == <<"json.dumps", r>>
AskedPath(r) == IF r \in Pathed THEN <<"json.dumps", r>> ELSE <<"%", "">>

NotRunningSummary ==
    [at |-> "idle", update |-> FALSE, skip |-> FALSE, began |-> 0, todo |-> {}, key |-> NoKey]

SummaryInit ==
    /\ now = 0
    /\ pushed = {}
    /\ sentRows = {}
    /\ summary = NotRunningSummary
    /\ summaries = 0
    /\ mails = {}

Tick ==
    /\ now < MaxNow
    /\ now' = now + 1
    /\ UNCHANGED <<pushed, sentRows, summary, summaries, mails>>

Push(k) ==
    /\ Cardinality(pushed) < MaxPushes
    /\ pushed' = pushed \union {<<k, now>>}
    /\ UNCHANGED <<now, sentRows, summary, summaries, mails>>

-----------------------------------------------------------------------------
ReportsOf(k) == {r \in Reports : KeyOf[r] = k}

(* check_sent_notifications: a tree one of whose reports was sent within   *)
(* the interval; discard_sent_reports drops it with all of its reports.    *)
SentLately(keys) ==
    {k \in keys : \E r \in ReportsOf(k), row \in sentRows :
        row.key = k /\ row.path = AskedPath(r) /\ row.at >= now - ResendAfter}

(* --skip-sent-reports: discard_sent_reports returns at once with it.      *)
Discarded(keys, skip) == IF skip THEN {} ELSE SentLately(keys)

(* get_checkout_summary_data: the last checkout in the window, of each     *)
(* (branch, giturl) and not of each tree, so one origin hides the other.   *)
InWindow == {p \in pushed : p[2] >= now - IntervalMax /\ p[2] <= now - IntervalMin}
Summarized(keys) ==
    LET here == {p \in InWindow : p[1] \in keys}
    IN  {k \in keys : \E p \in here :
            p[1] = k /\ \A q \in here : BranchOf[q[1]] = BranchOf[k] => q[2] <= p[2]}

(* The command looks at the subscription files of some origins.            *)
SummaryStarts ==
    /\ summary.at = "idle"
    /\ summaries < MaxSummaries
    /\ summaries' = summaries + 1
    /\ \E keys \in SUBSET TreeKeys, skip, update \in BOOLEAN :
         LET subscribed == {k \in keys : ReportsOf(k) # {}}
             records == Summarized(subscribed \ Discarded(subscribed, skip))
         IN  /\ records # {}
             /\ summary' = [at |-> "loop", update |-> update, skip |-> skip, began |-> now,
                            todo |-> UNION {ReportsOf(k) : k \in records}, key |-> NoKey]
    /\ UNCHANGED <<now, pushed, sentRows, mails>>

(* evaluate_test_results found nothing new and the report is not wanted    *)
(* always; or the mail is refused, or not to be sent, and is not noted.    *)
(* Two trees on one branch may tie for the last checkout: both are done.   *)
ReportSkipped(r) ==
    /\ summary.at = "loop"
    /\ r \in summary.todo
    /\ summary' = [summary EXCEPT !.todo = @ \ {r}]
    /\ UNCHANGED <<now, pushed, sentRows, summaries, mails>>

(* The mail got an id, whether or not it had recipients.                   *)
ReportMailed(r) ==
    /\ summary.at = "loop"
    /\ r \in summary.todo
    /\ mails' = mails \union {[report |-> r, run |-> summaries, began |-> summary.began,
                               skip |-> summary.skip, at |-> now, noted |-> FALSE]}
    /\ summary' = [summary EXCEPT !.todo = @ \ {r}, !.at = IF summary.update THEN "mailed" ELSE @,
                                  !.key = IF summary.update THEN r ELSE @]
    /\ UNCHANGED <<now, pushed, sentRows, summaries>>

(* mark_checkout_notification_as_sent, which swallows a failure.           *)
Note(r) == [key |-> KeyOf[r], path |-> StoredPath(r), at |-> now]
NoteStored ==
    /\ summary.at = "mailed"
    /\ LET r == summary.key
           this(mail) == mail.report = r /\ mail.run = summaries
       IN  \E stored \in BOOLEAN :
             /\ sentRows' = IF stored THEN sentRows \union {Note(r)} ELSE sentRows
             /\ mails' = {[mail EXCEPT !.noted = @ \/ (stored /\ this(mail))] : mail \in mails}
    /\ summary' = [summary EXCEPT !.at = "loop", !.key = NoKey]
    /\ UNCHANGED <<now, pushed, summaries>>

(* The loop ends; or a query fails, and the command exits; or the mail     *)
(* server raises, or the process is killed.                                *)
SummaryEnds ==
    /\ summary.at # "idle"
    /\ summary' = NotRunningSummary
    /\ UNCHANGED <<now, pushed, sentRows, summaries, mails>>

SummaryNext ==
    \/ Tick
    \/ \E k \in TreeKeys : Push(k)
    \/ SummaryStarts
    \/ \E r \in Reports : ReportSkipped(r) \/ ReportMailed(r)
    \/ NoteStored
    \/ SummaryEnds

SummarySpec == SummaryInit /\ [][SummaryNext]_summaryVars

-----------------------------------------------------------------------------
(* Properties.                                                             *)

(* A report without paths whose mail was noted is not mailed by a later    *)
(* run that begins within the interval, whatever the runs between have     *)
(* sent or failed to send; only --skip-sent-reports mails it again         *)
(* (discard_sent_reports, check_sent_notifications).                       *)
Again(mail) == {m \in mails : m.report = mail.report /\ m.run > mail.run}
NotMailedAgain ==
    \A mail \in mails : mail.noted /\ mail.report \notin Pathed =>
        \A again \in Again(mail) : again.skip \/ again.began > mail.at + ResendAfter

(* RESEND_INTERVAL: "if a report was sent now, it must wait this value     *)
(* until it can be sent again".                                            *)
ResendWaits ==
    \A mail \in mails : mail.noted => \A again \in Again(mail) : again.began > mail.at + ResendAfter
=============================================================================
