--------------------------- MODULE Notifications ---------------------------
(***************************************************************************)
(* The actions of the notifications command that remember what they sent:  *)
(* the summaries of trees and the reports of issues.  They share no table  *)
(* and no process; "action" says which of the two a behaviour follows.     *)
(***************************************************************************)
EXTENDS SummaryReports, IssueReports

VARIABLE action

notificationVars == <<action, summaryVars, issueVars>>

NotificationInit == SummaryInit /\ IssueInit /\ action \in {"summary", "issues"}

Summary == action = "summary" /\ SummaryNext /\ UNCHANGED issueVars
IssueReport == action = "issues" /\ IssueNext /\ UNCHANGED summaryVars

NotificationNext == (Summary \/ IssueReport) /\ UNCHANGED action

NotificationSpec == NotificationInit /\ [][NotificationNext]_notificationVars
=============================================================================
