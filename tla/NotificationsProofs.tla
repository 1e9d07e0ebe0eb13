------------------------- MODULE NotificationsProofs -------------------------
(***************************************************************************)
(* Theorems about the actions of the notifications command, for every      *)
(* value of their constants: first those about SummaryReports, then those  *)
(* about IssueReports, then both of the command that holds the two.        *)
(***************************************************************************)
EXTENDS Notifications, ListingStatusProofs, SequenceTheorems


Mail == [report : Reports, run : Nat, began : Nat, skip : BOOLEAN, at : Nat, noted : BOOLEAN]
SummaryState == [at : {"idle", "loop", "mailed"}, update : BOOLEAN, skip : BOOLEAN, began : Nat,
                 todo : SUBSET Reports, key : Reports \union {NoKey}]

SummaryTypes ==
    /\ now \in Nat
    /\ summaries \in Nat
    /\ summary \in SummaryState
    /\ mails \subseteq Mail
    /\ \A row \in sentRows : row.at \in Nat

(* Mails are of the past and of the runs there were.                       *)
MailsArePast == \A mail \in mails : mail.at <= now /\ mail.run <= summaries

(* A mail that was noted has a row, no older than it.                      *)
NotedIsStored ==
    \A mail \in mails : mail.noted =>
        \E row \in sentRows :
            row.key = KeyOf[mail.report] /\ row.path = StoredPath(mail.report) /\ row.at >= mail.at

(* What a run has still to mail was not mailed and noted too shortly before*)
(* it began, unless it was told not to look.                               *)
TodoIsDue ==
    summary.at # "idle" /\ ~summary.skip =>
        \A mail \in mails :
            mail.noted /\ mail.report \in summary.todo \ Pathed /\ mail.run < summaries =>
                summary.began > mail.at + ResendAfter

SummaryInvariant ==
    SummaryTypes /\ MailsArePast /\ NotedIsStored /\ TodoIsDue /\ NotMailedAgain

-----------------------------------------------------------------------------
LEMMA InitSummaryInvariant == SummaryInit => SummaryInvariant
BY DEF SummaryInit, SummaryInvariant, SummaryTypes, MailsArePast, NotedIsStored, TodoIsDue,
       NotMailedAgain, NotRunningSummary, SummaryState

LEMMA TimeStep ==
    ASSUME SummaryInvariant, Tick \/ \E k \in TreeKeys : Push(k)
    PROVE  SummaryInvariant'
<1>1. UNCHANGED <<sentRows, summary, summaries, mails>> /\ now' \in Nat /\ now' >= now
  BY DEF Tick, Push, SummaryInvariant, SummaryTypes
<1>2. SummaryTypes' /\ NotedIsStored' /\ TodoIsDue' /\ NotMailedAgain'
  BY <1>1 DEF SummaryInvariant, SummaryTypes, NotedIsStored, TodoIsDue, NotMailedAgain, Again
<1>3. MailsArePast'
  BY <1>1 DEF SummaryInvariant, SummaryTypes, MailsArePast, Mail
<1> QED
  BY <1>2, <1>3 DEF SummaryInvariant

(* A tree whose report has a row within the interval is not in the loop of *)
(* a run that looks (SentLately).                                          *)
LEMMA StartsStep ==
    ASSUME SummaryInvariant, SummaryStarts
    PROVE  SummaryInvariant'
<1>1. PICK keys \in SUBSET TreeKeys, skip \in BOOLEAN, update \in BOOLEAN :
        LET subscribed == {k \in keys : ReportsOf(k) # {}}
            records == Summarized(subscribed \ Discarded(subscribed, skip))
        IN  summary' = [at |-> "loop", update |-> update, skip |-> skip, began |-> now,
                        todo |-> UNION {ReportsOf(k) : k \in records}, key |-> NoKey]
  BY DEF SummaryStarts
<1> DEFINE subscribed == {k \in keys : ReportsOf(k) # {}}
           records == Summarized(subscribed \ Discarded(subscribed, skip))
<1>2. records \subseteq subscribed \ Discarded(subscribed, skip)
  BY DEF Summarized
<1>3. summary' = [at |-> "loop", update |-> update, skip |-> skip, began |-> now,
                  todo |-> UNION {ReportsOf(k) : k \in records}, key |-> NoKey]
  BY <1>1
<1>4. summaries' = summaries + 1 /\ UNCHANGED <<now, sentRows, mails>>
  BY DEF SummaryStarts
<1> HIDE DEF records
<1>5. UNION {ReportsOf(k) : k \in records} \subseteq Reports
  BY DEF ReportsOf
<1>6. SummaryTypes'
  BY <1>3, <1>4, <1>5 DEF SummaryInvariant, SummaryTypes, SummaryState
<1>7. MailsArePast' /\ NotedIsStored' /\ NotMailedAgain'
  BY <1>4 DEF SummaryInvariant, SummaryTypes, MailsArePast, NotedIsStored, NotMailedAgain,
              Again, Mail
<1>8. TodoIsDue'
  <2> SUFFICES ASSUME ~skip, NEW mail \in mails, mail.noted,
                      mail.report \in UNION {ReportsOf(k) : k \in records},
                      mail.report \notin Pathed
               PROVE  now > mail.at + ResendAfter
    BY <1>3, <1>4 DEF TodoIsDue
  <2>1. PICK k \in records : mail.report \in ReportsOf(k)
    OBVIOUS
  <2>2. k \in subscribed /\ k \notin SentLately(subscribed)
    BY <1>2 DEF Discarded
  <2>3. PICK row \in sentRows :
          row.key = KeyOf[mail.report] /\ row.path = StoredPath(mail.report) /\ row.at >= mail.at
    BY DEF SummaryInvariant, NotedIsStored
  <2>4. row.key = k /\ row.path = AskedPath(mail.report)
    BY <2>1, <2>3 DEF ReportsOf, StoredPath, AskedPath
  <2>5. ~(row.at >= now - ResendAfter)
    BY <2>1, <2>2, <2>4 DEF SentLately
  <2>6. now \in Nat /\ row.at \in Nat /\ mail.at \in Nat /\ ResendAfter \in Nat
    BY SummaryAssumption DEF SummaryInvariant, SummaryTypes, Mail
  <2> QED BY <2>3, <2>5, <2>6
<1> QED
  BY <1>6, <1>7, <1>8 DEF SummaryInvariant

LEMMA SkippedStep ==
    ASSUME SummaryInvariant, NEW r \in Reports, ReportSkipped(r)
    PROVE  SummaryInvariant'
<1>1. /\ summary' = [summary EXCEPT !.todo = @ \ {r}]
      /\ summary.at # "idle"
      /\ UNCHANGED <<now, sentRows, summaries, mails>>
  BY DEF ReportSkipped
<1>2. SummaryTypes' /\ MailsArePast' /\ NotedIsStored' /\ NotMailedAgain'
  BY <1>1 DEF SummaryInvariant, SummaryTypes, SummaryState, MailsArePast, NotedIsStored,
              NotMailedAgain, Again
<1>3. summary'.todo \subseteq summary.todo /\ summary'.skip = summary.skip
      /\ summary'.began = summary.began
  BY <1>1 DEF SummaryInvariant, SummaryTypes, SummaryState
<1>4. TodoIsDue'
  BY <1>1, <1>3 DEF SummaryInvariant, TodoIsDue
<1> QED
  BY <1>2, <1>4 DEF SummaryInvariant

(* The new mail is of the last run: nothing is mailed after it, and what   *)
(* was mailed before it is old enough.                                     *)
LEMMA MailedStep ==
    ASSUME SummaryInvariant, NEW r \in Reports, ReportMailed(r)
    PROVE  SummaryInvariant'
<1> DEFINE new == [report |-> r, run |-> summaries, began |-> summary.began,
                   skip |-> summary.skip, at |-> now, noted |-> FALSE]
<1>1. /\ summary.at # "idle" /\ r \in summary.todo
      /\ mails' = mails \union {new}
      /\ summary' = [summary EXCEPT !.todo = @ \ {r},
                       !.at = IF summary.update THEN "mailed" ELSE @,
                       !.key = IF summary.update THEN r ELSE @]
      /\ UNCHANGED <<now, sentRows, summaries>>
  BY DEF ReportMailed
<1>2. new \in Mail /\ new.report = r /\ new.run = summaries /\ new.began = summary.began
      /\ new.skip = summary.skip /\ new.at = now /\ new.noted = FALSE
  BY DEF SummaryInvariant, SummaryTypes, SummaryState, Mail
<1>3. /\ summary' \in SummaryState
      /\ summary'.todo \subseteq summary.todo /\ summary'.skip = summary.skip
      /\ summary'.began = summary.began
  BY <1>1 DEF SummaryInvariant, SummaryTypes, SummaryState
<1> HIDE DEF new
<1>4. SummaryTypes'
  BY <1>1, <1>2, <1>3 DEF SummaryInvariant, SummaryTypes
<1>5. MailsArePast' /\ NotedIsStored'
  BY <1>1, <1>2 DEF SummaryInvariant, SummaryTypes, MailsArePast, NotedIsStored
<1>6. TodoIsDue'
  BY <1>1, <1>2, <1>3 DEF SummaryInvariant, TodoIsDue
<1>7. NotMailedAgain'
  <2> SUFFICES ASSUME NEW mail \in mails', mail.noted, mail.report \notin Pathed,
                      NEW again \in mails', again.report = mail.report, again.run > mail.run
               PROVE  again.skip \/ again.began > mail.at + ResendAfter
    BY DEF NotMailedAgain, Again
  <2>1. mail \in mails
    BY <1>1, <1>2
  <2>2. CASE again \in mails
    BY <2>1, <2>2 DEF SummaryInvariant, NotMailedAgain, Again
  <2>3. CASE again = new
    <3>1. mail.run < summaries /\ mail.report = r
      BY <1>2, <2>1, <2>3 DEF SummaryInvariant, SummaryTypes, Mail
    <3> QED BY <1>1, <1>2, <2>1, <2>3, <3>1 DEF SummaryInvariant, TodoIsDue
  <2> QED BY <1>1, <2>2, <2>3
<1> QED
  BY <1>4, <1>5, <1>6, <1>7 DEF SummaryInvariant

(* Noting a mail changes neither its time nor its run; it is of the run    *)
(* that is going on, which no mail follows yet.                            *)
LEMMA NoteStep ==
    ASSUME SummaryInvariant, NoteStored
    PROVE  SummaryInvariant'
<1> DEFINE r == summary.key
           this(mail) == mail.report = r /\ mail.run = summaries
<1>1. PICK done \in BOOLEAN :
        /\ sentRows' = IF done THEN sentRows \union {Note(r)} ELSE sentRows
        /\ mails' = {[mail EXCEPT !.noted = @ \/ (done /\ this(mail))] : mail \in mails}
  BY DEF NoteStored
<1>2. /\ summary' = [summary EXCEPT !.at = "loop", !.key = NoKey]
      /\ summary.at # "idle"
      /\ UNCHANGED <<now, summaries>>
  BY DEF NoteStored
<1>3. ASSUME NEW m \in mails'
      PROVE  \E mail \in mails :
               /\ m \in Mail
               /\ m.report = mail.report /\ m.run = mail.run /\ m.began = mail.began
               /\ m.skip = mail.skip /\ m.at = mail.at
               /\ m.noted => mail.noted \/ (done /\ this(mail))
  <2>1. PICK mail \in mails : m = [mail EXCEPT !.noted = @ \/ (done /\ this(mail))]
    BY <1>1
  <2>2. mail \in Mail
    BY DEF SummaryInvariant, SummaryTypes
  <2>3. (mail.noted \/ (done /\ this(mail))) \in BOOLEAN
    OBVIOUS
  <2> DEFINE noted == mail.noted \/ (done /\ this(mail))
  <2>4. m = [mail EXCEPT !.noted = noted]
    BY <2>1
  <2> HIDE DEF noted
  <2>5. /\ m \in Mail /\ m.noted = noted
        /\ m.report = mail.report /\ m.run = mail.run /\ m.began = mail.began
        /\ m.skip = mail.skip /\ m.at = mail.at
    BY <2>2, <2>3, <2>4 DEF Mail, noted
  <2> QED BY <2>5 DEF noted
<1>4. /\ summary' \in SummaryState
      /\ summary'.todo = summary.todo /\ summary'.skip = summary.skip
      /\ summary'.began = summary.began
  BY <1>2 DEF SummaryInvariant, SummaryTypes, SummaryState
<1>5. Note(r).key = KeyOf[r] /\ Note(r).path = StoredPath(r) /\ Note(r).at = now
  BY DEF Note
<1> HIDE DEF this, r
<1>6. SummaryTypes'
  BY <1>1, <1>2, <1>3, <1>4, <1>5 DEF SummaryInvariant, SummaryTypes
<1>7. MailsArePast'
  <2> SUFFICES ASSUME NEW m \in mails' PROVE m.at <= now /\ m.run <= summaries
    BY <1>2 DEF MailsArePast
  <2> QED BY <1>3 DEF SummaryInvariant, MailsArePast
<1>8. NotedIsStored'
  <2> SUFFICES ASSUME NEW m \in mails', m.noted
               PROVE  \E row \in sentRows' :
                        /\ row.key = KeyOf[m.report] /\ row.path = StoredPath(m.report)
                        /\ row.at >= m.at
    BY DEF NotedIsStored, StoredPath
  <2>1. PICK mail \in mails :
          /\ m.report = mail.report /\ m.at = mail.at
          /\ mail.noted \/ (done /\ this(mail))
    BY <1>3
  <2>2. CASE mail.noted
    <3>1. PICK row \in sentRows :
            row.key = KeyOf[mail.report] /\ row.path = StoredPath(mail.report) /\ row.at >= mail.at
      BY <2>2 DEF SummaryInvariant, NotedIsStored
    <3>2. row \in sentRows'
      BY <1>1
    <3> QED BY <2>1, <3>1, <3>2
  <2>3. CASE done /\ this(mail)
    <3>1. mail.report = r /\ Note(r) \in sentRows'
      BY <1>1, <2>3 DEF this
    <3>2. now >= mail.at
      BY DEF SummaryInvariant, SummaryTypes, MailsArePast, Mail
    <3> QED BY <1>5, <2>1, <3>1, <3>2
  <2> QED BY <2>1, <2>2, <2>3
<1>9. TodoIsDue'
  <2> SUFFICES ASSUME ~summary.skip, NEW m \in mails', m.noted,
                      m.report \in summary.todo \ Pathed, m.run < summaries
               PROVE  summary.began > m.at + ResendAfter
    BY <1>2, <1>4 DEF TodoIsDue
  <2>1. PICK mail \in mails :
          /\ m.report = mail.report /\ m.run = mail.run /\ m.at = mail.at
          /\ mail.noted \/ (done /\ this(mail))
    BY <1>3
  <2>2. mail.noted
    BY <2>1 DEF this, SummaryInvariant, SummaryTypes, Mail
  <2> QED BY <1>2, <2>1, <2>2 DEF SummaryInvariant, TodoIsDue
<1>10. NotMailedAgain'
  <2> SUFFICES ASSUME NEW m \in mails', m.noted, m.report \notin Pathed,
                      NEW n \in mails', n.report = m.report, n.run > m.run
               PROVE  n.skip \/ n.began > m.at + ResendAfter
    BY DEF NotMailedAgain, Again
  <2>1. PICK mail \in mails :
          /\ m.report = mail.report /\ m.run = mail.run /\ m.at = mail.at
          /\ mail.noted \/ (done /\ this(mail))
    BY <1>3
  <2>2. PICK again \in mails :
          /\ n.report = again.report /\ n.run = again.run /\ n.began = again.began
          /\ n.skip = again.skip
    BY <1>3
  <2>3. mail.noted
    <3>1. again.run <= summaries /\ again.run \in Nat /\ summaries \in Nat
      BY DEF SummaryInvariant, SummaryTypes, MailsArePast, Mail
    <3> QED BY <2>1, <2>2, <3>1 DEF this
  <2> QED BY <2>1, <2>2, <2>3 DEF SummaryInvariant, NotMailedAgain, Again
<1> QED
  BY <1>6, <1>7, <1>8, <1>9, <1>10 DEF SummaryInvariant

LEMMA EndsStep ==
    ASSUME SummaryInvariant, SummaryEnds
    PROVE  SummaryInvariant'
<1>1. summary'.at = "idle" /\ summary' \in SummaryState
  BY DEF SummaryEnds, NotRunningSummary, SummaryState
<1>2. UNCHANGED <<now, sentRows, summaries, mails>>
  BY DEF SummaryEnds
<1> QED
  BY <1>1, <1>2 DEF SummaryInvariant, SummaryTypes, MailsArePast, NotedIsStored, TodoIsDue,
                    NotMailedAgain, Again

LEMMA NextSummaryInvariant ==
    SummaryInvariant /\ [SummaryNext]_summaryVars => SummaryInvariant'
<1> SUFFICES ASSUME SummaryInvariant, [SummaryNext]_summaryVars
             PROVE  SummaryInvariant'
  OBVIOUS
<1>1. CASE UNCHANGED summaryVars
  BY <1>1 DEF summaryVars, SummaryInvariant, SummaryTypes, MailsArePast, NotedIsStored,
              TodoIsDue, NotMailedAgain, Again
<1>2. CASE SummaryNext
  BY <1>2, TimeStep, StartsStep, SkippedStep, MailedStep, NoteStep, EndsStep DEF SummaryNext
<1> QED
  BY <1>1, <1>2

(* A report that was mailed and noted waits, for any files, trees, runs,   *)
(* refused mails and failed notes.                                         *)
THEOREM NotMailedAgainAlways == SummarySpec => []NotMailedAgain
<1>1. SummaryInvariant => NotMailedAgain
  BY DEF SummaryInvariant
<1> QED
  BY <1>1, InitSummaryInvariant, NextSummaryInvariant, PTL DEF SummarySpec

-----------------------------------------------------------------------------

Listing == command.at \in {"builds", "boots"}

CommandFields == {"at", "rows", "boots", "keys", "fresh", "ask", "update"}

(* What the proofs need to know of the types.                              *)
IssueTypes ==
    /\ issues \subseteq IssueIds \X (1..MaxVersion) \X Nat
    /\ hour \in Nat
    /\ listed \in [IssueKeys -> Nat]
    /\ unstored \in [IssueKeys -> Nat]
    /\ reported \in [IssueKeys -> Nat]
    /\ toNobody \in [IssueKeys -> Nat]
    /\ DOMAIN command = CommandFields
    /\ command.at \in {"idle", "builds", "boots", "reports"}
    /\ Listing => /\ command.rows \in Seq(IssueKeys)
                  /\ command.boots \in Seq(IssueKeys)
                  /\ command.fresh \in Seq(IssueKeys \X Kinds)

(* A version is listed once while it is stored, and before that only by    *)
(* runs that failed to store it; a run that may list it once more has not  *)
(* found its key, which is of before.  The versions a run is about to list *)
(* are stored by it, or it has failed to.                                  *)
ListedIsKnown ==
    /\ \A k \in IssueKeys : listed[k] <= 1 + unstored[k]
    /\ \A k \in IssueKeys \ DOMAIN stored : listed[k] <= unstored[k]
    /\ Listing =>
         /\ command.keys \subseteq DOMAIN stored
         /\ \A k \in IssueKeys \ command.keys : listed[k] <= unstored[k]
         /\ \A n \in DOMAIN command.fresh :
              LET k == command.fresh[n][1]
              IN  /\ listed[k] <= unstored[k]
                  /\ k \in DOMAIN stored \/ listed[k] < unstored[k]

(* A mark is on a version that exists and has a mail with an id.           *)
MarksHaveIds ==
    \A k \in DOMAIN stored :
        stored[k].sent => k \in IssueKeys /\ reported[k] + toNobody[k] > 0

IssueInvariant == IssueTypes /\ ListedIsKnown /\ MarksHaveIds

-----------------------------------------------------------------------------
(* The greatest of some versions is one of them.                           *)
LEMMA GreatestVersion ==
    ASSUME NEW S \in SUBSET (1..MaxVersion), S # {}
    PROVE  Greatest(S) \in S
<1>1. S \in SUBSET Nat /\ IsFiniteSet(S)
  <2>1. MaxVersion \in Int /\ 1 \in Int
    BY IssueAssumption
  <2>2. IsFiniteSet(1..MaxVersion)
    BY <2>1, FS_Interval
  <2>3. IsFiniteSet(S)
    BY <2>2, FS_Subset
  <2> QED BY <2>3
<1>2. \E x \in S : \A y \in S : y <= x
  BY <1>1, GreatestExists
<1>3. Greatest(S) = CHOOSE x \in S : \A y \in S : y <= x
  BY DEF Greatest
<1> QED
  BY <1>2, <1>3

LEMMA HighestIsKey ==
    ASSUME IssueTypes, NEW i, IssueVersions(i) # {}
    PROVE  <<i, Highest(i)>> \in IssueKeys
<1>1. IssueVersions(i) \in SUBSET (1..MaxVersion)
  BY DEF IssueVersions, IssueTypes
<1>2. Highest(i) \in 1..MaxVersion
  BY <1>1, GreatestVersion DEF Highest
<1>3. PICK y \in issues : y[1] = i
  BY DEF IssueVersions
<1>4. i \in IssueIds
  BY <1>3 DEF IssueTypes
<1> QED
  BY <1>2, <1>4 DEF IssueKeys

(* The rows of a query, in whatever order they come.                       *)
LEMMA OrderIsSeq ==
    ASSUME IssueTypes, NEW kind, NEW f \in InSomeOrder(NewIssues(kind))
    PROVE  f \in Seq(IssueKeys)
<1>1. NewIssues(kind) \subseteq IssueKeys
  <2> SUFFICES ASSUME NEW i \in NewIds
               PROVE  <<i, NewVersion(i)>> \in IssueKeys
    BY DEF NewIssues
  <2> DEFINE S == {x[2] : x \in {y \in issues : y[1] = i /\ Within(y[3])}}
  <2>1. S \in SUBSET (1..MaxVersion)
    BY DEF IssueTypes
  <2>2. S # {}
    BY DEF NewIds
  <2>3. NewVersion(i) \in 1..MaxVersion
    BY <2>1, <2>2, GreatestVersion DEF NewVersion
  <2> QED BY <2>3 DEF NewIds, IssueKeys
<1>2. IsFiniteSet(IssueKeys)
  <2>1. MaxVersion \in Int /\ 1 \in Int /\ IsFiniteSet(IssueIds)
    BY IssueAssumption
  <2>2. IsFiniteSet(1..MaxVersion)
    BY <2>1, FS_Interval
  <2> QED BY <2>1, <2>2, FS_Product DEF IssueKeys
<1>3. IsFiniteSet(NewIssues(kind))
  BY <1>1, <1>2, FS_Subset
<1>4. Cardinality(NewIssues(kind)) \in Nat
  BY <1>3, FS_CardinalityType
<1> DEFINE n == Cardinality(NewIssues(kind))
<1>5. f \in [1..n -> NewIssues(kind)]
  BY DEF InSomeOrder
<1>6. f \in [1..n -> IssueKeys]
  <2> HIDE DEF n
  <2> QED BY <1>1, <1>5
<1> QED
  BY <1>4, <1>6, SeqDef

(* Storing a version that is not sent keeps the others.                    *)
LEMMA NotStoredFacts ==
    ASSUME NEW k, NEW type
    PROVE  /\ DOMAIN NotStored(k, type) = DOMAIN stored \union {k}
           /\ \A x \in DOMAIN stored : NotStored(k, type)[x] = stored[x]
           /\ k \notin DOMAIN stored => NotStored(k, type)[k].sent = FALSE
BY DEF NotStored

LEMMA NotStoredMarks ==
    ASSUME MarksHaveIds, NEW k, NEW type,
           stored' = NotStored(k, type), reported' = reported, toNobody' = toNobody
    PROVE  MarksHaveIds'
<1>1. CASE k \in DOMAIN stored
  BY <1>1 DEF NotStored, MarksHaveIds
<1>2. CASE k \notin DOMAIN stored
  <2> DEFINE new == [x \in DOMAIN stored \union {k} |->
                       IF x = k THEN [type |-> type, sent |-> FALSE] ELSE stored[x]]
  <2>1. stored' = new
    BY <1>2 DEF NotStored
  <2>2. \A x \in DOMAIN stored : new[x] = stored[x]
    BY <1>2
  <2>3. ~new[k].sent
    OBVIOUS
  <2>4. DOMAIN new = DOMAIN stored \union {k}
    OBVIOUS
  <2> HIDE DEF new
  <2> QED BY <2>1, <2>2, <2>3, <2>4, Zenon DEF MarksHaveIds
<1> QED
  BY <1>1, <1>2

LEMMA MarkedFacts ==
    ASSUME NEW k, NEW kind
    PROVE  /\ DOMAIN stored \subseteq DOMAIN Marked(k, kind)
           /\ \A x \in DOMAIN Marked(k, kind) :
                x = k \/ (x \in DOMAIN stored /\ Marked(k, kind)[x] = stored[x])
BY DEF Marked

-----------------------------------------------------------------------------
LEMMA InitIssueInvariant == IssueInit => IssueInvariant
BY IssueAssumption, EmptySeq
   DEF IssueInit, IssueInvariant, IssueTypes, ListedIsKnown, MarksHaveIds, Listing, Quiet,
       CommandFields

(* The time and the ingester touch nothing the command has stored.         *)
LEMMA OutsideStep ==
    ASSUME IssueInvariant,
           HourPasses \/ \E i \in IssueIds : IssueArrives(i) \/ IncidentIsSeen(i)
    PROVE  IssueInvariant'
<1>1. UNCHANGED <<stored, command, listed, unstored, reported, toNobody>>
  BY DEF HourPasses, IssueArrives, IncidentIsSeen
<1>2. issues' \subseteq IssueIds \X (1..MaxVersion) \X Nat /\ hour' \in Nat
  <2>1. CASE HourPasses
    BY <2>1 DEF HourPasses, IssueInvariant, IssueTypes
  <2>2. CASE \E i \in IssueIds : IssueArrives(i)
    <3>1. PICK i \in IssueIds : IssueArrives(i)
      BY <2>2
    <3>2. PICK v \in 1..MaxVersion :
            issues' = {x \in issues : <<x[1], x[2]>> # <<i, v>>} \union {<<i, v, hour>>}
      BY <3>1 DEF IssueArrives
    <3> QED BY <3>1, <3>2 DEF IssueArrives, IssueInvariant, IssueTypes
  <2>3. CASE \E i \in IssueIds : IncidentIsSeen(i)
    BY <2>3 DEF IncidentIsSeen, IssueInvariant, IssueTypes
  <2> QED BY <2>1, <2>2, <2>3
<1> QED
  BY <1>1, <1>2 DEF IssueInvariant, IssueTypes, ListedIsKnown, MarksHaveIds, Listing

LEMMA StartStep ==
    ASSUME IssueInvariant, NewIssuesStarts
    PROVE  IssueInvariant'
<1>1. PICK builds \in InSomeOrder(NewIssues("build")), boots \in InSomeOrder(NewIssues("boot")) :
        command' = [Quiet EXCEPT !.at = "builds", !.rows = builds, !.boots = boots,
                                 !.keys = DOMAIN stored, !.update = TRUE]
  BY DEF NewIssuesStarts
<1>2. /\ command'.at = "builds" /\ command'.rows = builds /\ command'.boots = boots
      /\ command'.keys = DOMAIN stored /\ command'.fresh = <<>>
      /\ DOMAIN command' = CommandFields
  BY <1>1 DEF Quiet, CommandFields
<1>3. builds \in Seq(IssueKeys) /\ boots \in Seq(IssueKeys)
  BY OrderIsSeq DEF IssueInvariant
<1>4. <<>> \in Seq(IssueKeys \X Kinds) /\ DOMAIN <<>> = {}
  BY EmptySeq
<1>5. UNCHANGED <<hour, issues, stored, listed, unstored, reported, toNobody>>
  BY DEF NewIssuesStarts
<1> QED
  BY <1>2, <1>3, <1>4, <1>5
     DEF IssueInvariant, IssueTypes, ListedIsKnown, MarksHaveIds, Listing

(* A row is listed whether it was stored or not; it is new if the run did  *)
(* not read its key, so no summary had it but of runs that failed.         *)
LEMMA StoreStep ==
    ASSUME IssueInvariant, StoreNewIssue
    PROVE  IssueInvariant'
<1> DEFINE k == Head(command.rows)
           kind == IF command.at = "builds" THEN "build" ELSE "boot"
           rest == Tail(command.rows)
           fresh == Append(command.fresh, <<k, kind>>)
<1>1. /\ Listing /\ command.rows # <<>>
      /\ UNCHANGED <<hour, issues, listed, reported, toNobody>>
  BY DEF StoreNewIssue, Listing
<1>2. \/ /\ command' = [command EXCEPT !.rows = rest]
         /\ UNCHANGED <<stored, unstored>>
      \/ /\ ~FoundAlready(k) /\ command' = [command EXCEPT !.rows = rest, !.fresh = fresh]
         /\ \/ stored' = NotStored(k, kind) /\ UNCHANGED unstored
            \/ stored' = stored /\ unstored' = [unstored EXCEPT ![k] = @ + 1]
  BY DEF StoreNewIssue
<1>3. k \in IssueKeys /\ rest \in Seq(IssueKeys)
  BY <1>1, HeadTailProperties DEF IssueInvariant, IssueTypes
<1>4. command.fresh \in Seq(IssueKeys \X Kinds)
  BY <1>1 DEF IssueInvariant, IssueTypes
<1> HIDE DEF kind
<1>5. kind \in Kinds
  BY DEF kind, Kinds
<1>6. /\ fresh \in Seq(IssueKeys \X Kinds)
      /\ \A n \in DOMAIN fresh :
           \/ n \in DOMAIN command.fresh /\ fresh[n] = command.fresh[n]
           \/ fresh[n] = <<k, kind>>
  BY <1>3, <1>4, <1>5
<1> HIDE DEF k, rest, fresh
<1>7. CASE command' = [command EXCEPT !.rows = rest] /\ UNCHANGED <<stored, unstored>>
  BY <1>1, <1>3, <1>7
     DEF IssueInvariant, IssueTypes, ListedIsKnown, MarksHaveIds, Listing, CommandFields
<1>8. CASE /\ ~FoundAlready(k) /\ command' = [command EXCEPT !.rows = rest, !.fresh = fresh]
           /\ \/ stored' = NotStored(k, kind) /\ UNCHANGED unstored
              \/ stored' = stored /\ unstored' = [unstored EXCEPT ![k] = @ + 1]
  <2>1. /\ command'.at = command.at /\ command'.keys = command.keys
        /\ command'.boots = command.boots
        /\ command'.rows = rest /\ command'.fresh = fresh
        /\ DOMAIN command' = DOMAIN command
    BY <1>8 DEF IssueInvariant, IssueTypes, CommandFields
  <2>2. /\ unstored' \in [IssueKeys -> Nat]
        /\ \A x \in IssueKeys : unstored'[x] >= unstored[x]
        /\ k \in DOMAIN stored' \/ unstored'[k] > unstored[k]
        /\ DOMAIN stored \subseteq DOMAIN stored'
    <3>1. unstored \in [IssueKeys -> Nat]
      BY DEF IssueInvariant, IssueTypes
    <3>2. CASE stored' = NotStored(k, kind) /\ UNCHANGED unstored
      <4>1. DOMAIN stored' = DOMAIN stored \union {k}
        BY <3>2, NotStoredFacts
      <4> QED BY <3>1, <3>2, <4>1
    <3>3. CASE stored' = stored /\ unstored' = [unstored EXCEPT ![k] = @ + 1]
      BY <1>3, <3>1, <3>3
    <3> QED BY <1>8, <3>2, <3>3
  <2>3. MarksHaveIds'
    <3>1. CASE stored' = NotStored(k, kind)
      BY <1>1, <3>1, NotStoredMarks DEF IssueInvariant
    <3>2. CASE stored' = stored
      BY <1>1, <3>2 DEF IssueInvariant, MarksHaveIds
    <3> QED BY <1>8, <3>1, <3>2
  <2>4. IssueTypes'
    BY <1>1, <1>3, <1>6, <2>1, <2>2 DEF IssueInvariant, IssueTypes, Listing
  <2>5. listed \in [IssueKeys -> Nat] /\ unstored \in [IssueKeys -> Nat]
    BY DEF IssueInvariant, IssueTypes
  <2>6. listed[k] <= unstored[k]
    BY <1>1, <1>3, <1>8 DEF FoundAlready, IssueInvariant, ListedIsKnown
  <2>7. \A n \in DOMAIN fresh :
          /\ listed[fresh[n][1]] <= unstored'[fresh[n][1]]
          /\ fresh[n][1] \in DOMAIN stored' \/ listed[fresh[n][1]] < unstored'[fresh[n][1]]
    <3> SUFFICES ASSUME NEW n \in DOMAIN fresh
                 PROVE  /\ listed[fresh[n][1]] <= unstored'[fresh[n][1]]
                        /\ \/ fresh[n][1] \in DOMAIN stored'
                           \/ listed[fresh[n][1]] < unstored'[fresh[n][1]]
      OBVIOUS
    <3>1. CASE fresh[n] = <<k, kind>>
      BY <1>3, <2>2, <2>5, <2>6, <3>1
    <3>2. CASE n \in DOMAIN command.fresh /\ fresh[n] = command.fresh[n]
      <4>1. /\ listed[fresh[n][1]] <= unstored[fresh[n][1]]
            /\ fresh[n][1] \in DOMAIN stored \/ listed[fresh[n][1]] < unstored[fresh[n][1]]
        BY <1>1, <3>2 DEF IssueInvariant, ListedIsKnown
      <4>2. fresh[n][1] \in IssueKeys
        BY <1>4, <3>2
      <4> QED BY <2>2, <2>5, <4>1, <4>2
    <3> QED BY <1>6, <3>1, <3>2
  <2>8. ListedIsKnown'
    BY <1>1, <2>1, <2>2, <2>5, <2>7 DEF IssueInvariant, ListedIsKnown, Listing
  <2> QED BY <2>3, <2>4, <2>8 DEF IssueInvariant
<1> QED
  BY <1>2, <1>7, <1>8

LEMMA BuildsStoredStep ==
    ASSUME IssueInvariant, BuildsStored
    PROVE  IssueInvariant'
<1>1. /\ Listing
      /\ command'.at = "boots" /\ command'.rows = command.boots /\ command'.boots = <<>>
      /\ command'.keys = DOMAIN stored /\ command'.fresh = command.fresh
      /\ DOMAIN command' = CommandFields
  BY DEF BuildsStored, Listing, IssueInvariant, IssueTypes, CommandFields
<1>2. <<>> \in Seq(IssueKeys)
  BY EmptySeq
<1>3. UNCHANGED <<hour, issues, stored, listed, unstored, reported, toNobody>>
  BY DEF BuildsStored
<1> QED
  BY <1>1, <1>2, <1>3
     DEF IssueInvariant, IssueTypes, ListedIsKnown, MarksHaveIds, Listing

(* The summary lists each of the new versions once more: once.             *)
LEMMA MailStep ==
    ASSUME IssueInvariant, MailNewIssues
    PROVE  IssueInvariant'
<1> DEFINE new == {command.fresh[n][1] : n \in DOMAIN command.fresh}
<1>1. PICK mailed \in BOOLEAN :
        listed' = [k \in IssueKeys |-> listed[k] + IF mailed /\ k \in new THEN 1 ELSE 0]
  BY DEF MailNewIssues
<1>2. Listing /\ command'.at = "reports" /\ DOMAIN command' = CommandFields
  BY DEF MailNewIssues, Listing, IssueInvariant, IssueTypes, CommandFields
<1>3. UNCHANGED <<hour, issues, stored, unstored, reported, toNobody>>
  BY DEF MailNewIssues
<1>4. \A k \in new : /\ listed[k] <= unstored[k]
                     /\ k \in DOMAIN stored \/ listed[k] < unstored[k]
  BY <1>2 DEF IssueInvariant, ListedIsKnown
<1> HIDE DEF new
<1>5. listed' \in [IssueKeys -> Nat] /\ unstored \in [IssueKeys -> Nat]
  BY <1>1 DEF IssueInvariant, IssueTypes
<1>6. /\ \A k \in IssueKeys : listed'[k] <= 1 + unstored[k]
      /\ \A k \in IssueKeys \ DOMAIN stored : listed'[k] <= unstored[k]
  <2>1. /\ listed \in [IssueKeys -> Nat]
        /\ \A k \in IssueKeys : listed[k] <= 1 + unstored[k]
        /\ \A k \in IssueKeys \ DOMAIN stored : listed[k] <= unstored[k]
    BY DEF IssueInvariant, IssueTypes, ListedIsKnown
  <2>2. ASSUME NEW k \in IssueKeys
        PROVE  listed'[k] = listed[k] \/ (k \in new /\ listed'[k] = listed[k] + 1)
    BY <1>1, <2>1
  <2> QED BY <1>4, <1>5, <2>1, <2>2
<1> QED
  BY <1>2, <1>3, <1>5, <1>6
     DEF IssueInvariant, IssueTypes, ListedIsKnown, MarksHaveIds, Listing

(* The reports: a version is marked only in the step that gives it an id.  *)
LEMMA ReportStep ==
    ASSUME IssueInvariant, ReportIssue
    PROVE  IssueInvariant'
<1> DEFINE i == Head(command.rows)[1]
           k == <<i, Highest(i)>>
<1>1. PICK kind \in KindsOf(i) \ {"test"}, sending \in Sendings, killed \in BOOLEAN :
        /\ reported' = [reported EXCEPT ![k] = IF sending = "sent" THEN @ + 1 ELSE @]
        /\ toNobody' = [toNobody EXCEPT ![k] = IF sending = "nobody" THEN @ + 1 ELSE @]
        /\ \/ Marks(sending) /\ stored' = Marked(k, kind)
           \/ stored' = stored
        /\ command' = IF killed THEN Quiet ELSE [command EXCEPT !.rows = Tail(@)]
  BY DEF ReportIssue
<1>2. k \in IssueKeys
  BY HighestIsKey DEF ReportIssue, IssueInvariant
<1>3. /\ command'.at \in {"idle", "reports"} /\ DOMAIN command' = CommandFields
      /\ UNCHANGED <<hour, issues, listed, unstored>>
  BY <1>1 DEF ReportIssue, Quiet, IssueInvariant, IssueTypes, CommandFields
<1> HIDE DEF i, k
<1>4. /\ reported \in [IssueKeys -> Nat] /\ toNobody \in [IssueKeys -> Nat]
      /\ reported' \in [IssueKeys -> Nat] /\ \A x \in IssueKeys : reported'[x] >= reported[x]
      /\ toNobody' \in [IssueKeys -> Nat] /\ \A x \in IssueKeys : toNobody'[x] >= toNobody[x]
      /\ sending = "sent" => reported'[k] > 0
      /\ sending = "nobody" => toNobody'[k] > 0
  <2>1. reported \in [IssueKeys -> Nat] /\ toNobody \in [IssueKeys -> Nat]
    BY DEF IssueInvariant, IssueTypes
  <2>2. /\ reported' \in [IssueKeys -> Nat] /\ \A x \in IssueKeys : reported'[x] >= reported[x]
        /\ sending = "sent" => reported'[k] > 0
    <3>1. CASE sending = "sent"
      <4>1. reported' = [reported EXCEPT ![k] = @ + 1]
        BY <1>1, <3>1
      <4> QED BY <1>2, <2>1, <4>1
    <3>2. CASE sending # "sent"
      <4>1. reported' = [reported EXCEPT ![k] = @]
        BY <1>1, <3>2
      <4> QED BY <1>2, <2>1, <3>2, <4>1
    <3> QED BY <3>1, <3>2
  <2>3. /\ toNobody' \in [IssueKeys -> Nat] /\ \A x \in IssueKeys : toNobody'[x] >= toNobody[x]
        /\ sending = "nobody" => toNobody'[k] > 0
    <3>1. CASE sending = "nobody"
      <4>1. toNobody' = [toNobody EXCEPT ![k] = @ + 1]
        BY <1>1, <3>1
      <4> QED BY <1>2, <2>1, <4>1
    <3>2. CASE sending # "nobody"
      <4>1. toNobody' = [toNobody EXCEPT ![k] = @]
        BY <1>1, <3>2
      <4> QED BY <1>2, <2>1, <3>2, <4>1
    <3> QED BY <3>1, <3>2
  <2> QED BY <2>1, <2>2, <2>3
<1>5. DOMAIN stored \subseteq DOMAIN stored'
  BY <1>1, MarkedFacts
<1>6. \A x \in DOMAIN stored : stored[x].sent => x \in IssueKeys /\ reported'[x] + toNobody'[x] > 0
  BY <1>4 DEF IssueInvariant, MarksHaveIds
<1>7. MarksHaveIds'
  <2>1. CASE Marks(sending) /\ stored' = Marked(k, kind)
    <3>1. sending \in {"sent", "nobody"}
      BY <2>1 DEF Marks, Sendings
    <3>2. reported'[k] + toNobody'[k] > 0
      BY <1>2, <1>4, <3>1
    <3>3. \A x \in DOMAIN stored' : x = k \/ (x \in DOMAIN stored /\ stored'[x] = stored[x])
      BY <2>1, MarkedFacts
    <3> QED BY <1>2, <1>6, <3>2, <3>3 DEF MarksHaveIds
  <2>2. CASE stored' = stored
    BY <1>6, <2>2 DEF MarksHaveIds
  <2> QED BY <1>1, <2>1, <2>2
<1> QED
  BY <1>3, <1>4, <1>5, <1>7 DEF IssueInvariant, IssueTypes, ListedIsKnown, Listing

LEMMA IgnoreStep ==
    ASSUME IssueInvariant, IgnoreIssue
    PROVE  IssueInvariant'
<1> DEFINE i == Head(command.rows)[1]
           k == <<i, Highest(i)>>
<1>1. stored' \in {stored, NotStored(k, "none")}
  BY DEF IgnoreIssue
<1>2. /\ command'.at = "reports" /\ DOMAIN command' = CommandFields
      /\ UNCHANGED <<hour, issues, listed, unstored, reported, toNobody>>
  BY DEF IgnoreIssue, IssueInvariant, IssueTypes, CommandFields
<1> HIDE DEF k
<1>3. DOMAIN stored \subseteq DOMAIN stored' /\ MarksHaveIds'
  <2>1. CASE stored' = NotStored(k, "none")
    BY <1>2, <2>1, NotStoredFacts, NotStoredMarks DEF IssueInvariant
  <2>2. CASE stored' = stored
    BY <1>2, <2>2 DEF IssueInvariant, MarksHaveIds
  <2> QED BY <1>1, <2>1, <2>2
<1> QED
  BY <1>2, <1>3 DEF IssueInvariant, IssueTypes, ListedIsKnown, Listing

LEMMA OtherSteps ==
    ASSUME IssueInvariant, IssueReportStarts \/ CommandEnds
    PROVE  IssueInvariant'
<1>1. command'.at \in {"idle", "reports"} /\ DOMAIN command' = CommandFields
  <2>1. CASE IssueReportStarts
    <3>1. PICK all \in BOOLEAN, update \in BOOLEAN :
            \E rows : command' = [Quiet EXCEPT !.at = "reports", !.rows = rows, !.ask = all,
                                               !.update = update]
      BY <2>1 DEF IssueReportStarts
    <3> QED BY <3>1 DEF Quiet, CommandFields
  <2>2. CASE CommandEnds
    BY <2>2 DEF CommandEnds, Quiet, CommandFields
  <2> QED BY <2>1, <2>2
<1>2. UNCHANGED <<hour, issues, stored, listed, unstored, reported, toNobody>>
  BY DEF IssueReportStarts, CommandEnds
<1> QED
  BY <1>1, <1>2 DEF IssueInvariant, IssueTypes, ListedIsKnown, MarksHaveIds, Listing

LEMMA NextIssueInvariant == IssueInvariant /\ [IssueNext]_issueVars => IssueInvariant'
<1> SUFFICES ASSUME IssueInvariant, [IssueNext]_issueVars
             PROVE  IssueInvariant'
  OBVIOUS
<1>1. CASE UNCHANGED issueVars
  BY <1>1 DEF issueVars, IssueInvariant, IssueTypes, ListedIsKnown, MarksHaveIds, Listing
<1>2. CASE IssueNext
  BY <1>2, OutsideStep, StartStep, StoreStep, BuildsStoredStep, MailStep, ReportStep,
     IgnoreStep, OtherSteps DEF IssueNext
<1> QED
  BY <1>1, <1>2

(* Over any commands, kills, failed stores and lost mails, the second      *)
(* database knows every issue but those it failed to store.                *)
THEOREM IssueInvariantAlways == IssueSpec => []IssueInvariant
BY InitIssueInvariant, NextIssueInvariant, PTL DEF IssueSpec

(* No version of an issue is in two summaries of new issues, unless a run  *)
(* failed to store it: one summary more for each failure, at most.         *)
THEOREM ListedOnceAlways == IssueSpec => []ListedOnce
<1>1. IssueInvariant => ListedOnce
  BY DEF IssueInvariant, ListedIsKnown, ListedOnce
<1> QED
  BY <1>1, IssueInvariantAlways, PTL

(* Only what has a mail with an id is marked as sent.                      *)
THEOREM MarkedHasIdAlways == IssueSpec => []MarkedHasId
<1>1. IssueInvariant => MarkedHasId
  BY DEF IssueInvariant, MarksHaveIds, MarkedHasId
<1> QED
  BY <1>1, IssueInvariantAlways, PTL

-----------------------------------------------------------------------------
(* The command follows one action and leaves the tables of the other alone.*)
THEOREM NotificationInvariantsAlways ==
    NotificationSpec => [](SummaryInvariant /\ IssueInvariant)
<1>1. NotificationInit => SummaryInvariant /\ IssueInvariant
  BY InitSummaryInvariant, InitIssueInvariant DEF NotificationInit
<1>2. SummaryInvariant /\ IssueInvariant /\ [NotificationNext]_notificationVars
      => (SummaryInvariant /\ IssueInvariant)'
  <2>1. CASE NotificationNext
    <3>1. [SummaryNext]_summaryVars /\ [IssueNext]_issueVars
      BY <2>1 DEF NotificationNext, Summary, IssueReport
    <3> QED BY <3>1, NextSummaryInvariant, NextIssueInvariant
  <2>2. CASE UNCHANGED notificationVars
    <3>1. [SummaryNext]_summaryVars /\ [IssueNext]_issueVars
      BY <2>2 DEF notificationVars
    <3> QED BY <3>1, NextSummaryInvariant, NextIssueInvariant
  <2> QED BY <2>1, <2>2
<1> QED
  BY <1>1, <1>2, PTL DEF NotificationSpec

(* Whichever action a run of the command takes: a noted report waits, an   *)
(* issue is listed again only after a failed store, and a mark follows a   *)
(* mail that got an id.                                                    *)
THEOREM NotificationsKeepTheirPromises ==
    NotificationSpec => [](NotMailedAgain /\ ListedOnce /\ MarkedHasId)
<1>1. SummaryInvariant /\ IssueInvariant => NotMailedAgain /\ ListedOnce /\ MarkedHasId
  BY DEF SummaryInvariant, IssueInvariant, ListedIsKnown, MarksHaveIds, ListedOnce, MarkedHasId
<1> QED
  BY <1>1, NotificationInvariantsAlways, PTL
=============================================================================
