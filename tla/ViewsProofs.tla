---------------------------- MODULE ViewsProofs ----------------------------
(***************************************************************************)
(* Theorems about the pages and mails, for every value of the constants:   *)
(* what the pages show side by side agrees, whatever rows are stored in    *)
(* whatever order.  A page is a function of the tables, so the induction   *)
(* is about the tables alone (Sound); the rest is one lemma per page.      *)
(***************************************************************************)
EXTENDS Listings, FiniteSetTheorems, WellFoundedInduction, TLAPS

(* The rows are finitely many and well typed, what they refer to is there, *)
(* and what was rolled up is stored.                                       *)
RowsSound ==
    /\ IsFiniteSet(DOMAIN row) /\ DOMAIN row \subseteq DOMAIN TableOf
    /\ \A x \in DOMAIN row :
         /\ RowType(row[x], TableOf[x]) /\ Refers(row[x], TableOf[x]) \subseteq DOMAIN row
         /\ TableOf[x] = "incidents" => row[x].issue \in issues

Sound == RowsSound /\ DOMAIN rolled \subseteq In("tests")

-----------------------------------------------------------------------------
LEMMA FlushSound ==
    ASSUME Sound, NEW batch \in DOMAIN Batches, Flush(batch)
    PROVE  Sound'
<1>1. PICK content \in Batches[batch] :
        /\ DOMAIN row \cap DOMAIN content.rows = {}
        /\ \A x \in DOMAIN content.rows :
             Refers(content.rows[x], TableOf[x]) \subseteq DOMAIN row \cup DOMAIN content.rows
        /\ \A x \in DOMAIN content.rows :
             TableOf[x] = "incidents" => content.rows[x].issue \in issues \cup content.issues
        /\ row' = [x \in DOMAIN row \cup DOMAIN content.rows |->
                     IF x \in DOMAIN row THEN row[x] ELSE content.rows[x]]
        /\ issues' = issues \cup content.issues
        /\ UNCHANGED rolled
  BY DEF Flush
<1>2. /\ DOMAIN row' = DOMAIN content.rows \cup DOMAIN row
      /\ \A x \in DOMAIN content.rows : row'[x] = content.rows[x]
      /\ \A x \in DOMAIN row : row'[x] = row[x]
  BY <1>1
<1>3. /\ IsFiniteSet(DOMAIN content.rows) /\ DOMAIN content.rows \subseteq DOMAIN TableOf
      /\ \A x \in DOMAIN content.rows : RowType(content.rows[x], TableOf[x])
  BY BatchesAssumption
<1>4. IsFiniteSet(DOMAIN row') /\ DOMAIN row' \subseteq DOMAIN TableOf
  <2>1. IsFiniteSet(DOMAIN content.rows \cup DOMAIN row)
    BY <1>3, FS_Union DEF Sound, RowsSound
  <2> QED BY <1>2, <1>3, <2>1 DEF Sound, RowsSound
<1>5. ASSUME NEW x \in DOMAIN row'
      PROVE  /\ RowType(row'[x], TableOf[x]) /\ Refers(row'[x], TableOf[x]) \subseteq DOMAIN row'
             /\ TableOf[x] = "incidents" => row'[x].issue \in issues'
  <2>1. CASE x \in DOMAIN content.rows
    BY <1>1, <1>2, <1>3, <2>1
  <2>2. CASE x \in DOMAIN row
    BY <1>1, <1>2, <2>2 DEF Sound, RowsSound
  <2> QED BY <1>2, <2>1, <2>2
<1>6. DOMAIN rolled' \subseteq In("tests")'
  BY <1>1, <1>2 DEF Sound, In
<1> QED
  BY <1>4, <1>5, <1>6 DEF Sound, RowsSound, RowType

LEMMA AggregateSound ==
    ASSUME Sound, NEW test \in In("tests"), Aggregate(test)
    PROVE  Sound'
<1>1. /\ UNCHANGED <<row, issues>>
      /\ \E issue : rolled' = [t \in DOMAIN rolled \cup {test} |-> IF t = test THEN issue ELSE rolled[t]]
  BY DEF Aggregate
<1>2. DOMAIN rolled' = {test} \cup DOMAIN rolled
  BY <1>1
<1> QED
  BY <1>1, <1>2 DEF Sound, RowsSound, In, RowType

LEMMA NextSound == Sound /\ [TablesNext]_tablesVars => Sound'
<1> SUFFICES ASSUME Sound, [TablesNext]_tablesVars PROVE Sound'
  OBVIOUS
<1>1. CASE UNCHANGED tablesVars
  BY <1>1 DEF tablesVars, Sound, RowsSound, In, RowType
<1> QED
  BY <1>1, FlushSound, AggregateSound DEF TablesNext

(* However flushes and rollups interleave, what a row refers to is there,  *)
(* in the table it names: the pages join no row to one that is missing.    *)
THEOREM SoundAlways == TablesSpec => []Sound
<1>1. TablesInit => Sound
  <2> SUFFICES ASSUME TablesInit PROVE Sound
    OBVIOUS
  <2>1. DOMAIN row = {} /\ DOMAIN rolled = {}
    BY DEF TablesInit
  <2> QED BY <2>1, FS_EmptySet DEF Sound, RowsSound
<1> QED
  BY <1>1, NextSound, PTL DEF TablesSpec

-----------------------------------------------------------------------------
(* The listings: a late status disturbs no reference, and what is counted  *)
(* is there.                                                               *)
Kept ==
    /\ \A c \in In("checkouts") : c \in In("checkouts")'
    /\ \A b \in In("builds") : b \in In("builds")' /\ row'[b].dummy = row[b].dummy
    /\ \A t \in In("tests") :
         /\ t \in In("tests")' /\ row'[t].build = row[t].build
         /\ row'[t].origin = row[t].origin /\ row'[t].platform = row[t].platform

LEMMA FlushKeeps ==
    ASSUME NEW batch \in DOMAIN Batches, Flush(batch)
    PROVE  Kept
<1>1. PICK content \in Batches[batch] :
        row' = [x \in DOMAIN row \cup DOMAIN content.rows |->
                  IF x \in DOMAIN row THEN row[x] ELSE content.rows[x]]
  BY DEF Flush
<1>2. \A x \in DOMAIN row : x \in DOMAIN row' /\ row'[x] = row[x]
  BY <1>1
<1> QED
  BY <1>2 DEF Kept, In

LEMMA CompleteSound ==
    ASSUME Sound, NEW x \in In("tests") \cup In("builds"), Complete(x)
    PROVE  Sound' /\ Kept
<1>1. PICK status \in LateStatuses : row' = [row EXCEPT ![x].status = status]
  BY DEF Complete
<1>2. status \in Statuses /\ x \in DOMAIN row /\ UNCHANGED <<issues, rolled>>
  BY LateStatusesAssumption DEF Complete, In
<1>3. /\ DOMAIN row' = DOMAIN row /\ row'[x] = [row[x] EXCEPT !.status = status]
      /\ \A y \in DOMAIN row \ {x} : row'[y] = row[y]
  BY <1>1, <1>2
<1>4. CASE x \in In("tests")
  <2>1. /\ TableOf[x] = "tests" /\ RowType(row[x], "tests")
    BY <1>4 DEF Sound, RowsSound, In
  <2>2. /\ RowType(row'[x], "tests") /\ row'[x].build = row[x].build
        /\ row'[x].origin = row[x].origin /\ row'[x].platform = row[x].platform
    BY <1>2, <1>3, <2>1 DEF RowType
  <2>3. Refers(row'[x], "tests") = Refers(row[x], "tests")
    BY <2>2 DEF Refers
  <2>4. Kept
    BY <1>3, <2>1, <2>2 DEF Kept, In
  <2>5. \A y \in DOMAIN row' :
          /\ RowType(row'[y], TableOf[y]) /\ Refers(row'[y], TableOf[y]) \subseteq DOMAIN row'
          /\ TableOf[y] = "incidents" => row'[y].issue \in issues'
    BY <1>2, <1>3, <2>1, <2>2, <2>3 DEF Sound, RowsSound
  <2>6. (DOMAIN rolled \subseteq In("tests"))'
    BY <1>2, <1>3 DEF Sound, In
  <2> QED BY <1>3, <2>4, <2>5, <2>6 DEF Sound, RowsSound, RowType
<1>5. CASE x \in In("builds")
  <2>1. /\ TableOf[x] = "builds" /\ RowType(row[x], "builds")
    BY <1>5 DEF Sound, RowsSound, In
  <2>2. /\ RowType(row'[x], "builds") /\ row'[x].checkout = row[x].checkout
        /\ row'[x].dummy = row[x].dummy
    BY <1>2, <1>3, <2>1 DEF RowType
  <2>3. Refers(row'[x], "builds") = Refers(row[x], "builds")
    BY <2>2 DEF Refers
  <2>4. Kept
    BY <1>3, <2>1, <2>2 DEF Kept, In
  <2>5. \A y \in DOMAIN row' :
          /\ RowType(row'[y], TableOf[y]) /\ Refers(row'[y], TableOf[y]) \subseteq DOMAIN row'
          /\ TableOf[y] = "incidents" => row'[y].issue \in issues'
    BY <1>2, <1>3, <2>1, <2>2, <2>3 DEF Sound, RowsSound
  <2>6. (DOMAIN rolled \subseteq In("tests"))'
    BY <1>2, <1>3 DEF Sound, In
  <2> QED BY <1>3, <2>4, <2>5, <2>6 DEF Sound, RowsSound, RowType
<1> QED
  BY <1>4, <1>5

(* A key of the table of hardware is that of a counted test, or of the     *)
(* build of one.                                                           *)
CountedBy(k, t) ==
    /\ Platform(t) # Unknown /\ HardwareKey(t, t) \in DOMAIN onHardware
    /\ k \in {HardwareKey(t, t)} \cup BuildKeys(t)

CountsSound ==
    /\ DOMAIN inTree \subseteq Items
    /\ \A k \in DOMAIN onHardware : \E t \in In("tests") : CountedBy(k, t)
    /\ \A t \in In("tests") :
         HardwareKey(t, t) \in DOMAIN onHardware => BuildKeys(t) \subseteq DOMAIN onHardware

LEMMA CountsKept ==
    ASSUME Sound, Kept, CountsSound, UNCHANGED <<inTree, onHardware>>
    PROVE  CountsSound'
<1>0. \A t \in In("tests") : row[t].build \in In("builds")
  BY BatchesAssumption DEF Sound, RowsSound, In, RowType, Refers
<1>1. DOMAIN inTree' \subseteq Items'
  BY DEF CountsSound, Items, Kept
<1>2. ASSUME NEW k \in DOMAIN onHardware'
      PROVE  \E t \in In("tests")' : CountedBy(k, t)'
  <2>1. PICK t \in In("tests") : CountedBy(k, t)
    BY <1>2 DEF CountsSound
  <2>2. row[t].build \in In("builds")
    BY <1>0
  <2>3. /\ t \in In("tests")' /\ Platform(t)' = Platform(t)
        /\ HardwareKey(t, t)' = HardwareKey(t, t) /\ BuildKeys(t)' = BuildKeys(t)
    BY <2>2 DEF Kept, Platform, HardwareKey, BuildKeys
  <2> QED BY <2>1, <2>3 DEF CountedBy
<1>3. ASSUME NEW u \in In("tests")', HardwareKey(u, u)' \in DOMAIN onHardware
      PROVE  BuildKeys(u)' \subseteq DOMAIN onHardware
  <2>1. PICK t \in In("tests") : CountedBy(HardwareKey(u, u)', t)
    BY <1>3 DEF CountsSound
  <2>2. u = t \/ u = row[t].build
    BY <2>1 DEF CountedBy, HardwareKey, BuildKeys
  <2>3. u \in In("tests")
    BY <1>0, <2>1, <2>2 DEF In
  <2>4. row[u].build \in In("builds")
    BY <1>0, <2>3
  <2>5. HardwareKey(u, u)' = HardwareKey(u, u) /\ BuildKeys(u)' = BuildKeys(u)
    BY <2>3, <2>4 DEF Kept, Platform, HardwareKey, BuildKeys
  <2> QED BY <1>3, <2>3, <2>5 DEF CountsSound
<1> QED
  BY <1>1, <1>2, <1>3 DEF CountsSound

LEMMA CountInTreeSound ==
    ASSUME CountsSound, NEW x \in Items, CountInTree(x)
    PROVE  CountsSound' /\ UNCHANGED <<row, issues, rolled>>
<1>1. DOMAIN inTree' = DOMAIN inTree \cup {x} /\ UNCHANGED <<row, issues, rolled, onHardware>>
  BY DEF CountInTree
<1> QED
  BY <1>1 DEF CountsSound, Items, In, CountedBy, Platform, HardwareKey, BuildKeys

LEMMA CountOnHardwareSound ==
    ASSUME Sound, CountsSound, NEW t \in In("tests"), CountOnHardware(t)
    PROVE  CountsSound' /\ UNCHANGED <<row, issues, rolled>>
<1>0. row[t].build \in In("builds")
  BY BatchesAssumption DEF Sound, RowsSound, In, RowType, Refers
<1>1. /\ DOMAIN onHardware' = DOMAIN onHardware \cup {HardwareKey(t, t)} \cup BuildKeys(t)
      /\ Platform(t) # Unknown /\ UNCHANGED <<row, issues, rolled, inTree>>
  BY DEF CountOnHardware
<1>2. \A k, u : Platform(u)' = Platform(u) /\ HardwareKey(u, k)' = HardwareKey(u, k)
               /\ BuildKeys(u)' = BuildKeys(u)
  BY <1>1 DEF Platform, HardwareKey, BuildKeys
<1>3. \A k, u : CountedBy(k, u) => CountedBy(k, u)'
  BY <1>1, <1>2 DEF CountedBy
<1>4. \A k \in {HardwareKey(t, t)} \cup BuildKeys(t) : CountedBy(k, t)'
  BY <1>1, <1>2 DEF CountedBy
<1>5. In("tests")' = In("tests") /\ Items' = Items
  BY <1>1 DEF In, Items
<1>6. \A k \in DOMAIN onHardware' : \E u \in In("tests") : CountedBy(k, u)'
  BY <1>1, <1>3, <1>4 DEF CountsSound
<1>7. ASSUME NEW u \in In("tests"), HardwareKey(u, u) \in DOMAIN onHardware'
      PROVE  BuildKeys(u) \subseteq DOMAIN onHardware'
  <2>1. CASE HardwareKey(u, u) \in DOMAIN onHardware
    BY <1>1, <2>1 DEF CountsSound
  <2>2. CASE HardwareKey(u, u) \in {HardwareKey(t, t)} \cup BuildKeys(t)
    <3>1. CASE u = t
      BY <1>1, <3>1
    <3>2. CASE u # t
      BY <1>0, <2>2, <3>2 DEF HardwareKey, BuildKeys, In
    <3> QED BY <3>1, <3>2
  <2> QED BY <1>1, <1>7, <2>1, <2>2
<1> QED
  BY <1>1, <1>2, <1>5, <1>6, <1>7 DEF CountsSound

ListingsSound == Sound /\ CountsSound

LEMMA ListingsNextSound == ListingsSound /\ [ListingsNext]_listingsVars => ListingsSound'
<1> SUFFICES ASSUME ListingsSound, [ListingsNext]_listingsVars PROVE ListingsSound'
  OBVIOUS
<1>1. UNCHANGED <<row, issues, rolled>> => Sound'
  BY DEF ListingsSound, Sound, RowsSound, In, RowType
<1>2. CASE UNCHANGED listingsVars
  <2>1. CountsSound'
    BY <1>2 DEF ListingsSound, listingsVars, CountsSound, Items, In, CountedBy, Platform, HardwareKey, BuildKeys
  <2> QED BY <1>1, <1>2, <2>1 DEF listingsVars, ListingsSound
<1>3. ASSUME NEW batch \in DOMAIN Batches, Flush(batch), UNCHANGED <<inTree, onHardware>>
      PROVE  ListingsSound'
  BY <1>3, FlushSound, FlushKeeps, CountsKept DEF ListingsSound
<1>4. ASSUME NEW x \in In("tests") \cup In("builds"), Complete(x)
      PROVE  ListingsSound'
  <2>1. UNCHANGED <<inTree, onHardware>>
    BY <1>4 DEF Complete
  <2> QED BY <1>4, <2>1, CompleteSound, CountsKept DEF ListingsSound
<1>5. ASSUME NEW x \in Items, CountInTree(x)
      PROVE  ListingsSound'
  BY <1>1, <1>5, CountInTreeSound DEF ListingsSound
<1>6. ASSUME NEW t \in In("tests"), CountOnHardware(t)
      PROVE  ListingsSound'
  BY <1>1, <1>6, CountOnHardwareSound DEF ListingsSound
<1> QED
  BY <1>2, <1>3, <1>4, <1>5, <1>6 DEF ListingsNext

(* However flushes, late statuses and the counts of the two tables         *)
(* interleave, the tables count stored items only, and on a hardware only  *)
(* what one of its counted tests accounts for.                             *)
THEOREM ListingsSoundAlways == ListingsSpec => []ListingsSound
<1>1. ListingsInit => ListingsSound
  <2> SUFFICES ASSUME ListingsInit PROVE ListingsSound
    OBVIOUS
  <2>1. DOMAIN row = {} /\ DOMAIN rolled = {} /\ DOMAIN inTree = {} /\ DOMAIN onHardware = {}
    BY DEF ListingsInit, TablesInit
  <2> QED BY <2>1, FS_EmptySet DEF ListingsSound, Sound, RowsSound, CountsSound
<1> QED
  BY <1>1, ListingsNextSound, PTL DEF ListingsSpec

-----------------------------------------------------------------------------
(* What the pages rely on.                                                 *)
References ==
    /\ \A b \in In("builds") :
         /\ b # None /\ row[b].checkout \in In("checkouts") /\ Status(b) \in Statuses
         /\ row[b].duration \in Nat \cup {NoDuration}
    /\ \A t \in In("tests") :
         /\ t # None /\ row[t].build \in In("builds") /\ Status(t) \in Statuses
         /\ row[t].compatible \in Seq(STRING) /\ row[t].duration \in Nat \cup {NoDuration}
    /\ \A i \in In("incidents") :
         /\ i # None /\ KnownIssue(row[i].issue) /\ row[i].issue \in issues
         /\ row[i].test = None \/ row[i].test \in In("tests")
         /\ row[i].build = None \/ row[i].build \in In("builds")
    /\ \A c \in In("checkouts") : row[c].start \in Nat /\ row[c].stamp \in Nat

LEMMA ReferencesHold ==
    ASSUME Sound
    PROVE  References /\ \A table : IsFiniteSet(In(table))
<1>1. \A b \in In("builds") :
         /\ b # None /\ row[b].checkout \in In("checkouts") /\ Status(b) \in Statuses
         /\ row[b].duration \in Nat \cup {NoDuration}
  BY BatchesAssumption DEF Sound, RowsSound, In, RowType, Refers, Status, Durations
<1>2. \A t \in In("tests") :
         /\ t # None /\ row[t].build \in In("builds") /\ Status(t) \in Statuses
         /\ row[t].compatible \in Seq(STRING) /\ row[t].duration \in Nat \cup {NoDuration}
  BY BatchesAssumption DEF Sound, RowsSound, In, RowType, Refers, Status, Durations
<1>3. \A i \in In("incidents") :
         /\ i # None /\ KnownIssue(row[i].issue) /\ row[i].issue \in issues
         /\ row[i].test = None \/ row[i].test \in In("tests")
         /\ row[i].build = None \/ row[i].build \in In("builds")
  BY BatchesAssumption DEF Sound, RowsSound, In, RowType, Refers
<1>4. \A c \in In("checkouts") : row[c].start \in Nat /\ row[c].stamp \in Nat
  BY DEF Sound, RowsSound, In, RowType
<1>5. \A table : IsFiniteSet(In(table))
  BY FS_Subset DEF Sound, RowsSound, In
<1> QED
  BY <1>1, <1>2, <1>3, <1>4, <1>5 DEF References

(* From a test to its checkout and back.                                   *)
LEMMA TestPlace ==
    ASSUME References
    PROVE  /\ \A t \in In("tests") :
                /\ CheckoutOf(t) \in In("checkouts")
                /\ row[t].build \in BuildsOf(CheckoutOf(t)) /\ t \in TestsOf(row[t].build)
           /\ \A b, t : t \in TestsOf(b) => t \in In("tests") /\ row[t].build = b
           /\ \A c, b : b \in BuildsOf(c) => b \in In("builds") /\ row[b].checkout = c
BY DEF References, CheckoutOf, BuildsOf, TestsOf

-----------------------------------------------------------------------------
(* The listings and mails.                                                 *)
LEMMA HardwareMailHolds == HardwareMailAgrees
<1> SUFFICES ASSUME NEW key \in MailKeys,
                    \A t, u \in Wanted(MailKeys) :
                      Platform(t) = Platform(u) => row[t].compatible = row[u].compatible,
                    NEW g \in GroupsFor(MailKeys, key)
             PROVE  UNION {GroupCounts(MailKeys, g, kind, "FAIL") : kind \in Kinds}
                      = {t \in MailFailures(MailKeys, key) : row[t].path # None}
  BY DEF HardwareMailAgrees
<1> DEFINE W == Wanted(MailKeys)
           G == {t \in W : /\ Platform(t) = g.platform /\ row[t].compatible = g.hardware
                           /\ row[t].origin = g.origin}
<1>1. \A kind \in Kinds : GroupCounts(MailKeys, g, kind, "FAIL")
        = {t \in G : row[t].path # None /\ KindOf(t) = kind /\ Status(t) = "FAIL"}
  BY DEF GroupCounts, RevisionCounts, Kinds
<1>2. \A t : KindOf(t) \in Kinds
  BY DEF KindOf, Kinds
<1>3. UNION {GroupCounts(MailKeys, g, kind, "FAIL") : kind \in Kinds}
        = {t \in G : row[t].path # None /\ Status(t) = "FAIL"}
  BY <1>1, <1>2
<1>4. g.platform = key.hardware /\ g.origin = key.origin
  BY DEF GroupsFor
<1>5. PICK u \in W : g.platform = Platform(u) /\ g.hardware = row[u].compatible
  BY DEF GroupsFor, BulkGroups
<1>6. G = {t \in W : Platform(t) = key.hardware /\ row[t].origin = key.origin}
  BY <1>4, <1>5
<1> QED
  BY <1>3, <1>6 DEF MailFailures, Failures

(* A mailed status stands behind the outcome the listing counts.           *)
LEMMA OutcomeOfStatus ==
    ASSUME NEW s \in Statuses, NEW outcome \in Outcomes
    PROVE  s \in Behind(outcome) <=> Outcome(s) = outcome
BY DEF Behind

LEMMA GatheredByOutcome ==
    ASSUME NEW S, \A x \in S : Status(x) \in Statuses, NEW outcome \in Outcomes
    PROVE  UNION {{x \in S : Status(x) = s} : s \in Behind(outcome)}
             = {x \in S : Outcome(Status(x)) = outcome}
BY OutcomeOfStatus

LEMMA ItemPlace ==
    ASSUME References
    PROVE  /\ \A t \in In("tests") :
                CheckoutOfItem(t) = CheckoutOf(t) /\ CheckoutOfItem(row[t].build) = CheckoutOf(t)
           /\ \A b \in In("builds") : CheckoutOfItem(b) = row[b].checkout
           /\ \A t \in In("tests") : Now(t) = [kind |-> KindOf(t), status |-> Status(t)]
           /\ \A b \in In("builds") : Now(b) = [kind |-> "build", status |-> Status(b)]
           /\ In("tests") \cap In("builds") = {}
           /\ \A t : KindOf(t) \in Kinds
           /\ "build" \notin Kinds
<1>1. /\ \A t \in In("tests") : TableOf[t] = "tests" /\ row[t].build \in In("builds")
      /\ \A b \in In("builds") : TableOf[b] = "builds"
  BY DEF In, References
<1> QED
  BY <1>1 DEF CheckoutOfItem, CheckoutOf, Now, KindOf, Kinds

LEMMA HardwareListingsHold ==
    ASSUME References, CountsSound
    PROVE  HardwareListingsAgree
<1> SUFFICES ASSUME NEW req \in HardwareRequests, NEW c \in In("checkouts"),
                    NEW platform \in {Platform(t) : t \in In("tests")}, platform # Unknown,
                    \A d \in In("checkouts") : row[c].hash \in {row[d].hash, row[d].tag} =>
                                                CommitOf(d) = CommitOf(c) /\ InPeriod(req, d),
                    \A t \in RevisionTests(req, c, platform) : SettledOnHardware(t),
                    NEW outcome \in Outcomes
             PROVE  LET tests == RevisionTests(req, c, platform)
                        commits == {row[c].hash}
                    IN  /\ {g[1] : g \in RevisionOutcome(tests, "build", outcome)}
                             = StatusCounts(req, commits, platform, "build", outcome)
                        /\ \A kind \in Kinds :
                             RevisionOutcome(tests, kind, outcome)
                               = {t \in StatusCounts(req, commits, platform, kind, outcome) :
                                    row[t].path # None}
  BY DEF HardwareListingsAgree
<1> DEFINE tests == RevisionTests(req, c, platform)
           commits == {row[c].hash}
           table == StatusTable(req, commits, platform)
           Counted(t) == Outcome(Status(row[t].build)) = outcome
           builds == {row[t].build : t \in {u \in tests : ~row[row[u].build].dummy}}
<1>1. ASSUME NEW t \in In("tests")
      PROVE  CommitOf(CheckoutOf(t)) = CommitOf(c) <=> CheckoutOf(t) \in CommitCheckouts(req, commits)
  <2>1. CheckoutOf(t) \in In("checkouts")
    BY TestPlace
  <2>2. CommitOf(CheckoutOf(t)) = CommitOf(c) => row[CheckoutOf(t)].hash = row[c].hash
    BY DEF CommitOf
  <2> QED BY <2>1, <2>2 DEF CommitCheckouts
<1>2. /\ tests \subseteq In("tests") /\ builds \subseteq In("builds")
      /\ \A t \in tests : Platform(t) = platform /\ row[t].origin = req.origin
  BY DEF RevisionTests, References
<1>3. ASSUME NEW k \in table
      PROVE  /\ k = <<req.origin, platform, k[3]>> /\ k[3] \in tests \cup builds
             /\ onHardware[k] = Now(k[3])
  <2>1. /\ k \in DOMAIN onHardware /\ k[1] = req.origin /\ k[2] = platform
        /\ CheckoutOfItem(k[3]) \in CommitCheckouts(req, commits)
    BY DEF StatusTable
  <2>2. PICK t \in In("tests") : CountedBy(k, t)
    BY <2>1 DEF CountsSound
  <2>3. k = HardwareKey(t, t) \/ (k = HardwareKey(t, row[t].build) /\ ~row[row[t].build].dummy)
    BY <2>2 DEF CountedBy, BuildKeys
  <2>4. /\ k = <<row[t].origin, Platform(t), k[3]>>
        /\ k[3] = t \/ (k[3] = row[t].build /\ ~row[row[t].build].dummy)
    BY <2>3 DEF HardwareKey
  <2>5. row[t].origin = req.origin /\ Platform(t) = platform
    <3> HIDE DEF table, commits
    <3> QED BY <2>1, <2>4
  <2>6. CheckoutOfItem(k[3]) = CheckoutOf(t)
    BY <2>2, <2>4, ItemPlace
  <2>7. t \in tests
    BY <1>1, <2>1, <2>5, <2>6 DEF RevisionTests
  <2>8. onHardware[k] = Now(k[3])
    <3>1. SettledOnHardware(t)
      BY <2>7
    <3>2. CASE k = HardwareKey(t, t)
      <4>1. k[3] = t
        BY <3>2 DEF HardwareKey
      <4> QED BY <3>1, <3>2, <4>1 DEF SettledOnHardware
    <3>3. CASE k \in BuildKeys(t)
      BY <3>1, <3>3 DEF SettledOnHardware
    <3> QED BY <2>2, <3>2, <3>3 DEF CountedBy
  <2> HIDE DEF table, commits, tests
  <2> QED BY <2>4, <2>5, <2>7, <2>8
<1>4. ASSUME NEW x \in tests \cup builds
      PROVE  \E k \in table : k[3] = x
  <2>1. PICK t \in tests : x = t \/ (x = row[t].build /\ ~row[row[t].build].dummy)
    OBVIOUS
  <2>2. t \in In("tests") /\ SettledOnHardware(t)
    BY <1>2, <2>1
  <2>3. HardwareKey(t, t) \in DOMAIN onHardware
    BY <2>2 DEF SettledOnHardware
  <2>4. HardwareKey(t, x) \in DOMAIN onHardware
    <3>1. CASE x = t
      BY <2>3, <3>1
    <3>2. CASE x = row[t].build /\ ~row[row[t].build].dummy
      BY <2>2, <2>3, <3>2 DEF CountsSound, BuildKeys
    <3> QED BY <2>1, <3>1, <3>2
  <2>5. HardwareKey(t, x) = <<req.origin, platform, x>>
    BY <1>2, <2>1 DEF HardwareKey
  <2>6. CheckoutOfItem(x) = CheckoutOf(t)
    BY <2>1, <2>2, ItemPlace
  <2>7. CheckoutOfItem(x) \in CommitCheckouts(req, commits)
    BY <1>1, <2>1, <2>2, <2>6 DEF RevisionTests
  <2>8. HardwareKey(t, x) \in table
    BY <2>4, <2>5, <2>7 DEF StatusTable
  <2> HIDE DEF table
  <2> QED BY <2>5, <2>8
<1> HIDE DEF tests, table, builds
<1>5. ASSUME NEW kind
      PROVE  StatusCounts(req, commits, platform, kind, outcome)
               = {x \in tests \cup builds : Now(x).kind = kind /\ Outcome(Now(x).status) = outcome}
  <2>1. StatusCounts(req, commits, platform, kind, outcome)
          = {k[3] : k \in {l \in table : onHardware[l].kind = kind /\ Outcome(onHardware[l].status) = outcome}}
    BY DEF StatusCounts, table
  <2>2. \A k \in table : k[3] \in tests \cup builds /\ onHardware[k] = Now(k[3])
    BY <1>3
  <2>3. ASSUME NEW x \in tests \cup builds, Now(x).kind = kind, Outcome(Now(x).status) = outcome
        PROVE  x \in StatusCounts(req, commits, platform, kind, outcome)
    <3>1. PICK k \in table : k[3] = x
      BY <1>4
    <3>2. onHardware[k] = Now(x)
      BY <2>2, <3>1
    <3> QED BY <2>1, <2>3, <3>1, <3>2
  <2>4. ASSUME NEW x \in StatusCounts(req, commits, platform, kind, outcome)
        PROVE  x \in tests \cup builds /\ Now(x).kind = kind /\ Outcome(Now(x).status) = outcome
    <3>1. PICK k \in table : k[3] = x /\ onHardware[k].kind = kind /\ Outcome(onHardware[k].status) = outcome
      BY <2>1
    <3> QED BY <2>2, <3>1
  <2> QED BY <2>3, <2>4
<1>6. \A t \in tests : Status(t) \in Statuses /\ Status(row[t].build) \in Statuses
  BY <1>2 DEF References
<1>7. {g[1] : g \in RevisionOutcome(tests, "build", outcome)}
        = {row[t].build : t \in {u \in tests : ~row[row[u].build].dummy /\ Counted(u)}}
  <2>1. \A s : RevisionCounts(tests, "build", s)
          = {<<row[t].build, row[t].compatible>> :
               t \in {u \in tests : ~row[row[u].build].dummy /\ Status(row[u].build) = s}}
    BY DEF RevisionCounts
  <2>2. RevisionOutcome(tests, "build", outcome)
          = {<<row[t].build, row[t].compatible>> :
               t \in {u \in tests : ~row[row[u].build].dummy /\ Counted(u)}}
    BY <1>6, <2>1, OutcomeOfStatus DEF RevisionOutcome
  <2> DEFINE S == {u \in tests : ~row[row[u].build].dummy /\ Counted(u)}
             pair(t) == <<row[t].build, row[t].compatible>>
  <2>3. \A t : pair(t)[1] = row[t].build
    OBVIOUS
  <2>4. {g[1] : g \in {pair(t) : t \in S}} = {pair(t)[1] : t \in S}
    <3> HIDE DEF pair, S
    <3> QED OBVIOUS
  <2> QED BY <2>2, <2>3, <2>4
<1>8. ASSUME NEW kind \in Kinds
      PROVE  RevisionOutcome(tests, kind, outcome)
               = {t \in tests : /\ row[t].path # None /\ KindOf(t) = kind
                                /\ Outcome(Status(t)) = outcome}
  <2>1. \A s : RevisionCounts(tests, kind, s)
          = {t \in tests : row[t].path # None /\ KindOf(t) = kind /\ Status(t) = s}
    BY DEF RevisionCounts, Kinds
  <2> QED BY <1>6, <2>1, OutcomeOfStatus DEF RevisionOutcome
<1>9. StatusCounts(req, commits, platform, "build", outcome)
        = {b \in builds : Outcome(Status(b)) = outcome}
  <2>1. \A t \in tests : Now(t).kind # "build"
    BY <1>2, ItemPlace
  <2>2. \A b \in builds : Now(b).kind = "build" /\ Now(b).status = Status(b)
    BY <1>2, ItemPlace
  <2> QED BY <1>5, <2>1, <2>2
<1>10. ASSUME NEW kind \in Kinds
       PROVE  StatusCounts(req, commits, platform, kind, outcome)
                = {t \in tests : KindOf(t) = kind /\ Outcome(Status(t)) = outcome}
  <2>1. \A t \in tests : Now(t).kind = KindOf(t) /\ Now(t).status = Status(t)
    BY <1>2, ItemPlace
  <2>2. \A b \in builds : Now(b).kind # kind
    BY <1>2, ItemPlace
  <2> QED BY <1>5, <2>1, <2>2
<1>11. {g[1] : g \in RevisionOutcome(tests, "build", outcome)}
         = StatusCounts(req, commits, platform, "build", outcome)
  BY <1>7, <1>9 DEF builds
<1>12. ASSUME NEW kind \in Kinds
       PROVE  RevisionOutcome(tests, kind, outcome)
                = {t \in StatusCounts(req, commits, platform, kind, outcome) : row[t].path # None}
  BY <1>8, <1>10
<1> QED
  BY <1>11, <1>12 DEF tests

(* The mail is about one commit of the tree, the listed one if that is not *)
(* outside of the window.                                                  *)
UrlNamesTree(c) ==
    \A d \in In("checkouts") : row[d].tree[2] = row[c].tree[2] => row[d].tree = row[c].tree
StartNamesCommit ==
    \A d, e \in In("checkouts") :
      row[d].tree = row[e].tree /\ row[d].start = row[e].start => row[d].hash = row[e].hash
MailsOf(heads, c, window) ==
    /\ row[c].start \in window.from .. window.to => c \in heads
    /\ \A h \in heads : /\ h \in In("checkouts")
                        /\ heads = {d \in In("checkouts") : TreeKey(d) = TreeKey(h)}

LEMMA MailedTreeIs ==
    ASSUME References, NEW origin, NEW c \in ListedTrees(origin), NEW window,
           UrlNamesTree(c), StartNamesCommit
    PROVE  MailsOf(MailedTrees({<<row[c].tree[2], origin>>}, window), c, window)
<1> DEFINE url == row[c].tree[2]
           pairs == {<<url, origin>>}
           recent(d) == row[d].start \in window.from .. window.to
           asked == {d \in In("checkouts") : <<row[d].tree[2], row[d].origin>> \in pairs /\ recent(d)}
           ofUrl == {d \in asked : row[d].tree[2] = url}
           first == LatestOf(ofUrl)
           heads == MailedTrees(pairs, window)
<1>1. /\ c \in In("checkouts") /\ row[c].origin = origin
      /\ \A d \in In("checkouts") :
           row[d].origin = origin /\ row[d].tree = row[c].tree => row[d].start <= row[c].start
  BY DEF ListedTrees, LatestOf
<1>2. \A d : d \in ofUrl <=> /\ d \in In("checkouts") /\ recent(d)
                             /\ row[d].origin = origin /\ row[d].tree = row[c].tree
  <2> HIDE DEF recent
  <2> QED BY <1>1 DEF UrlNamesTree
<1>3. \A d, e \in first : TreeKey(d) = TreeKey(e)
  <2> SUFFICES ASSUME NEW d \in first, NEW e \in first PROVE TreeKey(d) = TreeKey(e)
    OBVIOUS
  <2> HIDE DEF recent, ofUrl
  <2>1. d \in ofUrl /\ e \in ofUrl /\ row[d].start <= row[e].start /\ row[e].start <= row[d].start
    BY DEF LatestOf
  <2>2. /\ d \in In("checkouts") /\ row[d].origin = origin /\ row[d].tree = row[c].tree
        /\ e \in In("checkouts") /\ row[e].origin = origin /\ row[e].tree = row[c].tree
    BY <1>2, <2>1
  <2>3. row[d].start = row[e].start
    BY <2>1, <2>2 DEF References
  <2> QED BY <2>2, <2>3 DEF TreeKey, StartNamesCommit
<1>4. recent(c) => c \in first
  <2> HIDE DEF recent, ofUrl
  <2> QED BY <1>1, <1>2 DEF LatestOf
<1>5. heads = {d \in In("checkouts") : \E e \in first : TreeKey(d) = TreeKey(e)}
  <2>1. UNION {LatestOf({d \in asked : row[d].tree[2] = p[1]}) : p \in pairs} = first
    <3> DEFINE latest(p) == LatestOf({d \in asked : row[d].tree[2] = p[1]})
    <3>1. UNION {latest(p) : p \in pairs} = latest(<<url, origin>>)
      <4> HIDE DEF latest
      <4> QED OBVIOUS
    <3> QED BY <3>1
  <2> QED BY <2>1 DEF MailedTrees
<1> HIDE DEF first, heads, recent
<1>6. \A h \in heads : h \in In("checkouts") /\ heads = {d \in In("checkouts") : TreeKey(d) = TreeKey(h)}
  BY <1>3, <1>5
<1>7. recent(c) => c \in heads
  BY <1>1, <1>4, <1>5
<1> QED
  BY <1>6, <1>7 DEF heads, recent, MailsOf

LEMMA TreeMailHolds ==
    ASSUME References, CountsSound
    PROVE  TreeMailMatchesListing
<1> SUFFICES ASSUME NEW req \in Requests, NEW window \in MailWindows, NEW c \in ListedTrees(req.origin),
                    \A d \in In("checkouts") : row[d].tree[2] = row[c].tree[2] => row[d].tree = row[c].tree,
                    \A d, e \in In("checkouts") :
                      row[d].tree = row[e].tree /\ row[d].start = row[e].start => row[d].hash = row[e].hash
             PROVE  LET heads == MailedTrees({<<row[c].tree[2], req.origin>>}, window)
                    IN  /\ row[c].start \in window.from .. window.to => c \in heads
                        /\ \A h \in heads : (\A x \in OfCommit(h) : SettledInTree(x)) =>
                             \A kind \in Kinds \cup {"build"}, outcome \in Outcomes :
                               UNION {MailedCounts(heads, kind, s) : s \in Behind(outcome)}
                                 = {x \in TreeCounts(h, kind, outcome) : kind = "build" \/ row[x].path # None}
  BY DEF TreeMailMatchesListing
<1> DEFINE heads == MailedTrees({<<row[c].tree[2], req.origin>>}, window)
<1>1. /\ row[c].start \in window.from .. window.to => c \in heads
      /\ \A h \in heads : h \in In("checkouts") /\ heads = {d \in In("checkouts") : TreeKey(d) = TreeKey(h)}
  <2>1. UrlNamesTree(c) /\ StartNamesCommit
    BY DEF UrlNamesTree, StartNamesCommit
  <2>2. MailsOf(heads, c, window)
    BY <2>1, MailedTreeIs
  <2> HIDE DEF heads
  <2> QED BY <2>2 DEF MailsOf
<1> HIDE DEF heads
<1>2. ASSUME NEW h \in heads, \A x \in OfCommit(h) : SettledInTree(x),
             NEW kind \in Kinds \cup {"build"}, NEW outcome \in Outcomes
      PROVE  UNION {MailedCounts(heads, kind, s) : s \in Behind(outcome)}
               = {x \in TreeCounts(h, kind, outcome) : kind = "build" \/ row[x].path # None}
  <2>1. \A d \in In("checkouts") : d \in heads <=> TreeKey(d) = TreeKey(h)
    BY <1>1, <1>2
  <2>2. heads \subseteq In("checkouts")
    BY <1>1
  <2>3. \A x \in Items : CheckoutOfItem(x) \in In("checkouts")
    BY TestPlace, ItemPlace DEF Items, References
  <2>4. OfCommit(h) = {x \in Items : CheckoutOfItem(x) \in heads}
    BY <2>1, <2>3 DEF OfCommit
  <2>5. TreeCounts(h, kind, outcome)
          = {x \in OfCommit(h) : Now(x).kind = kind /\ Outcome(Now(x).status) = outcome}
    BY <1>2 DEF TreeCounts, OfCommit, SettledInTree, CountsSound
  <2>6. CASE kind = "build"
    <3> DEFINE S == {b \in UNION {BuildsOf(d) : d \in heads} : ~row[b].dummy}
    <3>1. \A s : MailedCounts(heads, kind, s) = {b \in S : Status(b) = s}
      BY <2>6 DEF MailedCounts
    <3>2. S = {b \in In("builds") : ~row[b].dummy /\ CheckoutOfItem(b) \in heads}
      BY ItemPlace, TestPlace DEF BuildsOf
    <3>3. \A b \in S : Status(b) \in Statuses
      BY <3>2 DEF References
    <3>4. \A x \in In("tests") : Now(x).kind # kind
      BY <2>6, ItemPlace
    <3>5. \A x \in In("builds") : Now(x).kind = kind /\ Now(x).status = Status(x)
      BY <2>6, ItemPlace
    <3>6. TreeCounts(h, kind, outcome) = {b \in S : Outcome(Status(b)) = outcome}
      BY <2>4, <2>5, <3>2, <3>4, <3>5 DEF Items
    <3> HIDE DEF S
    <3>7. UNION {MailedCounts(heads, kind, s) : s \in Behind(outcome)}
            = UNION {{b \in S : Status(b) = s} : s \in Behind(outcome)}
      BY <3>1
    <3> QED BY <2>6, <3>3, <3>6, <3>7, GatheredByOutcome
  <2>7. CASE kind \in Kinds
    <3> DEFINE S == {t \in In("tests") : /\ CheckoutOfItem(t) \in heads
                                         /\ row[t].path # None /\ KindOf(t) = kind}
    <3>1. kind # "build"
      BY <2>7, ItemPlace
    <3>2. UNION {TestsOf(b) : b \in UNION {BuildsOf(d) : d \in heads}}
            = {t \in In("tests") : CheckoutOfItem(t) \in heads}
      BY <2>2, TestPlace, ItemPlace DEF CheckoutOf
    <3>3. \A s : MailedCounts(heads, kind, s) = {t \in S : Status(t) = s}
      BY <3>1, <3>2 DEF MailedCounts
    <3>4. \A t \in S : Status(t) \in Statuses
      BY DEF References
    <3>5. \A x \in In("builds") : Now(x).kind # kind
      BY <3>1, ItemPlace
    <3>6. \A x \in In("tests") : Now(x).kind = KindOf(x) /\ Now(x).status = Status(x)
      BY ItemPlace
    <3>7. {x \in TreeCounts(h, kind, outcome) : kind = "build" \/ row[x].path # None}
            = {t \in S : Outcome(Status(t)) = outcome}
      BY <2>4, <2>5, <3>1, <3>5, <3>6 DEF Items
    <3> HIDE DEF S
    <3>8. UNION {MailedCounts(heads, kind, s) : s \in Behind(outcome)}
            = UNION {{t \in S : Status(t) = s} : s \in Behind(outcome)}
      BY <3>3
    <3> QED BY <3>4, <3>7, <3>8, GatheredByOutcome
  <2> QED BY <2>6, <2>7
<1> QED
  BY <1>1, <1>2 DEF heads

-----------------------------------------------------------------------------
(* The pages of a hardware.                                                *)
(* Python reads whole seconds and SQL the float: they part on a fraction   *)
(* above the upper bound, and nowhere else.                                *)
LEMMA DurationRead ==
    ASSUME NEW f \in Filters, NEW kind \in Kinds \cup {"build"}, NEW d \in Nat \cup {NoDuration}
    PROVE  DurationAsked(f, kind, d) <=> ~DurationOut(f, kind, d) /\ ~OverByAFraction(f, kind, d)
<1>1. f.min[kind] \in Nat \cup {NoBound} /\ f.max[kind] \in Nat \cup {NoBound}
  BY BoundsAssumption
<1>2. CASE d = NoDuration
  BY <1>1, <1>2 DEF DurationAsked, DurationOut, OverByAFraction, Second, Seconds
<1>3. CASE d # NoDuration
  <2>1. d \in Nat
    BY <1>3
  <2>2. \A n \in Nat : Seconds(d) < n <=> d < Second * n
    BY <2>1 DEF Second, Seconds
  <2>3. Seconds(d) \in Nat
    BY <2>1 DEF Second, Seconds
  <2>4. f.min[kind] # NoBound => (d >= Second * f.min[kind] <=> ~(Seconds(d) < f.min[kind]))
    BY <1>1, <2>1, <2>2 DEF Second
  <2>5. f.max[kind] # NoBound /\ Seconds(d) > f.max[kind] => ~(d <= Second * f.max[kind])
    BY <1>1, <2>1, <2>2, <2>3 DEF Second
  <2>6. f.max[kind] # NoBound => (d <= Second * f.max[kind] <=> ~(d > Second * f.max[kind]))
    BY <1>1, <2>1 DEF Second
  <2>7. f.max[kind] # NoBound => (Seconds(d) <= f.max[kind] <=> ~(Seconds(d) > f.max[kind]))
    BY <1>1, <2>3
  <2> QED BY <1>3, <2>4, <2>5, <2>6, <2>7 DEF DurationAsked, DurationOut, OverByAFraction
<1> QED
  BY <1>2, <1>3

LEMMA NoFilterAsksNothing ==
    ASSUME NEW kind \in Kinds \cup {"build"}
    PROVE  /\ \A status, config, lab, compatibles :
                ~GroupOut(NoFilter, kind, status, config, lab, compatibles)
           /\ \A duration : DurationAsked(NoFilter, kind, duration)
BY DEF NoFilter, Kinds, GroupOut, Lets, DurationAsked

LEMMA SummaryTreesAre ==
    ASSUME References, NEW req,
           \A c \in In("checkouts"), d \in Trees(req) :
             row[c].hash = row[d].hash => row[c].tree = row[d].tree,
           \A t \in In("tests") : InPeriod(req, t)
    PROVE  SummaryTrees(req) = {CommitOf(c) : c \in Trees(req)}
<1> DEFINE heads == Hashes(req, {})
           tests == UNION {SummaryTestRows(req, NoFilter, heads, kind) : kind \in Kinds}
           builds == SummaryBuildRows(req, NoFilter, heads)
<1>1. heads = {row[c].hash : c \in Trees(req)}
  BY DEF Hashes
<1>2. \A c \in In("checkouts") : row[c].hash \in heads => \E d \in Trees(req) : CommitOf(c) = CommitOf(d)
  BY <1>1 DEF CommitOf
<1>3. \A p \in tests : \E d \in Trees(req) : CommitOf(CheckoutOf(p[1])) = CommitOf(d)
  <2> SUFFICES ASSUME NEW kind \in Kinds, NEW p \in SummaryTestRows(req, NoFilter, heads, kind)
               PROVE  \E d \in Trees(req) : CommitOf(CheckoutOf(p[1])) = CommitOf(d)
    OBVIOUS
  <2>1. p[1] \in In("tests") /\ row[CheckoutOf(p[1])].hash \in heads
    BY DEF SummaryTestRows
  <2> QED BY <1>2, <2>1, TestPlace
<1>4. \A g \in builds : \E d \in Trees(req) : CommitOf(row[g[1]].checkout) = CommitOf(d)
  <2> SUFFICES ASSUME NEW g \in builds
               PROVE  \E d \in Trees(req) : CommitOf(row[g[1]].checkout) = CommitOf(d)
    OBVIOUS
  <2>1. g[1] \in In("builds") /\ row[row[g[1]].checkout].hash \in heads
    BY DEF SummaryBuildRows, References
  <2> QED BY <1>2, <2>1 DEF References
<1>5. ASSUME NEW c \in Trees(req)
      PROVE  \E p \in tests : CommitOf(CheckoutOf(p[1])) = CommitOf(c)
  <2>0. PICK b \in BuildsOf(c) : \E t \in TestsOf(b) : RanOn(req, t)
    BY DEF Trees
  <2>1. PICK t \in TestsOf(b) : RanOn(req, t)
    BY <2>0
  <2>2. t \in In("tests") /\ CheckoutOf(t) = c
    BY TestPlace DEF CheckoutOf
  <2>3. PICK i : i \in LeftJoin(OfTest(t))
    BY DEF LeftJoin
  <2>4. KindOf(t) \in Kinds
    BY DEF KindOf, Kinds
  <2>5. row[CheckoutOf(t)].hash \in heads
    BY <1>1, <2>2
  <2>6. <<t, i>> \in SummaryTestRows(req, NoFilter, heads, KindOf(t))
    <3>1. <<t, i>> \in UNION {{<<u, j>> : j \in LeftJoin(OfTest(u))} : u \in In("tests")}
      BY <2>2, <2>3
    <3> QED BY <2>1, <2>2, <2>4, <2>5, <3>1, NoFilterAsksNothing DEF SummaryTestRows, TestDurationAsked, Kinds
  <2> QED BY <2>2, <2>4, <2>6
<1> HIDE DEF tests, builds
<1>6. SummaryTrees(req) = {CommitOf(CheckoutOf(p[1])) : p \in tests} \cup {CommitOf(row[g[1]].checkout) : g \in builds}
  BY DEF SummaryTrees, tests, builds
<1> QED
  BY <1>3, <1>4, <1>5, <1>6

(* As many commits come before one among the trees of the summary as heads *)
(* come before its head.                                                   *)
LEMMA SelectionHolds ==
    ASSUME References, \A table : IsFiniteSet(In(table))
    PROVE  SelectionKeepsIndexes
<1> SUFFICES ASSUME NEW req \in HardwareRequests,
                    \A c \in In("checkouts"), d \in Trees(req) :
                      row[c].hash = row[d].hash => row[c].tree = row[d].tree,
                    \A c, d \in Trees(req) : CommitOf(c) = CommitOf(d) => c = d,
                    \A t \in In("tests") : InPeriod(req, t),
                    \A c, d \in Trees(req) : SqlOrder[CommitOf(c)] < SqlOrder[CommitOf(d)]
                                               <=> PageOrder[CommitOf(c)] < PageOrder[CommitOf(d)]
             PROVE  /\ SummaryTrees(req) = {CommitOf(c) : c \in Trees(req)}
                    /\ \A c \in Trees(req) : PageIndex(req, CommitOf(c)) = Index(req, c)
  BY DEF SelectionKeepsIndexes
<1>1. SummaryTrees(req) = {CommitOf(c) : c \in Trees(req)}
  BY SummaryTreesAre
<1>2. ASSUME NEW c \in Trees(req)
      PROVE  PageIndex(req, CommitOf(c)) = Index(req, c)
  <2> DEFINE D == {d \in Trees(req) : SqlOrder[CommitOf(d)] < SqlOrder[CommitOf(c)]}
             O == {other \in SummaryTrees(req) : PageOrder[other] < PageOrder[CommitOf(c)]}
             g == [d \in D |-> CommitOf(d)]
  <2>1. D \subseteq Trees(req) /\ \A d \in D : PageOrder[CommitOf(d)] < PageOrder[CommitOf(c)]
    BY <1>2
  <2>2. g \in [D -> O]
    BY <1>1, <2>1
  <2>3. \A d, e \in D : g[d] = g[e] => d = e
    BY <2>1
  <2>4. \A other \in O : \E d \in D : g[d] = other
    <3>1. ASSUME NEW other \in O
          PROVE  \E d \in D : CommitOf(d) = other
      BY <1>1, <1>2, <3>1
    <3> QED BY <3>1
  <2>5. IsFiniteSet(D)
    <3>1. D \subseteq In("checkouts")
      BY DEF Trees, TreeHeads
    <3> HIDE DEF D
    <3> QED BY <3>1, FS_Subset
  <2> HIDE DEF D, O, g
  <2>6. g \in Bijection(D, O)
    BY <2>2, <2>3, <2>4 DEF Bijection, Injection, Surjection, IsInjective
  <2>7. Cardinality(D) = Cardinality(O)
    BY <2>5, <2>6, FS_Bijection DEF ExistsBijection
  <2> QED BY <2>7 DEF PageIndex, Index, D, O
<1> QED
  BY <1>1, <1>2

(* Of finitely many rows one is the last to start, and one the first.      *)
LEMMA GreatestOf ==
    ASSUME NEW S, IsFiniteSet(S), S # {}, NEW g \in [S -> Nat]
    PROVE  \E x \in S : \A y \in S : g[y] <= g[x]
<1> DEFINE above(x) == {y \in S : g[y] > g[x]}
           T == {above(x) : x \in S}
<1>1. T \subseteq FiniteSubsetsOf(S)
  <2> SUFFICES ASSUME NEW x \in S PROVE above(x) \in FiniteSubsetsOf(S)
    OBVIOUS
  <2>1. above(x) \in SUBSET S
    OBVIOUS
  <2> HIDE DEF above
  <2>2. IsFiniteSet(above(x))
    BY <2>1, FS_Subset
  <2> QED BY <2>1, <2>2 DEF FiniteSubsetsOf
<1>2. T # {}
  <2>1. PICK x \in S : TRUE
    OBVIOUS
  <2>2. above(x) \in T
    OBVIOUS
  <2> QED BY <2>2
<1>3. PICK m \in T : \A n \in T : ~ (<<n, m>> \in StrictSubsetOrdering(S))
  <2> HIDE DEF T
  <2> QED BY <1>1, <1>2, FS_StrictSubsetOrderingWellFounded, WFMin
<1>4. PICK x \in S : m = above(x)
  OBVIOUS
<1>5. ASSUME NEW y \in S, g[y] > g[x]
      PROVE  FALSE
  <2>1. above(y) \subseteq above(x) /\ above(x) \subseteq S
    BY <1>5
  <2>2. y \in above(x) /\ y \notin above(y)
    BY <1>5
  <2>3. above(y) \in T
    OBVIOUS
  <2>4. <<above(y), m>> \in StrictSubsetOrdering(S)
    <3> HIDE DEF above, T
    <3> QED BY <1>4, <2>1, <2>2 DEF StrictSubsetOrdering
  <2> QED BY <1>3, <2>3, <2>4
<1> QED
  BY <1>5

LEMMA LeastOf ==
    ASSUME NEW S, IsFiniteSet(S), S # {}, NEW g \in [S -> Nat]
    PROVE  \E x \in S : \A y \in S : g[x] <= g[y]
<1>1. PICK m \in S : \A y \in S : g[y] <= g[m]
  BY GreatestOf
<1> DEFINE h == [x \in S |-> g[m] - g[x]]
<1>2. h \in [S -> Nat]
  BY <1>1
<1>3. PICK x \in S : \A y \in S : h[y] <= h[x]
  <2> HIDE DEF h
  <2> QED BY <1>2, GreatestOf
<1> QED
  BY <1>3

(* The starts of some checkouts have a first and a last.                   *)
LEMMA StartBounds ==
    ASSUME References, \A table : IsFiniteSet(In(table)),
           NEW C \in SUBSET In("checkouts"), C # {}
    PROVE  /\ \E c \in C : row[c].start = Min({row[d].start : d \in C})
           /\ \E c \in C : row[c].start = Max({row[d].start : d \in C})
           /\ \A c \in C : /\ Min({row[d].start : d \in C}) <= row[c].start
                           /\ row[c].start <= Max({row[d].start : d \in C})
<1> DEFINE g == [c \in C |-> row[c].start]
           S == {row[d].start : d \in C}
<1>1. IsFiniteSet(C)
  BY FS_Subset
<1>2. g \in [C -> Nat]
  BY DEF References
<1>3. PICK first \in C : \A c \in C : g[first] <= g[c]
  <2> HIDE DEF g
  <2> QED BY <1>1, <1>2, LeastOf
<1>4. PICK last \in C : \A c \in C : g[c] <= g[last]
  <2> HIDE DEF g
  <2> QED BY <1>1, <1>2, GreatestOf
<1>5. Min(S) \in S /\ \A s \in S : Min(S) <= s
  <2>1. row[first].start \in S /\ \A s \in S : row[first].start <= s
    BY <1>3
  <2> HIDE DEF S
  <2> QED BY <2>1 DEF Min
<1>6. Max(S) \in S /\ \A s \in S : Max(S) >= s
  <2>1. row[last].start \in S /\ \A s \in S : row[last].start >= s
    BY <1>2, <1>4
  <2> HIDE DEF S
  <2> QED BY <2>1 DEF Max
<1>7. \A s \in S : s \in Nat
  BY DEF References
<1> QED
  BY <1>5, <1>6, <1>7

LEMMA HistoriesNestHolds ==
    ASSUME References, \A table : IsFiniteSet(In(table))
    PROVE  HistoriesNest
<1> SUFFICES ASSUME NEW req \in HardwareRequests,
                    \A c \in In("checkouts") : row[c].origin = req.origin /\ InPeriod(req, c),
                    NEW c \in Trees(req)
             PROVE  /\ CommitOf(c) \in HardwareHistoryOf(req, CommitOf(c))
                    /\ \A older \in HardwareHistoryOf(req, CommitOf(c)) :
                         /\ older \in HardwareHistoryOf(req, older)
                         /\ HardwareHistoryOf(req, older) \subseteq HardwareHistoryOf(req, CommitOf(c))
  BY DEF HistoriesNest
<1>1. c \in In("checkouts")
  BY DEF Trees, TreeHeads
<1>2. ASSUME NEW d \in In("checkouts")
      PROVE  /\ CommitOf(d) \in HardwareHistoryOf(req, CommitOf(d))
             /\ Since(req, CommitOf(d)) <= row[d].start
             /\ Since(req, CommitOf(d)) \in Nat
  <2> DEFINE C == {e \in In("checkouts") : CommitOf(e) = CommitOf(d) /\ row[e].origin = req.origin}
  <2>1. d \in C
    OBVIOUS
  <2>2. C \in SUBSET In("checkouts") /\ C # {} /\ {row[e].start : e \in C} # {}
    BY <2>1
  <2>3. Since(req, CommitOf(d)) = Min({row[e].start : e \in C})
    BY <2>2 DEF Since
  <2> HIDE DEF C
  <2>4. PICK e \in C : row[e].start = Since(req, CommitOf(d))
    BY <2>2, <2>3, StartBounds
  <2>5. Since(req, CommitOf(d)) <= row[d].start
    BY <2>1, <2>2, <2>3, StartBounds
  <2>6. e \in In("checkouts") /\ CommitOf(e) = CommitOf(d)
    BY DEF C
  <2>7. row[e].start \in Nat
    BY <2>6 DEF References
  <2>8. row[e].tree = CommitOf(d)[1]
    BY <2>6 DEF CommitOf
  <2> QED BY <2>4, <2>5, <2>6, <2>7, <2>8 DEF HardwareHistoryOf
<1>3. ASSUME NEW older \in HardwareHistoryOf(req, CommitOf(c))
      PROVE  /\ older \in HardwareHistoryOf(req, older)
             /\ HardwareHistoryOf(req, older) \subseteq HardwareHistoryOf(req, CommitOf(c))
  <2>1. PICK d \in In("checkouts") :
          older = CommitOf(d) /\ row[d].tree = CommitOf(c)[1] /\ row[d].start <= Since(req, CommitOf(c))
    BY DEF HardwareHistoryOf
  <2>2. older[1] = CommitOf(c)[1]
    BY <2>1 DEF CommitOf
  <2>3. Since(req, older) <= Since(req, CommitOf(c))
    BY <1>1, <1>2, <2>1 DEF References
  <2>4. \A e \in In("checkouts") : row[e].start <= Since(req, older) => row[e].start <= Since(req, CommitOf(c))
    BY <1>1, <1>2, <2>1, <2>3 DEF References
  <2>5. HardwareHistoryOf(req, older) \subseteq HardwareHistoryOf(req, CommitOf(c))
    BY <2>2, <2>4 DEF HardwareHistoryOf
  <2> QED BY <1>2, <2>1, <2>5
<1> QED
  BY <1>1, <1>2, <1>3

(* The tests of the commits a request selects: the summary finds them by   *)
(* the hashes, the details among the checkouts of the trees shown.         *)
SelectedTests(req) ==
    {t \in In("tests") :
       /\ RanOn(req, t) /\ InPeriod(req, t)
       /\ row[CheckoutOf(t)].hash \in Hashes(req, DOMAIN req.selected)}
ShownTestsOf(req) == {t \in SelectedTests(req) : CheckoutOf(t) \in Selection(req)}

LEMMA AskedIsSelected ==
    ASSUME NEW req, NEW c \in In("checkouts")
    PROVE  /\ row[c].hash \in {Displayed(req, d) : d \in Trees(req)} /\ c \in Selection(req)
              <=> row[c].hash \in Hashes(req, DOMAIN req.selected) /\ c \in Selection(req)
           /\ Apart(req) /\ row[c].hash \in Hashes(req, DOMAIN req.selected) => c \in Selection(req)
<1>1. Apart(req) => \A d \in Trees(req) :
        row[c].hash \in {row[d].hash, Displayed(req, d)} => d \in TreesOf(req, c)
  BY DEF Apart, TreesOf
<1>2. CASE DOMAIN req.selected = {}
  <2>1. \A d \in Trees(req) : Displayed(req, d) = row[d].hash
    BY <1>2 DEF Displayed, IsSelected
  <2>2. TreeSelected(req, c)
    BY <1>2 DEF TreeSelected
  <2>3. Hashes(req, DOMAIN req.selected) = {row[d].hash : d \in Trees(req)}
    BY <1>2 DEF Hashes
  <2> QED BY <1>1, <2>1, <2>2, <2>3 DEF Selection
<1>3. CASE DOMAIN req.selected # {}
  <2>1. Hashes(req, DOMAIN req.selected)
          = {Displayed(req, d) : d \in {e \in Trees(req) : IsSelected(req, e)}}
    BY <1>3 DEF Hashes, IsSelected
  <2>2. TreeSelected(req, c)
          <=> \E d \in TreesOf(req, c) : IsSelected(req, d) /\ Displayed(req, d) = row[c].hash
    BY <1>3 DEF TreeSelected
  <2>3. TreesOf(req, c) \subseteq Trees(req)
    BY DEF TreesOf
  <2> QED BY <1>1, <2>1, <2>2, <2>3 DEF Selection
<1> QED
  BY <1>2, <1>3

LEMMA RecordFacts ==
    ASSUME References, NEW req
    PROVE  /\ \A r \in Records(req) :
                /\ r.test \in In("tests") /\ r.build = row[r.test].build
                /\ r.asked => r.test \in ShownTestsOf(req)
           /\ \A t \in ShownTestsOf(req) :
                \E r \in Records(req) : r.test = t /\ r.build = row[t].build /\ r.asked
<1> DEFINE hashes == {Displayed(req, c) : c \in Trees(req)}
           found == {t \in In("tests") : /\ RanOn(req, t) /\ InPeriod(req, t)
                                         /\ row[CheckoutOf(t)].hash \in hashes
                                         /\ TreesOf(req, CheckoutOf(t)) # {}}
           recordsOf(t) == {[test |-> t, build |-> row[t].build, own |-> i, ofBuild |-> j,
                             asked |-> TreeSelected(req, CheckoutOf(t))] :
                              i \in LeftJoin(OfTest(t)), j \in LeftJoin(OfBuild(row[t].build))}
<1>1. Records(req) = UNION {recordsOf(t) : t \in found}
  BY DEF Records
<1>2. \A t \in In("tests") :
        CheckoutOf(t) \in Selection(req)
          <=> TreesOf(req, CheckoutOf(t)) # {} /\ TreeSelected(req, CheckoutOf(t))
  BY TestPlace DEF Selection
<1>3. \A t \in In("tests") : t \in found /\ TreeSelected(req, CheckoutOf(t)) <=> t \in ShownTestsOf(req)
  BY <1>2, TestPlace, AskedIsSelected DEF SelectedTests, ShownTestsOf
<1>4. ASSUME NEW t \in found
      PROVE  /\ recordsOf(t) # {}
             /\ \A r \in recordsOf(t) :
                  r.test = t /\ r.build = row[t].build /\ r.asked = TreeSelected(req, CheckoutOf(t))
  <2>1. LeftJoin(OfTest(t)) # {} /\ LeftJoin(OfBuild(row[t].build)) # {}
    BY DEF LeftJoin
  <2>2. PICK i \in LeftJoin(OfTest(t)), j \in LeftJoin(OfBuild(row[t].build)) : TRUE
    BY <2>1
  <2>3. [test |-> t, build |-> row[t].build, own |-> i, ofBuild |-> j,
         asked |-> TreeSelected(req, CheckoutOf(t))] \in recordsOf(t)
    OBVIOUS
  <2>4. \A r \in recordsOf(t) :
          r.test = t /\ r.build = row[t].build /\ r.asked = TreeSelected(req, CheckoutOf(t))
    OBVIOUS
  <2> QED BY <2>3, <2>4
<1>5. found \subseteq In("tests") /\ ShownTestsOf(req) \subseteq In("tests")
  BY DEF SelectedTests, ShownTestsOf
<1> HIDE DEF found, recordsOf
<1>6. ASSUME NEW r \in Records(req)
      PROVE  /\ r.test \in In("tests") /\ r.build = row[r.test].build
             /\ r.asked => r.test \in ShownTestsOf(req)
  <2>1. PICK t \in found : r \in recordsOf(t)
    BY <1>1
  <2> QED BY <1>3, <1>4, <1>5, <2>1
<1>7. ASSUME NEW t \in ShownTestsOf(req)
      PROVE  \E r \in Records(req) : r.test = t /\ r.build = row[t].build /\ r.asked
  <2>1. t \in found /\ TreeSelected(req, CheckoutOf(t))
    BY <1>3, <1>5
  <2>2. PICK r : r \in recordsOf(t)
    BY <1>4, <2>1
  <2>3. r \in Records(req)
    BY <1>1, <2>1, <2>2
  <2> QED BY <1>4, <2>1, <2>2, <2>3
<1> QED
  BY <1>6, <1>7

(* Under a plain filter the groups of the summary and the records of the   *)
(* details are let through alike.                                          *)
LEMMA PlainGroups ==
    ASSUME References, NEW f, Plain(f), NEW t \in In("tests"), NEW kind \in Kinds \cup {"build"},
           NEW status, NEW lab
    PROVE  GroupOut(f, kind, status, ConfigOf(row[t].build), lab, Range(row[t].compatible))
           <=> \/ ~Lets(f.status[kind], status)
               \/ RecordOut(f, Compatibles(t), ConfigOf(row[t].build), lab)
<1>1. Null \notin f.status[kind] /\ Unknown \notin f.hardware
  BY DEF Plain
<1>2. f.hardware \cap Range(row[t].compatible) = {} <=> f.hardware \cap Compatibles(t) = {}
  <2>1. CASE row[t].compatible = <<>>
    <3>1. Range(row[t].compatible) = {}
      BY <2>1 DEF Range
    <3>2. Compatibles(t) = {Unknown}
      BY <2>1 DEF Compatibles
    <3> QED BY <1>1, <3>1, <3>2
  <2>2. CASE row[t].compatible # <<>>
    BY <2>2 DEF Compatibles
  <2> QED BY <2>1, <2>2
<1> QED
  BY <1>1, <1>2 DEF GroupOut, RecordOut, Lets

(* What a plain filter asks of a test: of the details, and of the summary. *)
ListsTest(f, kind, t) ==
    /\ KindOf(t) = kind
    /\ ~RecordOut(f, Compatibles(t), ConfigOf(row[t].build), row[t].lab)
    /\ Lets(f.status[kind], Status(t))
    /\ ~DurationOut(f, kind, row[t].duration)
CountsTest(f, kind, t) == ListsTest(f, kind, t) /\ ~OverByAFraction(f, kind, row[t].duration)

LEMMA HardwareTestsAre ==
    ASSUME References, NEW req, NEW f, Plain(f), NEW kind \in Kinds
    PROVE  HardwareTests(Records(req), f, kind) = {t \in ShownTestsOf(req) : ListsTest(f, kind, t)}
<1>1. \A r \in Records(req) : HardwareTestPasses(f, r, kind) <=> r.asked /\ ListsTest(f, kind, r.test)
  <2> SUFFICES ASSUME NEW r \in Records(req)
               PROVE  HardwareTestPasses(f, r, kind) <=> r.asked /\ ListsTest(f, kind, r.test)
    OBVIOUS
  <2>1. r.test \in In("tests") /\ r.test # None /\ r.build = row[r.test].build
    BY RecordFacts DEF References
  <2>2. \A path, issue, ofTest, platform :
          TestOut(f, kind, row[r.test], path, issue, ofTest, platform)
            <=> ~Lets(f.status[kind], Status(r.test)) \/ DurationOut(f, kind, row[r.test].duration)
    BY DEF TestOut, Plain, NoIssues, NoPlatforms, Lets, TestIssueOut, Status
  <2>3. HardwareRecordOut(f, r)
          <=> ~r.asked \/ RecordOut(f, Compatibles(r.test), ConfigOf(row[r.test].build), row[r.test].lab)
    BY <2>1 DEF HardwareRecordOut, LabOf
  <2> QED BY <2>2, <2>3 DEF HardwareTestPasses, ListsTest
<1> QED
  BY <1>1, RecordFacts DEF HardwareTests

LEMMA SummaryTestsAre ==
    ASSUME References, NEW req, NEW f \in Filters, Plain(f), BootBoundsHold(f), NEW kind \in Kinds
    PROVE  SummaryTestRows(req, f, Hashes(req, DOMAIN req.selected), kind)
             = UNION {{<<t, i>> : i \in LeftJoin(OfTest(t))} :
                        t \in {u \in SelectedTests(req) : CountsTest(f, kind, u)}}
<1> DEFINE hashes == Hashes(req, DOMAIN req.selected)
           Counts(t) == /\ KindOf(t) = kind /\ RanOn(req, t) /\ InPeriod(req, t)
                        /\ row[CheckoutOf(t)].hash \in hashes
                        /\ TestDurationAsked(f, t)
                        /\ ~GroupOut(f, kind, Status(t), ConfigOf(row[t].build), row[t].lab,
                                     Range(row[t].compatible))
           pairs == UNION {{<<t, i>> : i \in LeftJoin(OfTest(t))} : t \in In("tests")}
<1>1. ASSUME NEW t \in In("tests"), KindOf(t) = kind
      PROVE  TestDurationAsked(f, t)
             <=> ~DurationOut(f, kind, row[t].duration) /\ ~OverByAFraction(f, kind, row[t].duration)
  <2>1. DurationAsked(f, kind, row[t].duration)
          <=> ~DurationOut(f, kind, row[t].duration) /\ ~OverByAFraction(f, kind, row[t].duration)
    BY DurationRead DEF References
  <2>2. ASSUME row[t].path = None, DurationAsked(f, kind, row[t].duration)
        PROVE  DurationAsked(f, "boot", row[t].duration)
    <3>1. kind = "test"
      BY <1>1, <2>2 DEF KindOf, IsBoot, None
    <3>2. ~PlainPaths
      BY <2>2 DEF PlainPaths
    <3>3. f.min["boot"] \in {NoBound, f.min["test"]} /\ f.max["boot"] \in {NoBound, f.max["test"]}
      BY <3>2 DEF BootBoundsHold
    <3> QED BY <2>2, <3>1, <3>3 DEF DurationAsked
  <2> QED BY <1>1, <2>1, <2>2 DEF TestDurationAsked
<1>2. ASSUME NEW t \in In("tests")
      PROVE  Counts(t) <=> t \in SelectedTests(req) /\ CountsTest(f, kind, t)
  <2>1. GroupOut(f, kind, Status(t), ConfigOf(row[t].build), row[t].lab, Range(row[t].compatible))
          <=> \/ ~Lets(f.status[kind], Status(t))
              \/ RecordOut(f, Compatibles(t), ConfigOf(row[t].build), row[t].lab)
    BY PlainGroups
  <2> QED BY <1>1, <2>1 DEF SelectedTests, CountsTest, ListsTest
<1>3. SummaryTestRows(req, f, hashes, kind) = {q \in pairs : Counts(q[1])}
  BY DEF SummaryTestRows
<1>4. ASSUME NEW p
      PROVE  p \in SummaryTestRows(req, f, hashes, kind)
             <=> \E t \in {u \in SelectedTests(req) : CountsTest(f, kind, u)} :
                   \E i \in LeftJoin(OfTest(t)) : p = <<t, i>>
  <2>1. p \in pairs <=> \E t \in In("tests") : \E i \in LeftJoin(OfTest(t)) : p = <<t, i>>
    OBVIOUS
  <2>2. \A t, i : p = <<t, i>> => p[1] = t
    OBVIOUS
  <2>3. SelectedTests(req) \subseteq In("tests")
    BY DEF SelectedTests
  <2> HIDE DEF Counts, pairs
  <2> QED BY <1>2, <1>3, <2>1, <2>2, <2>3
<1> QED
  BY <1>4

(* One pair for each element: as many pairs as elements.                   *)
LEMMA PairsCount ==
    ASSUME NEW S, IsFiniteSet(S), NEW e
    PROVE  Cardinality({<<x, e[x]>> : x \in S}) = Cardinality(S)
<1> DEFINE T == {<<x, e[x]>> : x \in S}
           f == [x \in S |-> <<x, e[x]>>]
<1>1. f \in Bijection(S, T)
  <2>1. f \in [S -> T]
    OBVIOUS
  <2>2. \A x, y \in S : f[x] = f[y] => x = y
    OBVIOUS
  <2>3. \A p \in T : \E x \in S : f[x] = p
    OBVIOUS
  <2> HIDE DEF f, T
  <2> QED BY <2>1, <2>2, <2>3 DEF Bijection, Injection, Surjection, IsInjective
<1>2. ExistsBijection(S, T)
  BY <1>1 DEF ExistsBijection
<1> QED
  BY <1>2, FS_Bijection

LEMMA HardwareTestsHold ==
    ASSUME References, \A table : IsFiniteSet(In(table))
    PROVE  HardwareTestsAgree
<1> SUFFICES ASSUME NEW req \in HardwareRequests,
                    NEW f \in Filters, NEW kind \in Kinds, Plain(f), BootBoundsHold(f)
             PROVE  LET rows == SummaryTestRows(req, f, Hashes(req, DOMAIN req.selected), kind)
                        counted == {p[1] : p \in rows}
                    IN  /\ {t \in counted : CheckoutOf(t) \in Selection(req)}
                             = {t \in HardwareTests(Records(req), f, kind) :
                                  ~OverByAFraction(f, kind, row[t].duration)}
                        /\ Apart(req) => \A t \in counted : CheckoutOf(t) \in Selection(req)
                        /\ (\A t \in counted : Cardinality(OfTest(t)) <= 1)
                             => Cardinality(rows) = Cardinality(counted)
  BY DEF HardwareTestsAgree
<1> DEFINE counts == {u \in SelectedTests(req) : CountsTest(f, kind, u)}
           rows == SummaryTestRows(req, f, Hashes(req, DOMAIN req.selected), kind)
<1>1. counts \subseteq In("tests") /\ rows = UNION {{<<t, i>> : i \in LeftJoin(OfTest(t))} : t \in counts}
  BY SummaryTestsAre DEF SelectedTests
<1>2. {t \in counts : CheckoutOf(t) \in Selection(req)}
        = {t \in HardwareTests(Records(req), f, kind) : ~OverByAFraction(f, kind, row[t].duration)}
  BY HardwareTestsAre DEF CountsTest, ShownTestsOf
<1>3. Apart(req) => \A t \in counts : CheckoutOf(t) \in Selection(req)
  BY <1>1, TestPlace, AskedIsSelected DEF SelectedTests
<1> HIDE DEF counts, rows
<1>4. {p[1] : p \in rows} = counts
  <2>1. \A p \in rows : p[1] \in counts
    BY <1>1
  <2>2. ASSUME NEW t \in counts PROVE \E p \in rows : p[1] = t
    <3>1. PICK i : i \in LeftJoin(OfTest(t))
      BY DEF LeftJoin
    <3>2. <<t, i>> \in rows
      BY <1>1, <3>1
    <3> QED BY <3>2
  <2> QED BY <2>1, <2>2
<1>5. ASSUME \A t \in counts : Cardinality(OfTest(t)) <= 1
      PROVE  Cardinality(rows) = Cardinality(counts)
  <2> DEFINE e == [t \in counts |-> CHOOSE i : i \in LeftJoin(OfTest(t))]
  <2>1. ASSUME NEW t \in counts
        PROVE  LeftJoin(OfTest(t)) = {e[t]}
    <3>1. IsFiniteSet(OfTest(t))
      BY FS_Subset DEF OfTest
    <3>2. Cardinality(OfTest(t)) \in {0, 1}
      BY <1>5, <3>1, FS_CardinalityType
    <3>3. PICK x : LeftJoin(OfTest(t)) = {x}
      <4>1. OfTest(t) = {} \/ \E x : OfTest(t) = {x}
        BY <3>1, <3>2, FS_EmptySet, FS_Singleton
      <4> QED BY <4>1 DEF LeftJoin
    <3> QED BY <3>3
  <2> HIDE DEF e
  <2>2. rows = {<<t, e[t]>> : t \in counts}
    BY <1>1, <2>1
  <2>3. IsFiniteSet(counts)
    BY <1>1, FS_Subset
  <2> QED BY <2>2, <2>3, PairsCount
<1> QED
  BY <1>2, <1>3, <1>4, <1>5 DEF rows

LEMMA HardwareBuildsHold == ASSUME References PROVE HardwareBuildsAgree
<1> SUFFICES ASSUME NEW req \in HardwareRequests, BuildsAlongside(req),
                    NEW f \in Filters, Plain(f), f.lab = {}
             PROVE  LET counted == {g[1] : g \in SummaryBuildRows(req, f, Hashes(req, DOMAIN req.selected))}
                    IN  /\ {b \in counted : row[b].checkout \in Selection(req)}
                             = {b \in HardwareBuilds(Records(req), f) :
                                  ~OverByAFraction(f, "build", row[b].duration)}
                        /\ Apart(req) => \A b \in counted : row[b].checkout \in Selection(req)
  BY DEF HardwareBuildsAgree
<1> DEFINE hashes == Hashes(req, DOMAIN req.selected)
           Passes(t) == LET b == row[t].build IN
             /\ ~row[b].dummy
             /\ ~RecordOut(f, Compatibles(t), ConfigOf(b), row[t].lab)
             /\ Lets(f.status["build"], Status(b))
             /\ ~DurationOut(f, "build", row[b].duration)
           Over(b) == OverByAFraction(f, "build", row[b].duration)
<1>1. \A r \in Records(req) : HardwareBuildPasses(f, r) <=> r.asked /\ Passes(r.test)
  <2> SUFFICES ASSUME NEW r \in Records(req)
               PROVE  HardwareBuildPasses(f, r) <=> r.asked /\ Passes(r.test)
    OBVIOUS
  <2>1. r.test \in In("tests") /\ r.test # None /\ r.build = row[r.test].build
    BY RecordFacts DEF References
  <2>2. \A issue, ofTest :
          BuildOut(f, row[r.build], issue, ofTest)
            <=> ~Lets(f.status["build"], Status(r.build)) \/ DurationOut(f, "build", row[r.build].duration)
    BY DEF BuildOut, Plain, NoIssues, Lets, BuildIssueOut, Status, Kinds
  <2>3. HardwareRecordOut(f, r)
          <=> ~r.asked \/ RecordOut(f, Compatibles(r.test), ConfigOf(r.build), row[r.test].lab)
    BY <2>1 DEF HardwareRecordOut, LabOf
  <2> QED BY <2>1, <2>2, <2>3 DEF HardwareBuildPasses
<1>2. HardwareBuilds(Records(req), f) = {row[t].build : t \in {u \in ShownTestsOf(req) : Passes(u)}}
  <2> HIDE DEF Passes
  <2> QED BY <1>1, RecordFacts DEF HardwareBuilds
<1> DEFINE asked == {u \in In("tests") : req.hardware \in Range(row[u].compatible) \cup {row[u].platform}}
           group(t) == <<row[t].build, row[t].compatible, row[t].platform>>
           Counts(g) == LET b == g[1] IN
             /\ row[b].origin = req.origin /\ InPeriod(req, b)
             /\ row[b].config # Unknown /\ ~row[b].dummy
             /\ row[row[b].checkout].hash \in hashes
             /\ DurationAsked(f, "build", row[b].duration)
             /\ ~GroupOut(f, "build", Status(b), row[b].config, row[b].lab, Range(g[2]))
<1>3. SummaryBuildRows(req, f, hashes) = {g \in {group(t) : t \in asked} : Counts(g)}
  BY DEF SummaryBuildRows
<1>4. ASSUME NEW t \in asked
      PROVE  Counts(group(t)) <=> t \in SelectedTests(req) /\ Passes(t) /\ ~Over(row[t].build)
  <2> DEFINE b == row[t].build
  <2>1. group(t)[1] = b /\ group(t)[2] = row[t].compatible
    OBVIOUS
  <2>2. /\ row[b].origin = row[t].origin /\ row[b].config # Unknown
        /\ InPeriod(req, b) /\ InPeriod(req, t)
    BY DEF BuildsAlongside
  <2>3. t \in In("tests") /\ b # None /\ row[b].config = ConfigOf(b) /\ row[b].checkout = CheckoutOf(t)
    BY DEF References, ConfigOf, CheckoutOf
  <2>4. GroupOut(f, "build", Status(b), ConfigOf(b), row[b].lab, Range(row[t].compatible))
          <=> \/ ~Lets(f.status["build"], Status(b))
              \/ RecordOut(f, Compatibles(t), ConfigOf(b), row[b].lab)
    BY <2>3, PlainGroups
  <2>5. RecordOut(f, Compatibles(t), ConfigOf(b), row[b].lab)
          <=> RecordOut(f, Compatibles(t), ConfigOf(b), row[t].lab)
    BY DEF RecordOut, Lets
  <2>6. t \in SelectedTests(req) <=> row[b].origin = req.origin /\ row[row[b].checkout].hash \in hashes
    BY <2>2, <2>3 DEF SelectedTests, RanOn
  <2>7. DurationAsked(f, "build", row[b].duration)
          <=> ~DurationOut(f, "build", row[b].duration) /\ ~OverByAFraction(f, "build", row[b].duration)
    BY DurationRead DEF References
  <2> HIDE DEF b, group
  <2> QED BY <2>1, <2>2, <2>3, <2>4, <2>5, <2>6, <2>7 DEF b
<1>5. SelectedTests(req) \subseteq asked
  BY DEF SelectedTests, RanOn
<1>6. \A t : group(t)[1] = row[t].build
  OBVIOUS
<1> DEFINE counted == {g[1] : g \in SummaryBuildRows(req, f, hashes)}
<1>7. counted
        = {row[t].build : t \in {u \in SelectedTests(req) : Passes(u) /\ ~Over(row[u].build)}}
  <2> HIDE DEF Counts, Passes, Over, group, asked
  <2>1. counted = {group(t)[1] : t \in {u \in asked : Counts(group(u))}}
    BY <1>3
  <2> QED BY <1>4, <1>5, <1>6, <2>1
<1>8. \A t \in SelectedTests(req) : CheckoutOf(t) = row[row[t].build].checkout /\ CheckoutOf(t) \in In("checkouts")
  BY TestPlace DEF CheckoutOf, SelectedTests
<1> HIDE DEF Passes, Over, Counts, group, asked, counted
<1>9. {b \in counted : row[b].checkout \in Selection(req)} = {b \in HardwareBuilds(Records(req), f) : ~Over(b)}
  BY <1>2, <1>7, <1>8 DEF ShownTestsOf
<1>10. Apart(req) => \A b \in counted : row[b].checkout \in Selection(req)
  BY <1>7, <1>8, AskedIsSelected DEF SelectedTests
<1> QED
  BY <1>9, <1>10 DEF Over, counted

-----------------------------------------------------------------------------
(* The pages of a commit.                                                  *)
Builds(req) == UNION {BuildsOf(c) : c \in Relevant(req)}

Blames(b, t) == LeftJoin(OfTest(t) \cup OfBuild(b))

LEMMA DetailsRow ==
    ASSUME NEW req, NEW r
    PROVE  r \in DetailsRows(req)
           <=> \E c \in Relevant(req) : \E b \in LeftJoin(BuildsOf(c)) :
                 \E t \in LeftJoin(TestsOf(b)) : \E i \in Blames(b, t) : r = <<b, t, i>>
<1> DEFINE builds == UNION {LeftJoin(BuildsOf(c)) : c \in Relevant(req)}
<1>1. \A p : p \in BuildTests(Relevant(req))
             <=> \E b \in builds : \E t \in LeftJoin(TestsOf(b)) : p = <<b, t>>
  BY DEF BuildTests
<1>2. r \in DetailsRows(req) <=> \E p \in BuildTests(Relevant(req)) : r \in WithIncidents(p[1], p[2])
  BY DEF DetailsRows
<1>3. \A b, t : r \in WithIncidents(b, t) <=> \E i \in Blames(b, t) : r = <<b, t, i>>
  BY DEF WithIncidents, Blames
<1>4. r \in DetailsRows(req)
        <=> \E b \in builds : \E t \in LeftJoin(TestsOf(b)) : r \in WithIncidents(b, t)
  <2> HIDE DEF builds
  <2> DEFINE Holds(p) == r \in WithIncidents(p[1], p[2])
  <2>1. \A b, t : Holds(<<b, t>>) <=> r \in WithIncidents(b, t)
    OBVIOUS
  <2>2. r \in DetailsRows(req) <=> \E p \in BuildTests(Relevant(req)) : Holds(p)
    BY <1>2
  <2> HIDE DEF Holds
  <2>3. (\E p \in BuildTests(Relevant(req)) : Holds(p))
          <=> \E b \in builds : \E t \in LeftJoin(TestsOf(b)) : Holds(<<b, t>>)
    <3>1. ASSUME NEW p \in BuildTests(Relevant(req)), Holds(p)
          PROVE  \E b \in builds : \E t \in LeftJoin(TestsOf(b)) : Holds(<<b, t>>)
      <4>1. PICK b \in builds : \E t \in LeftJoin(TestsOf(b)) : p = <<b, t>>
        BY <1>1
      <4>2. PICK t \in LeftJoin(TestsOf(b)) : p = <<b, t>>
        BY <4>1
      <4> QED BY <3>1, <4>2
    <3>2. ASSUME NEW b \in builds, NEW t \in LeftJoin(TestsOf(b)), Holds(<<b, t>>)
          PROVE  \E p \in BuildTests(Relevant(req)) : Holds(p)
      <4>1. <<b, t>> \in BuildTests(Relevant(req))
        BY <1>1
      <4> QED BY <3>2, <4>1
    <3> QED BY <3>1, <3>2
  <2> QED BY <2>1, <2>2, <2>3
<1>5. \A b : b \in builds <=> \E c \in Relevant(req) : b \in LeftJoin(BuildsOf(c))
  OBVIOUS
<1> HIDE DEF builds
<1> DEFINE Shows(b) == \E t \in LeftJoin(TestsOf(b)) : \E i \in Blames(b, t) : r = <<b, t, i>>
<1>6. r \in DetailsRows(req) <=> \E b \in builds : Shows(b)
  BY <1>3, <1>4
<1>7. (\E b \in builds : Shows(b)) <=> \E c \in Relevant(req) : \E b \in LeftJoin(BuildsOf(c)) : Shows(b)
  <2> HIDE DEF Shows
  <2> QED BY <1>5
<1> QED
  BY <1>6, <1>7

LEMMA TestsOfCommit ==
    ASSUME References, NEW req
    PROVE  /\ Tests(req) \subseteq In("tests")
           /\ \A t \in In("tests") : t \in Tests(req) <=> CheckoutOf(t) \in Relevant(req)
           /\ \A t : t \in Tests(req) => row[t].build \in Builds(req) /\ t \in TestsOf(row[t].build)
           /\ \A t, b : b \in Builds(req) /\ t \in TestsOf(b) => t \in Tests(req)
BY TestPlace DEF Tests, Builds, CheckoutOf

LEMMA BuildsOfCommit ==
    ASSUME References, NEW req
    PROVE  /\ Builds(req) \subseteq In("builds")
           /\ \A b \in In("builds") : b \in Builds(req) <=> row[b].checkout \in Relevant(req)
BY DEF Builds, BuildsOf

(* The rows of the tests, and those of the builds.                         *)
LEMMA TestRows ==
    ASSUME References, NEW req, NEW r
    PROVE  r \in DetailsRows(req) /\ r[2] # None
           <=> \E t \in Tests(req) : \E i \in Blames(row[t].build, t) : r = <<row[t].build, t, i>>
<1>1. ASSUME r \in DetailsRows(req), r[2] # None
      PROVE  \E t \in Tests(req) : \E i \in Blames(row[t].build, t) : r = <<row[t].build, t, i>>
  <2>1. PICK c \in Relevant(req) : \E b \in LeftJoin(BuildsOf(c)) :
          \E t \in LeftJoin(TestsOf(b)) : \E i \in Blames(b, t) : r = <<b, t, i>>
    BY <1>1, DetailsRow
  <2>2. PICK b \in LeftJoin(BuildsOf(c)) :
          \E t \in LeftJoin(TestsOf(b)) : \E i \in Blames(b, t) : r = <<b, t, i>>
    BY <2>1
  <2>3. PICK t \in LeftJoin(TestsOf(b)) : \E i \in Blames(b, t) : r = <<b, t, i>>
    BY <2>2
  <2>4. t # None
    BY <1>1, <2>3
  <2>5. t \in TestsOf(b)
    BY <2>4 DEF LeftJoin
  <2>6. t \in In("tests") /\ row[t].build = b /\ b # None
    BY <2>5, TestPlace DEF References
  <2>7. b \in BuildsOf(c)
    BY <2>6 DEF LeftJoin
  <2>8. t \in Tests(req)
    BY <2>5, <2>7 DEF Tests
  <2> QED BY <2>3, <2>6, <2>8
<1>2. ASSUME NEW t \in Tests(req), NEW i \in Blames(row[t].build, t), r = <<row[t].build, t, i>>
      PROVE  r \in DetailsRows(req) /\ r[2] # None
  <2>1. PICK c \in Relevant(req) : row[t].build \in BuildsOf(c)
    BY TestsOfCommit DEF Builds
  <2>2. row[t].build \in LeftJoin(BuildsOf(c)) /\ t \in LeftJoin(TestsOf(row[t].build))
    BY <2>1, TestsOfCommit DEF LeftJoin
  <2>3. t # None
    BY TestsOfCommit DEF References
  <2> QED BY <1>2, <2>1, <2>2, <2>3, DetailsRow
<1> QED
  BY <1>1, <1>2

LEMMA BuildRows ==
    ASSUME References, NEW req, NEW r
    PROVE  r \in DetailsRows(req) /\ r[1] # None
           <=> \E b \in Builds(req) : \E t \in LeftJoin(TestsOf(b)) : \E i \in Blames(b, t) : r = <<b, t, i>>
<1>1. ASSUME r \in DetailsRows(req), r[1] # None
      PROVE  \E b \in Builds(req) : \E t \in LeftJoin(TestsOf(b)) : \E i \in Blames(b, t) : r = <<b, t, i>>
  <2>1. PICK c \in Relevant(req) : \E b \in LeftJoin(BuildsOf(c)) :
          \E t \in LeftJoin(TestsOf(b)) : \E i \in Blames(b, t) : r = <<b, t, i>>
    BY <1>1, DetailsRow
  <2>2. PICK b \in LeftJoin(BuildsOf(c)) :
          \E t \in LeftJoin(TestsOf(b)) : \E i \in Blames(b, t) : r = <<b, t, i>>
    BY <2>1
  <2>3. b # None
    BY <1>1, <2>2
  <2>4. b \in Builds(req)
    BY <2>3 DEF LeftJoin, Builds
  <2> QED BY <2>2, <2>4
<1>2. ASSUME NEW b \in Builds(req), NEW t \in LeftJoin(TestsOf(b)), NEW i \in Blames(b, t), r = <<b, t, i>>
      PROVE  r \in DetailsRows(req) /\ r[1] # None
  <2>1. PICK c \in Relevant(req) : b \in BuildsOf(c)
    BY DEF Builds
  <2>2. b \in LeftJoin(BuildsOf(c)) /\ b # None
    BY <2>1, BuildsOfCommit DEF LeftJoin, References
  <2> QED BY <1>2, <2>1, <2>2, DetailsRow
<1> QED
  BY <1>1, <1>2

(* What the details list, test by test and build by build.                 *)
TestListed(f, kind, t) ==
    \E i \in Blames(row[t].build, t) : TestPasses(f, <<row[t].build, t, i>>, kind)

BuildListed(f, b) ==
    \E t \in LeftJoin(TestsOf(b)) : \E i \in Blames(b, t) : BuildPasses(f, <<b, t, i>>)

LEMMA DetailsTestsAre ==
    ASSUME References, NEW req, NEW f, NEW kind
    PROVE  DetailsTests(DetailsRows(req), f, kind) = {t \in Tests(req) : TestListed(f, kind, t)}
<1>1. \A r : TestPasses(f, r, kind) => r[2] # None
  BY DEF TestPasses
<1>2. ASSUME NEW r \in DetailsRows(req), TestPasses(f, r, kind)
      PROVE  r[2] \in Tests(req) /\ TestListed(f, kind, r[2])
  <2>1. PICK t \in Tests(req) : \E i \in Blames(row[t].build, t) : r = <<row[t].build, t, i>>
    BY <1>1, <1>2, TestRows
  <2>2. r[2] = t
    BY <2>1
  <2> QED BY <1>2, <2>1, <2>2 DEF TestListed
<1>3. ASSUME NEW t \in Tests(req), NEW i \in Blames(row[t].build, t),
             TestPasses(f, <<row[t].build, t, i>>, kind)
      PROVE  t \in DetailsTests(DetailsRows(req), f, kind)
  <2> DEFINE r == <<row[t].build, t, i>>
  <2>1. r \in DetailsRows(req) /\ r[2] = t
    BY TestRows
  <2> QED BY <1>3, <2>1 DEF DetailsTests
<1>4. \A t \in DetailsTests(DetailsRows(req), f, kind) :
        \E r \in DetailsRows(req) : TestPasses(f, r, kind) /\ t = r[2]
  BY DEF DetailsTests
<1>5. \A t \in Tests(req) : TestListed(f, kind, t) => t \in DetailsTests(DetailsRows(req), f, kind)
  BY <1>3 DEF TestListed
<1> QED
  BY <1>2, <1>4, <1>5

LEMMA DetailsBuildsAre ==
    ASSUME References, NEW req, NEW f
    PROVE  DetailsBuilds(DetailsRows(req), f) = {b \in Builds(req) : BuildListed(f, b)}
<1>1. \A r : BuildPasses(f, r) => r[1] # None
  BY DEF BuildPasses
<1>2. ASSUME NEW r \in DetailsRows(req), BuildPasses(f, r)
      PROVE  r[1] \in Builds(req) /\ BuildListed(f, r[1])
  <2>1. PICK b \in Builds(req) :
          \E t \in LeftJoin(TestsOf(b)) : \E i \in Blames(b, t) : r = <<b, t, i>>
    BY <1>1, <1>2, BuildRows
  <2>2. r[1] = b
    BY <2>1
  <2> QED BY <1>2, <2>1, <2>2 DEF BuildListed
<1>3. ASSUME NEW b \in Builds(req), NEW t \in LeftJoin(TestsOf(b)), NEW i \in Blames(b, t),
             BuildPasses(f, <<b, t, i>>)
      PROVE  b \in DetailsBuilds(DetailsRows(req), f)
  <2> DEFINE r == <<b, t, i>>
  <2>1. r \in DetailsRows(req) /\ r[1] = b
    BY BuildRows
  <2> QED BY <1>3, <2>1 DEF DetailsBuilds
<1>4. \A b \in DetailsBuilds(DetailsRows(req), f) :
        \E r \in DetailsRows(req) : BuildPasses(f, r) /\ b = r[1]
  BY DEF DetailsBuilds
<1>5. \A b \in Builds(req) : BuildListed(f, b) => b \in DetailsBuilds(DetailsRows(req), f)
  BY <1>3 DEF BuildListed
<1> QED
  BY <1>2, <1>4, <1>5

(* A filter on known issues is met through an incident of the test only.   *)
LEMMA BlamedPasses ==
    ASSUME References, OneSubject, NEW f, NEW kind, KnownIssues(f, kind), f.issues[kind] # {},
           NEW t \in In("tests"), NEW i \in Blames(row[t].build, t),
           ~TestIssueOut(f.issues[kind], IssueShown(row[t].build, t, i), TestOfIncident(i))
    PROVE  i \in OfTest(t)
<1> DEFINE b == row[t].build
           shown == IssueShown(b, t, i)
<1>1. (IF OnlyOfBuild(shown, TestOfIncident(i)) THEN <<Uncategorized[1], shown[2]>> ELSE shown)
        \in f.issues[kind]
  BY DEF TestIssueOut
<1>2. ~KnownIssue(Uncategorized) /\ ~KnownIssue(NoIssue) /\ \A v : ~KnownIssue(<<Uncategorized[1], v>>)
  BY DEF KnownIssue, Uncategorized, NoIssue, None
<1>3. KnownIssue(shown) /\ TestOfIncident(i) # None
  <2> HIDE DEF shown
  <2> QED BY <1>1, <1>2 DEF KnownIssues, OnlyOfBuild
<1>4. i # None
  BY <1>2, <1>3 DEF IssueShown, IssueOfIncident
<1>5. i \in OfTest(t) \cup OfBuild(b)
  BY <1>4 DEF Blames, LeftJoin
<1>6. CASE i \in OfBuild(b)
  <2>1. row[i].test = None
    BY <1>6 DEF OfBuild, OneSubject
  <2> QED BY <1>3, <1>4, <2>1 DEF TestOfIncident
<1> QED
  BY <1>5, <1>6

LEMMA OwnIncidentsSuffice ==
    ASSUME References, OneSubject, NEW f, NEW kind, KnownIssues(f, kind), NEW t \in In("tests")
    PROVE  (\E i \in Blames(row[t].build, t) : TestPasses(f, <<row[t].build, t, i>>, kind))
           <=> \E i \in LeftJoin(OfTest(t)) : TestPasses(f, <<row[t].build, t, i>>, kind)
<1> DEFINE b == row[t].build
           Rest == /\ t # None /\ KindOf(t) = kind
                   /\ ~RecordOut(f, {DetailsHardware(b, t)}, ConfigOf(b), LabOf(t))
                   /\ Lets(f.path[kind], PathShown(t)) /\ Lets(f.status[kind], Status(t))
                   /\ ~DurationOut(f, kind, row[t].duration)
                   /\ Lets(f.platform[kind], None) /\ Lets(f.origin[kind], row[t].origin)
           IssueOut(i) == TestIssueOut(f.issues[kind], IssueShown(b, t, i), TestOfIncident(i))
<1>1. ASSUME NEW i
      PROVE  TestPasses(f, <<b, t, i>>, kind) <=> Rest /\ ~IssueOut(i)
  <2> DEFINE r == <<b, t, i>>
  <2>1. r[1] = b /\ r[2] = t /\ r[3] = i
    OBVIOUS
  <2> HIDE DEF r, b
  <2> QED BY <2>1 DEF TestPasses, RowOut, TestOut, Status, r
<1>2. Blames(b, t) # {} /\ LeftJoin(OfTest(t)) # {}
  BY DEF Blames, LeftJoin
<1> HIDE DEF Rest
<1>3. CASE f.issues[kind] = {}
  <2>1. \A i : ~IssueOut(i)
    BY <1>3 DEF TestIssueOut
  <2> HIDE DEF IssueOut
  <2> QED BY <1>1, <1>2, <2>1
<1>4. CASE f.issues[kind] # {}
  <2>1. \A i \in Blames(b, t) : ~IssueOut(i) => i \in OfTest(t)
    BY <1>4, BlamedPasses
  <2>2. \A i \in LeftJoin(OfTest(t)) : ~IssueOut(i) => i \in OfTest(t)
    <3> SUFFICES ASSUME None \in LeftJoin(OfTest(t)), ~IssueOut(None)
                 PROVE  None \in OfTest(t)
      BY DEF LeftJoin
    <3> DEFINE shown == IssueShown(b, t, None)
    <3>1. shown \in {Uncategorized, NoIssue}
      BY DEF IssueShown, IssueOfIncident
    <3>2. ~KnownIssue(shown)
      BY <3>1 DEF KnownIssue, Uncategorized, NoIssue, None
    <3>3. shown \in f.issues[kind]
      <4> HIDE DEF shown
      <4>1. ~TestIssueOut(f.issues[kind], shown, TestOfIncident(None))
        BY DEF shown
      <4> QED BY <1>4, <3>2, <4>1 DEF TestIssueOut, OnlyOfBuild
    <3> QED BY <3>2, <3>3 DEF KnownIssues
  <2>3. \A i \in OfTest(t) : i \in LeftJoin(OfTest(t)) /\ i \in Blames(b, t)
    BY DEF LeftJoin, Blames
  <2> HIDE DEF IssueOut
  <2> QED BY <1>1, <2>1, <2>2, <2>3
<1> QED
  BY <1>3, <1>4

LEMMA TabsHold == ASSUME References PROVE TabsMatchDetails
<1> SUFFICES ASSUME OneSubject, NEW req \in Requests, NEW f \in Filters, NEW kind \in Kinds,
                    KnownIssues(f, kind)
             PROVE  (IF kind = "boot" THEN TabBoots(req, f) ELSE TabTests(req, f))
                      = {t \in DetailsTests(DetailsRows(req), f, kind) : row[t].path # None}
  BY DEF TabsMatchDetails
<1> DEFINE own == {t \in Tests(req) : row[t].path # None /\ KindOf(t) = kind}
           rows == UNION {{<<row[t].build, t, i>> : i \in LeftJoin(OfTest(t))} : t \in own}
           tab == {r[2] : r \in {s \in TabRows(req, kind) : TestPasses(f, s, kind)}}
<1>1. (IF kind = "boot" THEN TabBoots(req, f) ELSE TabTests(req, f)) = tab
  BY DEF TabBoots, TabTests, Kinds
<1>2. TabRows(req, kind) = rows
  BY DEF TabRows, Tests, Kinds
<1>3. tab = {t \in own : \E i \in LeftJoin(OfTest(t)) : TestPasses(f, <<row[t].build, t, i>>, kind)}
  <2>1. ASSUME NEW r \in rows, TestPasses(f, r, kind)
        PROVE  r[2] \in own /\ \E i \in LeftJoin(OfTest(r[2])) : TestPasses(f, <<row[r[2]].build, r[2], i>>, kind)
    <3>1. PICK t \in own : \E i \in LeftJoin(OfTest(t)) : r = <<row[t].build, t, i>>
      OBVIOUS
    <3>2. r[2] = t
      BY <3>1
    <3> QED BY <2>1, <3>1, <3>2
  <2>2. ASSUME NEW t \in own, NEW i \in LeftJoin(OfTest(t)), TestPasses(f, <<row[t].build, t, i>>, kind)
        PROVE  \E r \in rows : TestPasses(f, r, kind) /\ r[2] = t
    <3>1. <<row[t].build, t, i>> \in rows /\ <<row[t].build, t, i>>[2] = t
      OBVIOUS
    <3> QED BY <2>2, <3>1
  <2> HIDE DEF own, rows
  <2> QED BY <1>2, <2>1, <2>2
<1>5. \A t, i : TestPasses(f, <<row[t].build, t, i>>, kind) => KindOf(t) = kind
  BY DEF TestPasses
<1> DEFINE Own(t) == \E i \in LeftJoin(OfTest(t)) : TestPasses(f, <<row[t].build, t, i>>, kind)
<1>6. \A t \in Tests(req) : TestListed(f, kind, t) <=> Own(t)
  BY OwnIncidentsSuffice, TestsOfCommit DEF TestListed
<1>7. \A t : Own(t) => KindOf(t) = kind
  BY <1>5
<1>8. DetailsTests(DetailsRows(req), f, kind) = {t \in Tests(req) : TestListed(f, kind, t)}
  BY DetailsTestsAre
<1>9. tab = {t \in own : Own(t)}
  BY <1>3
<1> HIDE DEF Own, tab
<1> QED
  BY <1>1, <1>6, <1>7, <1>8, <1>9

(* The newest of some checkouts, and the commit a request names.           *)
LEMMA NewestThere ==
    ASSUME References, \A table : IsFiniteSet(In(table)),
           NEW C \in SUBSET In("checkouts"), C # {}
    PROVE  Newest(C) # {} /\ Newest(C) \subseteq C
<1> DEFINE g == [c \in C |-> row[c].stamp]
<1>1. IsFiniteSet(C)
  BY FS_Subset
<1>2. g \in [C -> Nat]
  BY DEF References
<1>3. PICK last \in C : \A c \in C : g[c] <= g[last]
  <2> HIDE DEF g
  <2> QED BY <1>1, <1>2, GreatestOf
<1>4. last \in Newest(C)
  BY <1>3 DEF Newest
<1> QED
  BY <1>4 DEF Newest

LEMMA CommitNamed ==
    ASSUME References, \A table : IsFiniteSet(In(table)), NEW req, OneTree(req)
    PROVE  /\ Found(req) \subseteq Relevant(req)
           /\ \A c \in Relevant(req), d \in In("checkouts") : Named(req, d) => row[c].hash = row[d].hash
           /\ \A c \in Relevant(req), d \in Found(req) : TreeKey(c) = TreeKey(d)
           /\ \A c \in Relevant(req) :
                c \in Selected(req) /\ \E d \in In("checkouts") : Named(req, d) /\ row[c].hash = row[d].hash
<1> DEFINE C == {c \in In("checkouts") : Named(req, c)}
<1>1. \A c \in Relevant(req) :
        c \in Selected(req) /\ \E d \in In("checkouts") : Named(req, d) /\ row[c].hash = row[d].hash
  BY DEF Relevant, Newest
<1>2. \A c \in Relevant(req), d \in In("checkouts") : Named(req, d) => row[c].hash = row[d].hash
  BY <1>1 DEF OneTree
<1>3. Found(req) \subseteq Relevant(req)
  <2> SUFFICES ASSUME NEW c \in Found(req) PROVE c \in Relevant(req)
    OBVIOUS
  <2>1. c \in Selected(req) /\ c \in C
    BY DEF Found, Selected
  <2>2. PICK d \in Newest(C) : d \in C
    <3> HIDE DEF C
    <3>1. C \in SUBSET In("checkouts")
      BY DEF C
    <3> QED BY <2>1, <3>1, NewestThere
  <2>3. row[d].hash = row[c].hash
    BY <2>1, <2>2 DEF OneTree
  <2> QED BY <2>1, <2>2, <2>3 DEF Relevant
<1>4. \A c \in Relevant(req), d \in Found(req) : TreeKey(c) = TreeKey(d)
  <2> SUFFICES ASSUME NEW c \in Relevant(req), NEW d \in Found(req) PROVE TreeKey(c) = TreeKey(d)
    OBVIOUS
  <2>1. row[c].tree = row[d].tree
    BY DEF OneTree
  <2>2. row[c].origin = row[d].origin
    BY <1>1 DEF Found, Selected
  <2>3. row[c].hash = row[d].hash
    BY <1>2 DEF Found, Selected
  <2> QED BY <2>1, <2>2, <2>3 DEF TreeKey
<1> QED
  BY <1>1, <1>2, <1>3, <1>4

(* A rollup that has rows for the request has those of its commit.         *)
LEMMA RolledAreTests ==
    ASSUME References, \A table : IsFiniteSet(In(table)), DOMAIN rolled \subseteq In("tests"),
           NEW req, OneTree(req), AllRolled(req), RolledOf(req) # {}
    PROVE  RolledOf(req) = Tests(req)
<1>1. PICK head \in Newest(Found(req)) : head \in Found(req)
  BY DEF RolledOf, Newest
<1>2. ASSUME NEW t \in RolledOf(req)
      PROVE  t \in Tests(req)
  <2>1. PICK c \in Found(req) : TreeKey(CheckoutOf(t)) = TreeKey(c)
    BY DEF RolledOf, Newest
  <2>2. t \in In("tests") /\ CheckoutOf(t) \in In("checkouts")
    BY TestPlace DEF RolledOf
  <2>3. row[CheckoutOf(t)].origin = row[c].origin /\ row[CheckoutOf(t)].tree = row[c].tree
        /\ row[CheckoutOf(t)].hash = row[c].hash
    BY <2>1 DEF TreeKey
  <2>4. c \in Relevant(req)
    BY CommitNamed
  <2>5. CheckoutOf(t) \in Relevant(req)
    BY <2>2, <2>3, <2>4 DEF Relevant, Selected
  <2> QED BY <2>2, <2>5, TestsOfCommit
<1>3. ASSUME NEW t \in Tests(req)
      PROVE  t \in RolledOf(req)
  <2>1. t \in DOMAIN rolled /\ CheckoutOf(t) \in Relevant(req)
    BY TestsOfCommit DEF AllRolled
  <2>2. TreeKey(CheckoutOf(t)) = TreeKey(head)
    BY <1>1, <2>1, CommitNamed
  <2> QED BY <1>1, <2>1, <2>2 DEF RolledOf
<1> QED
  BY <1>2, <1>3

LEMMA RolledAsListed ==
    ASSUME References, NEW t \in In("tests"), NEW kind \in Kinds, NEW f,
           NoDurations(f), NoIssues(f), NoPlatforms(f), f.path[kind] = {},
           f.hardware = {} \/ \A b \in In("builds") : BuildPlatform(b) = Unknown
    PROVE  RollupPasses(f, t, kind) <=> TestListed(f, kind, t)
<1> DEFINE b == row[t].build
           Rest == /\ KindOf(t) = kind
                   /\ ~RecordOut(f, {RollupHardware(t)}, ConfigOf(b), LabOf(t))
                   /\ Lets(f.status[kind], Status(t)) /\ Lets(f.origin[kind], row[t].origin)
<1>1. b \in In("builds") /\ b # None /\ t # None
  BY DEF References
<1>2. \A config, lab : RecordOut(f, {DetailsHardware(b, t)}, config, lab)
                         <=> RecordOut(f, {RollupHardware(t)}, config, lab)
  <2>1. CASE f.hardware = {}
    BY <2>1 DEF RecordOut
  <2>2. CASE BuildPlatform(b) = Unknown
    <3>1. DetailsHardware(b, t) = RollupHardware(t)
      BY <1>1, <2>2 DEF DetailsHardware, RollupHardware
    <3> QED BY <3>1
  <2> QED BY <1>1, <2>1, <2>2
<1>3. RollupPasses(f, t, kind) <=> Rest
  BY DEF RollupPasses, NoIssues, NoPlatforms, TestIssueOut, Lets
<1>4. ASSUME NEW i
      PROVE  TestPasses(f, <<b, t, i>>, kind) <=> Rest
  <2> DEFINE r == <<b, t, i>>
  <2>1. r[1] = b /\ r[2] = t /\ r[3] = i
    OBVIOUS
  <2>2. TestPasses(f, r, kind)
          <=> /\ KindOf(t) = kind
              /\ ~RecordOut(f, {DetailsHardware(b, t)}, ConfigOf(b), LabOf(t))
              /\ ~TestOut(f, kind, row[t], PathShown(t), IssueShown(b, t, i), TestOfIncident(i), None)
    <3> HIDE DEF r, b
    <3> QED BY <1>1, <2>1 DEF TestPasses, RowOut
  <2>3. \A path, issue, ofTest :
          TestOut(f, kind, row[t], path, issue, ofTest, None)
            <=> ~Lets(f.status[kind], Status(t)) \/ ~Lets(f.origin[kind], row[t].origin)
    BY DEF TestOut, NoDurations, DurationOut, NoIssues, NoPlatforms, TestIssueOut, Lets, Status
  <2> QED BY <1>2, <2>2, <2>3
<1>5. \E i : i \in Blames(b, t)
  BY DEF Blames, LeftJoin
<1> HIDE DEF Rest
<1> QED
  BY <1>3, <1>4, <1>5 DEF TestListed

LEMMA SummaryHolds ==
    ASSUME References, \A table : IsFiniteSet(In(table)), DOMAIN rolled \subseteq In("tests")
    PROVE  SummaryMatchesDetails
<1> SUFFICES ASSUME NEW req \in Requests, OneTree(req), AllRolled(req), NEW f \in Filters, NEW kind \in Kinds,
                    NoDurations(f) \/ FallsBack(req, f), NoIssues(f), NoPlatforms(f),
                    f.hardware = {} \/ \A b \in In("builds") : BuildPlatform(b) = Unknown
             PROVE  SummaryTests(req, f, kind) = DetailsTests(DetailsRows(req), f, kind)
  BY DEF SummaryMatchesDetails
<1>1. CASE FallsBack(req, f)
  BY <1>1 DEF SummaryTests
<1>2. CASE ~FallsBack(req, f)
  <2>1. RolledOf(req) # {} /\ f.path[kind] = {} /\ NoDurations(f)
    BY <1>2 DEF FallsBack
  <2>2. RolledOf(req) = Tests(req)
    BY <2>1, RolledAreTests
  <2>3. SummaryTests(req, f, kind) = {t \in Tests(req) : RollupPasses(f, t, kind)}
    BY <1>2, <2>2 DEF SummaryTests
  <2>4. \A t \in Tests(req) : RollupPasses(f, t, kind) <=> TestListed(f, kind, t)
    BY <2>1, RolledAsListed, TestsOfCommit
  <2> QED BY <2>3, <2>4, DetailsTestsAre
<1> QED
  BY <1>1, <1>2

(* A failed test that nothing explains is one row of the details.          *)
LEMMA UnblamedRowsCount ==
    ASSUME NEW S, IsFiniteSet(S)
    PROVE  Cardinality({<<row[t].build, t, None>> : t \in S}) = Cardinality(S)
<1> DEFINE T == {<<row[t].build, t, None>> : t \in S}
           f == [t \in S |-> <<row[t].build, t, None>>]
<1>1. f \in Bijection(S, T)
  <2>1. f \in [S -> T]
    OBVIOUS
  <2>2. \A t, u \in S : f[t] = f[u] => t = u
    OBVIOUS
  <2>3. \A r \in T : \E t \in S : f[t] = r
    OBVIOUS
  <2> HIDE DEF f, T
  <2> QED BY <2>1, <2>2, <2>3 DEF Bijection, Injection, Surjection, IsInjective
<1>2. ExistsBijection(S, T)
  BY <1>1 DEF ExistsBijection
<1> QED
  BY <1>2, FS_Bijection

LEMMA UnblamedRowsAre ==
    ASSUME References, NEW req, NEW f, NEW kind,
           \A t \in Tests(req) : OfBuild(row[t].build) = {}
    PROVE  {r \in DetailsRows(req) :
              /\ TestPasses(f, r, kind) /\ Status(r[2]) = "FAIL"
              /\ TestIssueOf(IssueOfIncident(r[3]), TestOfIncident(r[3])) = NoIssue}
             = {<<row[t].build, t, None>> :
                  t \in {u \in Tests(req) : TestListed(f, kind, u) /\ Status(u) = "FAIL" /\ OfTest(u) = {}}}
<1> DEFINE Unexplained(r) ==
             /\ TestPasses(f, r, kind) /\ Status(r[2]) = "FAIL"
             /\ TestIssueOf(IssueOfIncident(r[3]), TestOfIncident(r[3])) = NoIssue
           S == {u \in Tests(req) : TestListed(f, kind, u) /\ Status(u) = "FAIL" /\ OfTest(u) = {}}
<1>1. \A t \in Tests(req) : Blames(row[t].build, t) = LeftJoin(OfTest(t))
  BY DEF Blames
<1>2. ASSUME NEW t \in In("tests"), NEW i \in OfTest(t)
      PROVE  TestIssueOf(IssueOfIncident(i), TestOfIncident(i)) # NoIssue
  <2>1. i \in In("incidents") /\ row[i].test = t /\ t # None
    BY DEF OfTest
  <2>2. i # None /\ KnownIssue(row[i].issue)
    BY <2>1 DEF References
  <2>3. row[i].issue # NoIssue
    BY <2>2 DEF KnownIssue, NoIssue
  <2> QED BY <2>1, <2>2, <2>3 DEF TestIssueOf, IssueOfIncident, TestOfIncident
<1>3. TestIssueOf(IssueOfIncident(None), TestOfIncident(None)) = NoIssue
  BY DEF TestIssueOf, IssueOfIncident, TestOfIncident
<1>4. ASSUME NEW r \in DetailsRows(req), Unexplained(r)
      PROVE  \E t \in S : r = <<row[t].build, t, None>>
  <2>1. r[2] # None
    BY <1>4 DEF TestPasses
  <2>2. PICK t \in Tests(req) : \E i \in Blames(row[t].build, t) : r = <<row[t].build, t, i>>
    BY <2>1, TestRows
  <2>3. PICK i \in LeftJoin(OfTest(t)) : r = <<row[t].build, t, i>>
    BY <1>1, <2>2
  <2>4. r[2] = t /\ r[3] = i
    BY <2>3
  <2>5. i \notin OfTest(t)
    BY <1>2, <1>4, <2>4, TestsOfCommit
  <2>6. OfTest(t) = {} /\ i = None
    BY <2>5 DEF LeftJoin
  <2>7. TestListed(f, kind, t)
    BY <1>1, <1>4, <2>3 DEF TestListed
  <2> QED BY <1>4, <2>3, <2>4, <2>6, <2>7
<1>5. ASSUME NEW t \in S
      PROVE  <<row[t].build, t, None>> \in DetailsRows(req) /\ Unexplained(<<row[t].build, t, None>>)
  <2> DEFINE r == <<row[t].build, t, None>>
  <2>1. Blames(row[t].build, t) = {None}
    BY <1>1 DEF LeftJoin
  <2>2. TestPasses(f, r, kind)
    BY <2>1 DEF TestListed
  <2>3. r \in DetailsRows(req)
    BY <2>1, TestRows
  <2>4. r[2] = t /\ r[3] = None
    OBVIOUS
  <2> HIDE DEF r
  <2> QED BY <1>3, <2>2, <2>3, <2>4 DEF r
<1>6. {r \in DetailsRows(req) : Unexplained(r)} = {<<row[t].build, t, None>> : t \in S}
  <2> HIDE DEF Unexplained, S
  <2> QED BY <1>4, <1>5
<1> QED
  BY <1>6

LEMMA UnknownHolds ==
    ASSUME References, \A table : IsFiniteSet(In(table)), DOMAIN rolled \subseteq In("tests")
    PROVE  UnknownAgrees
<1> SUFFICES ASSUME NEW req \in Requests, OneTree(req), AllRolled(req),
                    \A t \in Tests(req) :
                      OfBuild(row[t].build) = {} /\ (rolled[t] = NoIssue <=> OfTest(t) = {})
             PROVE  \A f \in Filters, kind \in Kinds :
                      NoDurations(f) /\ NoIssues(f) /\ NoHardware(f)
                      => SummaryUnknown(req, f, kind) = DetailsUnknown(DetailsRows(req), f, kind)
  BY Zenon DEF UnknownAgrees
<1> TAKE f \in Filters, kind \in Kinds
<1> HAVE NoDurations(f) /\ NoIssues(f) /\ NoHardware(f)
<1> DEFINE S == {t \in Tests(req) : TestListed(f, kind, t) /\ Status(t) = "FAIL" /\ OfTest(t) = {}}
<1>1. CASE FallsBack(req, f)
  BY <1>1 DEF SummaryUnknown
<1>2. CASE ~FallsBack(req, f)
  <2>1. SummaryTests(req, f, kind) = {t \in Tests(req) : TestListed(f, kind, t)}
    BY SummaryHolds, DetailsTestsAre DEF SummaryMatchesDetails, NoHardware
  <2>2. \A t \in Tests(req) : RolledUncategorized(t) <=> Status(t) = "FAIL" /\ OfTest(t) = {}
    BY DEF RolledUncategorized
  <2>3. {t \in SummaryTests(req, f, kind) : RolledUncategorized(t)} = S
    BY <2>1, <2>2
  <2>4. SummaryUnknown(req, f, kind) = Cardinality(S)
    BY <1>2, <2>3 DEF SummaryUnknown
  <2>5. S \subseteq In("tests")
    BY TestsOfCommit
  <2>6. DetailsUnknown(DetailsRows(req), f, kind) = Cardinality({<<row[t].build, t, None>> : t \in S})
    <3>1. \A t \in Tests(req) : OfBuild(row[t].build) = {}
      OBVIOUS
    <3>2. {r \in DetailsRows(req) :
             /\ TestPasses(f, r, kind) /\ Status(r[2]) = "FAIL"
             /\ TestIssueOf(IssueOfIncident(r[3]), TestOfIncident(r[3])) = NoIssue}
            = {<<row[t].build, t, None>> : t \in S}
      BY <3>1, UnblamedRowsAre
    <3> HIDE DEF S
    <3> QED BY <3>2, Zenon DEF DetailsUnknown
  <2> HIDE DEF S
  <2>7. Cardinality({<<row[t].build, t, None>> : t \in S}) = Cardinality(S)
    BY <2>5, FS_Subset, UnblamedRowsCount
  <2> QED BY <2>4, <2>6, <2>7
<1> QED
  BY <1>1, <1>2

(* What a filter without hardware asks of a build, and of an incident.     *)
BuildAsked(f, b) ==
    /\ ~row[b].dummy /\ Lets(f.config, row[b].config)
    /\ Lets(f.status["build"], Status(b)) /\ Lets(f.origin["build"], row[b].origin)
    /\ ~DurationOut(f, "build", row[b].duration)

IssueMet(f, b, i) ==
    \/ f.issues["build"] = {}
    \/ /\ Status(b) \in BuildFailures
       /\ i \in In("incidents") /\ row[i].test = None /\ row[i].issue \in f.issues["build"]

LEMMA IssueMetIs ==
    ASSUME References, NEW f, KnownIssues(f, "build"), NEW b, NEW t, NEW i \in In("incidents") \cup {None}
    PROVE  ~BuildIssueOut(f.issues["build"], IssueShown(b, t, i), TestOfIncident(i), Status(b))
           <=> IssueMet(f, b, i)
<1> DEFINE shown == IssueShown(b, t, i)
           asked == f.issues["build"]
<1>1. CASE asked = {}
  BY <1>1 DEF BuildIssueOut, IssueMet
<1>2. CASE asked # {} /\ i = None
  <2>1. shown \in {Uncategorized, NoIssue} /\ TestOfIncident(i) = None
    BY <1>2 DEF IssueShown, IssueOfIncident, TestOfIncident
  <2>2. ~KnownIssue(shown) /\ ~KnownIssue(<<Uncategorized[1], shown[2]>>)
    BY <2>1 DEF KnownIssue, Uncategorized, NoIssue, None
  <2>3. <<Uncategorized[1], shown[2]>> \notin asked
    BY <2>2 DEF KnownIssues
  <2>4. i \notin In("incidents")
    BY <1>2 DEF References
  <2> HIDE DEF shown
  <2>5. BuildIssueOut(asked, shown, TestOfIncident(i), Status(b))
    BY <1>2, <2>1, <2>2, <2>3 DEF BuildIssueOut
  <2> QED BY <1>2, <2>4, <2>5 DEF IssueMet, shown
<1>3. CASE asked # {} /\ i \in In("incidents")
  <2>1. i # None /\ KnownIssue(row[i].issue)
    BY <1>3 DEF References
  <2>2. shown = row[i].issue /\ TestOfIncident(i) = row[i].test
    BY <2>1 DEF IssueShown, IssueOfIncident, TestOfIncident, KnownIssue, NoIssue
  <2>3. \A v : ~KnownIssue(<<Uncategorized[1], v>>)
    BY DEF KnownIssue, Uncategorized, None
  <2>4. \A v : <<Uncategorized[1], v>> \notin asked
    BY <2>3 DEF KnownIssues
  <2> HIDE DEF shown
  <2>5. BuildIssueOut(asked, shown, TestOfIncident(i), Status(b))
          <=> Status(b) \notin BuildFailures \/ row[i].test # None \/ row[i].issue \notin asked
    BY <1>3, <2>1, <2>2, <2>4 DEF BuildIssueOut, OnlyOfTest
  <2> QED BY <1>3, <2>5 DEF IssueMet, shown
<1> QED
  BY <1>1, <1>2, <1>3

LEMMA BuildPassesIs ==
    ASSUME References, NEW f, KnownIssues(f, "build"), f.hardware = {}, f.lab = {},
           NEW b \in In("builds"), NEW t, NEW i \in In("incidents") \cup {None}
    PROVE  /\ BuildPasses(f, <<b, t, i>>) <=> BuildAsked(f, b) /\ IssueMet(f, b, i)
           /\ TestOfIncident(i) = None =>
                (~row[b].dummy /\ SummaryBuildPasses(f, b, i) <=> BuildAsked(f, b) /\ IssueMet(f, b, i))
<1> DEFINE r == <<b, t, i>>
<1>1. r[1] = b /\ r[2] = t /\ r[3] = i /\ b # None
  BY DEF References
<1>2. \A hardware, lab : RecordOut(f, hardware, ConfigOf(b), lab) <=> ~Lets(f.config, row[b].config)
  BY <1>1 DEF RecordOut, Lets, ConfigOf
<1>3. \A u : BuildOut(f, row[b], IssueShown(b, u, i), TestOfIncident(i))
               <=> \/ ~Lets(f.status["build"], Status(b)) \/ ~Lets(f.origin["build"], row[b].origin)
                   \/ DurationOut(f, "build", row[b].duration) \/ ~IssueMet(f, b, i)
  BY IssueMetIs DEF BuildOut, Status
<1> HIDE DEF r
<1>4. BuildPasses(f, r) <=> BuildAsked(f, b) /\ IssueMet(f, b, i)
  BY <1>1, <1>2, <1>3 DEF BuildPasses, RowOut, BuildAsked
<1>5. TestOfIncident(i) = None =>
        (~row[b].dummy /\ SummaryBuildPasses(f, b, i) <=> BuildAsked(f, b) /\ IssueMet(f, b, i))
  BY <1>2, <1>3 DEF SummaryBuildPasses, BuildAsked
<1> QED
  BY <1>4, <1>5 DEF r

LEMMA RelevantIsFound ==
    ASSUME References, \A table : IsFiniteSet(In(table)), NEW req, OneTree(req), NamedAlike(req)
    PROVE  Relevant(req) = Found(req)
<1>1. Selected(req) \subseteq In("checkouts")
  BY DEF Selected
<1>2. \A c \in Relevant(req) : c \in Found(req)
  BY <1>1, CommitNamed DEF NamedAlike, Found
<1> QED
  BY <1>2, CommitNamed

(* Whichever incidents are looked at, those of the build alone decide.     *)
BuildShown(f, b) ==
    /\ BuildAsked(f, b)
    /\ f.issues["build"] = {} \/ \E i \in OfBuild(b) : IssueMet(f, b, i)

LEMMA BuildShownIs ==
    ASSUME References, NEW f, KnownIssues(f, "build"), f.hardware = {}, f.lab = {}, NEW b \in In("builds")
    PROVE  /\ BuildListed(f, b) <=> BuildShown(f, b)
           /\ (\E i \in LeftJoin(OfBuild(b)) : BuildPasses(f, <<b, None, i>>)) <=> BuildShown(f, b)
           /\ (\E i \in LeftJoin({j \in OfBuild(b) : row[j].test = None}) :
                 ~row[b].dummy /\ SummaryBuildPasses(f, b, i)) <=> BuildShown(f, b)
<1> DEFINE own == {j \in OfBuild(b) : row[j].test = None}
<1>0. \A i : IssueMet(f, b, i) => f.issues["build"] = {} \/ (i # None /\ row[i].test = None)
  BY DEF IssueMet, References
<1>1. \A t : OfBuild(b) \subseteq Blames(b, t) /\ Blames(b, t) # {}
             /\ Blames(b, t) \subseteq In("incidents") \cup {None}
  BY DEF Blames, LeftJoin, OfTest, OfBuild
<1>2. LeftJoin(OfBuild(b)) # {} /\ LeftJoin(own) # {} /\ LeftJoin(TestsOf(b)) # {}
      /\ OfBuild(b) \subseteq LeftJoin(OfBuild(b)) /\ own \subseteq LeftJoin(own)
      /\ LeftJoin(OfBuild(b)) \subseteq OfBuild(b) \cup {None} /\ LeftJoin(own) \subseteq own \cup {None}
      /\ OfBuild(b) \subseteq In("incidents")
  BY DEF LeftJoin, OfBuild
<1>3. \A t : \A i \in Blames(b, t) : IssueMet(f, b, i) => f.issues["build"] = {} \/ i \in OfBuild(b)
  BY <1>0 DEF Blames, LeftJoin, OfTest
<1>4. BuildListed(f, b) <=> BuildShown(f, b)
  <2>1. BuildListed(f, b)
          <=> \E t \in LeftJoin(TestsOf(b)) : \E i \in Blames(b, t) : BuildAsked(f, b) /\ IssueMet(f, b, i)
    BY <1>1, BuildPassesIs DEF BuildListed
  <2>2. f.issues["build"] = {} => \A i : IssueMet(f, b, i)
    BY DEF IssueMet
  <2> QED BY <1>1, <1>2, <1>3, <2>1, <2>2 DEF BuildShown
<1>5. (\E i \in LeftJoin(OfBuild(b)) : BuildPasses(f, <<b, None, i>>)) <=> BuildShown(f, b)
  <2>1. \A i \in LeftJoin(OfBuild(b)) :
          BuildPasses(f, <<b, None, i>>) <=> BuildAsked(f, b) /\ IssueMet(f, b, i)
    BY <1>2, BuildPassesIs
  <2>2. f.issues["build"] = {} => \A i : IssueMet(f, b, i)
    BY DEF IssueMet
  <2> QED BY <1>0, <1>2, <2>1, <2>2 DEF BuildShown
<1>6. (\E i \in LeftJoin(own) : ~row[b].dummy /\ SummaryBuildPasses(f, b, i)) <=> BuildShown(f, b)
  <2>1. \A i \in LeftJoin(own) : TestOfIncident(i) = None
    BY <1>2 DEF TestOfIncident
  <2>2. \A i \in LeftJoin(own) :
          ~row[b].dummy /\ SummaryBuildPasses(f, b, i) <=> BuildAsked(f, b) /\ IssueMet(f, b, i)
    BY <1>2, <2>1, BuildPassesIs
  <2>3. f.issues["build"] = {} => \A i : IssueMet(f, b, i)
    BY DEF IssueMet
  <2> HIDE DEF own
  <2>4. \A i \in OfBuild(b) : IssueMet(f, b, i) => f.issues["build"] = {} \/ i \in own
    BY <1>0 DEF own
  <2>5. own \subseteq OfBuild(b)
    BY DEF own
  <2> QED BY <1>0, <1>2, <2>2, <2>3, <2>4, <2>5 DEF BuildShown
<1> QED
  BY <1>4, <1>5, <1>6

LEMMA BuildListsHold ==
    ASSUME References, \A table : IsFiniteSet(In(table))
    PROVE  BuildListsAgree
<1> SUFFICES ASSUME NEW req \in Requests, OneTree(req), NamedAlike(req),
                    NEW f \in Filters, NoHardware(f), KnownIssues(f, "build")
             PROVE  /\ DetailsBuilds(DetailsRows(req), f) = SummaryBuilds(req, f)
                    /\ DetailsBuilds(DetailsRows(req), f) = TabBuilds(req, f)
  BY DEF BuildListsAgree
<1> DEFINE own(b) == LeftJoin({j \in OfBuild(b) : row[j].test = None})
           all(b) == LeftJoin(OfBuild(b))
           shown == {b \in Builds(req) : BuildShown(f, b)}
<1>1. f.hardware = {} /\ f.lab = {}
  BY DEF NoHardware
<1>2. DetailsBuilds(DetailsRows(req), f) = shown
  BY <1>1, DetailsBuildsAre, BuildShownIs, BuildsOfCommit
<1>3. SummaryBuilds(req, f) = shown
  <2> DEFINE rows == UNION {{<<b, i>> : i \in own(b)} : b \in Builds(req)}
             Passes(s) == ~row[s[1]].dummy /\ SummaryBuildPasses(f, s[1], s[2])
  <2>1. BuildsOfSummary(req) = rows
    BY RelevantIsFound DEF BuildsOfSummary, Builds
  <2>2. SummaryBuilds(req, f) = {r[1] : r \in {s \in rows : Passes(s)}}
    BY <2>1 DEF SummaryBuilds
  <2>3. \A b \in Builds(req) : BuildShown(f, b) <=> \E i \in own(b) : Passes(<<b, i>>)
    <3>1. \A b, i : Passes(<<b, i>>) <=> ~row[b].dummy /\ SummaryBuildPasses(f, b, i)
      OBVIOUS
    <3> HIDE DEF Passes
    <3> QED BY <1>1, <3>1, BuildShownIs, BuildsOfCommit
  <2> HIDE DEF Passes, own
  <2>4. ASSUME NEW s \in rows, Passes(s)
        PROVE  s[1] \in shown
    <3>1. PICK b \in Builds(req) : \E i \in own(b) : s = <<b, i>>
      OBVIOUS
    <3>2. PICK i \in own(b) : s = <<b, i>>
      BY <3>1
    <3>3. s[1] = b
      BY <3>2
    <3> QED BY <2>3, <2>4, <3>2, <3>3
  <2>5. ASSUME NEW b \in shown
        PROVE  \E s \in rows : Passes(s) /\ s[1] = b
    <3>1. PICK i \in own(b) : Passes(<<b, i>>)
      BY <2>3
    <3>2. <<b, i>> \in rows /\ <<b, i>>[1] = b
      OBVIOUS
    <3> QED BY <3>1, <3>2
  <2> HIDE DEF rows, shown
  <2> QED BY <2>2, <2>4, <2>5
<1>4. TabBuilds(req, f) = shown
  <2> DEFINE rows == UNION {{<<b, None, i>> : i \in all(b)} : b \in Builds(req)}
  <2>1. TabRows(req, "build") = rows
    BY DEF TabRows, Builds
  <2>2. TabBuilds(req, f) = {r[1] : r \in {s \in rows : BuildPasses(f, s)}}
    BY <2>1 DEF TabBuilds
  <2>3. \A b \in Builds(req) : BuildShown(f, b) <=> \E i \in all(b) : BuildPasses(f, <<b, None, i>>)
    BY <1>1, BuildShownIs, BuildsOfCommit
  <2> HIDE DEF all
  <2>4. ASSUME NEW s \in rows, BuildPasses(f, s)
        PROVE  s[1] \in shown
    <3>1. PICK b \in Builds(req) : \E i \in all(b) : s = <<b, None, i>>
      OBVIOUS
    <3>2. PICK i \in all(b) : s = <<b, None, i>>
      BY <3>1
    <3>3. s[1] = b
      BY <3>2
    <3> QED BY <2>3, <2>4, <3>2, <3>3
  <2>5. ASSUME NEW b \in shown
        PROVE  \E s \in rows : BuildPasses(f, s) /\ s[1] = b
    <3>1. PICK i \in all(b) : BuildPasses(f, <<b, None, i>>)
      BY <2>3
    <3>2. <<b, None, i>> \in rows /\ <<b, None, i>>[1] = b
      OBVIOUS
    <3> QED BY <3>1, <3>2
  <2> HIDE DEF rows, shown
  <2> QED BY <2>2, <2>4, <2>5
<1> QED
  BY <1>2, <1>3, <1>4

-----------------------------------------------------------------------------
(* The history of commits.                                                 *)
HistoryRow(types, b, t, v, i) ==
    [build |-> IF "builds" \in types THEN b ELSE None, test |-> t, issue |-> v, ofTest |-> TestOfIncident(i)]

LEMMA HistoryRowsAre ==
    ASSUME NEW c, NEW types, NEW r
    PROVE  r \in HistoryRows(c, types)
           <=> \E b \in LeftJoin(BuildsOf(c)) : \E t \in LeftJoin(JoinedTests(types, b)) :
                 \E i \in Blames(b, t) : \E v \in Versions(i) : r = HistoryRow(types, b, t, v, i)
<1> DEFINE ofIncident(b, t, i) == {HistoryRow(types, b, t, v, i) : v \in Versions(i)}
           ofTest(b, t) == UNION {ofIncident(b, t, i) : i \in LeftJoin(OfBuild(b) \cup OfTest(t))}
           ofBuild(b) == UNION {ofTest(b, t) : t \in LeftJoin(JoinedTests(types, b))}
<1>1. HistoryRows(c, types) = UNION {ofBuild(b) : b \in LeftJoin(BuildsOf(c))}
  BY DEF HistoryRows, HistoryRow
<1>2. \A b, t, i : r \in ofIncident(b, t, i) <=> \E v \in Versions(i) : r = HistoryRow(types, b, t, v, i)
  OBVIOUS
<1>3. \A b, t : LeftJoin(OfBuild(b) \cup OfTest(t)) = Blames(b, t)
  <2>1. \A b, t : OfBuild(b) \cup OfTest(t) = OfTest(t) \cup OfBuild(b)
    OBVIOUS
  <2> QED BY <2>1 DEF Blames
<1> HIDE DEF ofIncident
<1>4. \A b, t : r \in ofTest(b, t) <=> \E i \in Blames(b, t) : r \in ofIncident(b, t, i)
  <2> SUFFICES ASSUME NEW b, NEW t
               PROVE  r \in ofTest(b, t) <=> \E i \in Blames(b, t) : r \in ofIncident(b, t, i)
    OBVIOUS
  <2>1. LeftJoin(OfBuild(b) \cup OfTest(t)) = Blames(b, t)
    BY <1>3
  <2>2. ofTest(b, t) = UNION {ofIncident(b, t, i) : i \in Blames(b, t)}
    BY <2>1
  <2> QED BY <2>2
<1> HIDE DEF ofTest
<1>5. \A b : r \in ofBuild(b) <=> \E t \in LeftJoin(JoinedTests(types, b)) : r \in ofTest(b, t)
  OBVIOUS
<1> HIDE DEF ofBuild
<1>6. r \in HistoryRows(c, types) <=> \E b \in LeftJoin(BuildsOf(c)) : r \in ofBuild(b)
  BY <1>1
<1> QED
  BY <1>2, <1>4, <1>5, <1>6

(* The commit of the request is in its history.                            *)
LEMMA HeadIsShown ==
    ASSUME References, \A table : IsFiniteSet(In(table)), NEW req, OneTree(req), Found(req) # {}
    PROVE  Found(req) \subseteq SelectedCheckouts(req)
<1>1. Found(req) \in SUBSET In("checkouts")
  BY DEF Found, Selected
<1>2. PICK last \in Found(req) : row[last].start = HeadStart(req)
  BY <1>1, StartBounds DEF HeadStart
<1>3. \A c \in Found(req) : row[c].start <= HeadStart(req)
  BY <1>1, StartBounds DEF HeadStart
<1>4. Found(req) \subseteq Earlier(req)
  BY <1>3 DEF Earlier, Found
<1>5. \A c \in Earlier(req) : row[c].start <= row[last].start /\ row[c].start \in Nat /\ row[last].start \in Nat
  BY <1>1, <1>2 DEF Earlier, References, Selected
<1>6. last \in LastOfCommit(req)
  BY <1>2, <1>4, <1>5 DEF LastOfCommit
<1>7. {e \in LastOfCommit(req) : row[e].start > row[last].start} = {}
  BY <1>5 DEF LastOfCommit
<1>8. Cardinality({e \in LastOfCommit(req) : row[e].start > row[last].start}) < CommitLimit
  BY <1>7, FS_EmptySet, CommitLimitAssumption
<1>9. \A c \in Found(req) : row[c].hash = row[last].hash
  BY DEF OneTree, Found, Selected
<1> QED
  BY <1>4, <1>6, <1>8, <1>9 DEF SelectedCheckouts

LEMMA HeadHistory ==
    ASSUME References, \A table : IsFiniteSet(In(table)), NEW req, OneTree(req), NamedAlike(req),
           NEW head \in Found(req)
    PROVE  HistoryOf(req, row[head].hash) = Found(req)
<1>1. ASSUME NEW c \in Found(req)
      PROVE  c \in HistoryOf(req, row[head].hash)
  <2>1. row[c].hash = row[head].hash
    BY DEF OneTree, Found, Selected
  <2> QED BY <2>1, HeadIsShown DEF HistoryOf
<1>2. ASSUME NEW c \in HistoryOf(req, row[head].hash)
      PROVE  c \in Found(req)
  <2>1. c \in Selected(req) /\ row[c].hash = row[head].hash
    BY DEF HistoryOf, SelectedCheckouts, Earlier
  <2>2. Named(req, head) /\ head \in In("checkouts") /\ c \in In("checkouts")
    BY <2>1 DEF Found, Selected
  <2> QED BY <2>1, <2>2 DEF NamedAlike, Found
<1> QED
  BY <1>1, <1>2

LEMMA CommitRowsAre ==
    ASSUME NEW req, NEW hash, NEW types, NEW h
    PROVE  h \in CommitRows(req, hash, NoFilter, types, FALSE)
           <=> \E c \in HistoryOf(req, hash) : h \in HistoryRows(c, types)
<1>1. Included(NoFilter, types, FALSE) = types
  BY DEF Included, NoFilter
<1>2. CommitRows(req, hash, NoFilter, types, FALSE) = UNION {HistoryRows(c, types) : c \in HistoryOf(req, hash)}
  BY <1>1 DEF CommitRows
<1> QED
  BY <1>2

(* A row of the details as a row of the history.                           *)
AsHistory(r) ==
    [build |-> r[1], test |-> r[2], issue |-> IssueOfIncident(r[3]), ofTest |-> TestOfIncident(r[3])]

LEMMA OwnVersion ==
    ASSUME References, OneVersion, NEW i \in In("incidents") \cup {None}
    PROVE  Versions(i) = {IssueOfIncident(i)}
BY DEF References, OneVersion, Versions, IssueOfIncident

LEMMA AllJoined ==
    ASSUME NEW b
    PROVE  JoinedTests(AllTypes, b) = TestsOf(b)
BY DEF JoinedTests, AllTypes, PathIncluded

LEMMA HistoryIsDetails ==
    ASSUME References, \A table : IsFiniteSet(In(table)), OneVersion, NEW req, OneTree(req), NamedAlike(req),
           NEW head \in Found(req), NEW h
    PROVE  h \in CommitRows(req, row[head].hash, NoFilter, AllTypes, FALSE)
           <=> \E r \in DetailsRows(req) : h = AsHistory(r)
<1>1. h \in CommitRows(req, row[head].hash, NoFilter, AllTypes, FALSE)
        <=> \E c \in Relevant(req) : h \in HistoryRows(c, AllTypes)
  BY CommitRowsAre, HeadHistory, RelevantIsFound
<1>2. \A b, t : Blames(b, t) \subseteq In("incidents") \cup {None}
  BY DEF Blames, LeftJoin, OfTest, OfBuild
<1>3. \A b, t : \A i \in Blames(b, t) : \A v :
        v \in Versions(i) /\ h = HistoryRow(AllTypes, b, t, v, i)
        <=> v = IssueOfIncident(i) /\ h = AsHistory(<<b, t, i>>)
  <2> SUFFICES ASSUME NEW b, NEW t, NEW i \in Blames(b, t), NEW v
               PROVE  v \in Versions(i) /\ h = HistoryRow(AllTypes, b, t, v, i)
                      <=> v = IssueOfIncident(i) /\ h = AsHistory(<<b, t, i>>)
    OBVIOUS
  <2>1. Versions(i) = {IssueOfIncident(i)}
    BY <1>2, OwnVersion
  <2>2. HistoryRow(AllTypes, b, t, IssueOfIncident(i), i) = AsHistory(<<b, t, i>>)
    BY DEF HistoryRow, AsHistory, AllTypes
  <2> QED BY <2>1, <2>2
<1>4. ASSUME NEW c \in Relevant(req), h \in HistoryRows(c, AllTypes)
      PROVE  \E r \in DetailsRows(req) : h = AsHistory(r)
  <2>1. PICK b \in LeftJoin(BuildsOf(c)) : \E t \in LeftJoin(TestsOf(b)) :
          \E i \in Blames(b, t) : \E v \in Versions(i) : h = HistoryRow(AllTypes, b, t, v, i)
    BY <1>4, HistoryRowsAre, AllJoined
  <2>2. PICK t \in LeftJoin(TestsOf(b)) :
          \E i \in Blames(b, t) : \E v \in Versions(i) : h = HistoryRow(AllTypes, b, t, v, i)
    BY <2>1
  <2>3. PICK i \in Blames(b, t) : \E v \in Versions(i) : h = HistoryRow(AllTypes, b, t, v, i)
    BY <2>2
  <2>4. h = AsHistory(<<b, t, i>>)
    BY <1>3, <2>3
  <2>5. <<b, t, i>> \in DetailsRows(req)
    BY DetailsRow
  <2> QED BY <2>4, <2>5
<1>5. ASSUME NEW r \in DetailsRows(req), h = AsHistory(r)
      PROVE  \E c \in Relevant(req) : h \in HistoryRows(c, AllTypes)
  <2>1. PICK c \in Relevant(req) : \E b \in LeftJoin(BuildsOf(c)) :
          \E t \in LeftJoin(TestsOf(b)) : \E i \in Blames(b, t) : r = <<b, t, i>>
    BY DetailsRow
  <2>2. PICK b \in LeftJoin(BuildsOf(c)) :
          \E t \in LeftJoin(TestsOf(b)) : \E i \in Blames(b, t) : r = <<b, t, i>>
    BY <2>1
  <2>3. PICK t \in LeftJoin(TestsOf(b)) : \E i \in Blames(b, t) : r = <<b, t, i>>
    BY <2>2
  <2>4. PICK i \in Blames(b, t) : r = <<b, t, i>>
    BY <2>3
  <2>5. IssueOfIncident(i) \in Versions(i) /\ h = HistoryRow(AllTypes, b, t, IssueOfIncident(i), i)
    BY <1>3, <1>5, <2>4
  <2>6. t \in LeftJoin(JoinedTests(AllTypes, b))
    BY <2>3, AllJoined
  <2>7. h \in HistoryRows(c, AllTypes)
    BY <2>5, <2>6, HistoryRowsAre
  <2> QED BY <2>7
<1> QED
  BY <1>1, <1>4, <1>5

(* What a history lists, row by row.                                       *)
HistoryTestPasses(f, r, kind) ==
    ~HistoryRecordOut(f, r) /\ ~HistoryTestOut(f, r) /\ KindOf(r.test) = kind

HistoryBuildPasses(f, r) ==
    /\ ~HistoryRecordOut(f, r) /\ r.build # None /\ ~row[r.build].dummy
    /\ ~BuildOut(f, row[r.build], r.issue, r.ofTest)

LEMMA SameHardware ==
    ASSUME References, NEW b, NEW t, t = None \/ (t \in In("tests") /\ row[t].build = b), NEW i,
           NEW f, f.hardware = {} \/ OnePlace
    PROVE  HistoryRecordOut(f, AsHistory(<<b, t, i>>)) <=> RowOut(f, <<b, t, i>>)
<1> DEFINE r == <<b, t, i>>
           h == AsHistory(r)
<1>1. r[1] = b /\ r[2] = t /\ h.build = b /\ h.test = t
  BY DEF AsHistory
<1> HIDE DEF r, h
<1>2. CASE f.hardware = {}
  BY <1>1, <1>2 DEF HistoryRecordOut, RowOut, RecordOut, h, r
<1>3. CASE OnePlace
  <2>1. HistoryHardware(h) = {DetailsHardware(b, t)}
    <3>1. CASE t = None
      BY <1>1, <3>1 DEF HistoryHardware, DetailsHardware
    <3>2. CASE t \in In("tests")
      <4> DEFINE named == row[t].compatible
                 own == {row[t].platform} \ {Unknown}
      <4>1. t # None /\ named \in Seq(STRING)
        BY <3>2 DEF References
      <4>2. Len(named) + Cardinality(own) <= 1
        BY <1>3, <3>2 DEF OnePlace
      <4>3. \/ own = {} /\ Cardinality(own) = 0 /\ row[t].platform = Unknown
            \/ own = {row[t].platform} /\ Cardinality(own) = 1 /\ row[t].platform # Unknown
        <5>1. CASE row[t].platform = Unknown
          <6>1. own = {}
            BY <5>1
          <6> HIDE DEF own
          <6> QED BY <5>1, <6>1, FS_EmptySet
        <5>2. CASE row[t].platform # Unknown
          <6>1. own = {row[t].platform}
            BY <5>2
          <6> HIDE DEF own
          <6> QED BY <5>2, <6>1, FS_Singleton
        <5> QED BY <5>1, <5>2
      <4>4. HistoryHardware(h) = IF Range(named) \cup own = {} THEN {BuildPlatform(b)} ELSE Range(named) \cup own
        BY <1>1, <4>1 DEF HistoryHardware
      <4>5. CASE named = <<>>
        <5>1. Range(named) = {}
          BY <4>5 DEF Range
        <5> QED BY <4>1, <4>3, <4>4, <4>5, <5>1 DEF DetailsHardware
      <4>6. CASE named # <<>>
        <5> HIDE DEF own
        <5>1. Len(named) = 1 /\ own = {}
          <6> HIDE DEF named
          <6>1. Len(named) \in Nat /\ Len(named) # 0
            BY <4>1, <4>6
          <6>2. \A n \in Nat, k \in {0, 1} : n + k <= 1 /\ n # 0 => n = 1 /\ k = 0
            OBVIOUS
          <6>3. Cardinality(own) \in {0, 1}
            BY <4>3
          <6>4. Len(named) = 1 /\ Cardinality(own) = 0
            BY <4>2, <6>1, <6>2, <6>3
          <6> QED BY <4>3, <6>4
        <5>2. Range(named) = {named[1]}
          BY <4>1, <5>1 DEF Range
        <5> QED BY <4>1, <4>4, <4>6, <5>1, <5>2 DEF DetailsHardware
      <4> QED BY <4>5, <4>6
    <3> QED BY <3>1, <3>2
  <2> QED BY <1>1, <2>1 DEF HistoryRecordOut, RowOut, h, r
<1> QED
  BY <1>2, <1>3 DEF h, r

LEMMA SameRow ==
    ASSUME References, NEW b, NEW t, t = None \/ (t \in In("tests") /\ row[t].build = b),
           NEW i \in In("incidents") \cup {None}, NEW f, f.hardware = {} \/ OnePlace
    PROVE  /\ HistoryBuildPasses(f, AsHistory(<<b, t, i>>)) <=> BuildPasses(f, <<b, t, i>>)
           /\ PlainPaths => \A kind :
                t # None /\ HistoryTestPasses(f, AsHistory(<<b, t, i>>), kind)
                <=> TestPasses(f, <<b, t, i>>, kind)
<1> DEFINE r == <<b, t, i>>
           h == AsHistory(r)
           given == IssueOfIncident(i)
           shown == IssueShown(b, t, i)
<1>1. r[1] = b /\ r[2] = t /\ r[3] = i
      /\ h.build = b /\ h.test = t /\ h.issue = given /\ h.ofTest = TestOfIncident(i)
  BY DEF AsHistory
<1>2. HistoryRecordOut(f, h) <=> RowOut(f, r)
  BY SameHardware
<1> HIDE DEF r, h
<1>3. given = NoIssue => i = None /\ TestOfIncident(i) = None
  BY DEF References, IssueOfIncident, KnownIssue, NoIssue, TestOfIncident
<1>4. ASSUME NEW asked, NEW status
      PROVE  BuildIssueOut(asked, given, TestOfIncident(i), status)
             <=> BuildIssueOut(asked, shown, TestOfIncident(i), status)
  <2>1. CASE shown = given
    BY <2>1
  <2>2. CASE shown # given
    <3>1. given = NoIssue /\ shown = Uncategorized /\ TestOfIncident(i) = None
      BY <1>3, <2>2 DEF IssueShown
    <3>2. /\ ~KnownIssue(given) /\ ~KnownIssue(shown)
          /\ <<Uncategorized[1], given[2]>> = <<Uncategorized[1], shown[2]>>
      BY <3>1 DEF KnownIssue, NoIssue, Uncategorized, None
    <3> HIDE DEF given, shown
    <3> QED BY <3>1, <3>2 DEF BuildIssueOut, OnlyOfTest
  <2> QED BY <2>1, <2>2
<1>5. HistoryBuildPasses(f, h) <=> BuildPasses(f, r)
  <2> HIDE DEF given
  <2>1. \A build : BuildOut(f, build, given, TestOfIncident(i))
                     <=> BuildOut(f, build, shown, TestOfIncident(i))
    BY <1>4 DEF BuildOut
  <2> QED BY <1>1, <1>2, <2>1 DEF HistoryBuildPasses, BuildPasses
<1>6. ASSUME PlainPaths, NEW kind
      PROVE  t # None /\ HistoryTestPasses(f, h, kind) <=> TestPasses(f, r, kind)
  <2>1. CASE t = None
    BY <1>1, <2>1 DEF TestPasses
  <2>2. CASE t # None
    <3>1. row[t].path # None /\ PathShown(t) = row[t].path
      BY <1>6, <2>2 DEF PlainPaths, PathShown
    <3>2. IssueShown(b, t, i)
            = IF given = NoIssue /\ (BuildStatus(b) \in BuildFailures \/ Status(t) = "FAIL")
              THEN Uncategorized ELSE given
      BY <2>2 DEF IssueShown, TestStatus
    <3> HIDE DEF given
    <3>3. HistoryTestOut(f, h)
            <=> TestOut(f, KindOf(t), row[t], row[t].path, shown, TestOfIncident(i), None)
      BY <1>1, <2>2, <3>2 DEF HistoryTestOut
    <3> HIDE DEF shown
    <3> QED BY <1>1, <1>2, <2>2, <3>1, <3>3 DEF HistoryTestPasses, TestPasses, shown
  <2> QED BY <2>1, <2>2
<1> QED
  BY <1>5, <1>6 DEF r, h

(* What the rows of a commit are made of.                                  *)
LEMMA DetailsRowFacts ==
    ASSUME References, NEW req, NEW r \in DetailsRows(req)
    PROVE  \E b, t, i :
             /\ r = <<b, t, i>> /\ i \in In("incidents") \cup {None}
             /\ t = None \/ (t \in In("tests") /\ row[t].build = b)
<1>1. PICK c \in Relevant(req) : \E b \in LeftJoin(BuildsOf(c)) :
        \E t \in LeftJoin(TestsOf(b)) : \E i \in Blames(b, t) : r = <<b, t, i>>
  BY DetailsRow
<1>2. PICK b \in LeftJoin(BuildsOf(c)) :
        \E t \in LeftJoin(TestsOf(b)) : \E i \in Blames(b, t) : r = <<b, t, i>>
  BY <1>1
<1>3. PICK t \in LeftJoin(TestsOf(b)) : \E i \in Blames(b, t) : r = <<b, t, i>>
  BY <1>2
<1>4. PICK i \in Blames(b, t) : r = <<b, t, i>>
  BY <1>3
<1>5. i \in In("incidents") \cup {None}
  BY DEF Blames, LeftJoin, OfTest, OfBuild
<1>6. t = None \/ (t \in In("tests") /\ row[t].build = b)
  BY TestPlace DEF LeftJoin
<1> QED
  BY <1>4, <1>5, <1>6

LEMMA HistoryMatchesHolds ==
    ASSUME References, \A table : IsFiniteSet(In(table))
    PROVE  HistoryMatchesDetails
<1> SUFFICES ASSUME OneVersion, PlainPaths, NEW req \in Requests, OneTree(req), NamedAlike(req),
                    NEW head \in Found(req), NEW f \in Filters, f.hardware = {} \/ OnePlace
             PROVE  LET details == DetailsRows(req)
                        history == CommitRows(req, row[head].hash, NoFilter, AllTypes, FALSE)
                    IN  /\ HistoryBuilds(history, f, FALSE) = DetailsBuilds(details, f)
                        /\ \A kind \in Kinds :
                             HistoryTests(history, f, AllTypes, kind) = DetailsTests(details, f, kind)
  BY DEF HistoryMatchesDetails
<1> DEFINE details == DetailsRows(req)
           history == CommitRows(req, row[head].hash, NoFilter, AllTypes, FALSE)
<1>1. \A h : h \in history <=> \E r \in details : h = AsHistory(r)
  BY HistoryIsDetails
<1>2. ASSUME NEW r \in details
      PROVE  /\ HistoryBuildPasses(f, AsHistory(r)) <=> BuildPasses(f, r)
             /\ \A kind : r[2] # None /\ HistoryTestPasses(f, AsHistory(r), kind) <=> TestPasses(f, r, kind)
             /\ AsHistory(r).build = r[1] /\ AsHistory(r).test = r[2]
  <2>1. PICK b, t, i :
          /\ r = <<b, t, i>> /\ i \in In("incidents") \cup {None}
          /\ t = None \/ (t \in In("tests") /\ row[t].build = b)
    BY DetailsRowFacts
  <2>2. r[2] = t
    BY <2>1
  <2>3. AsHistory(r).build = r[1] /\ AsHistory(r).test = r[2]
    BY DEF AsHistory
  <2> QED BY <2>1, <2>2, <2>3, SameRow
<1>3. HistoryBuilds(history, f, FALSE) = {h.build : h \in {s \in history : HistoryBuildPasses(f, s)}}
  <2> HIDE DEF history
  <2> QED BY DEF HistoryBuilds, Shown, HistoryBuildPasses
<1>4. DetailsBuilds(details, f) = {r[1] : r \in {s \in details : BuildPasses(f, s)}}
  BY DEF DetailsBuilds
<1>5. \A kind : HistoryTests(history, f, AllTypes, kind)
                  = {h.test : h \in {s \in history : HistoryTestPasses(f, s, kind)}}
  <2> HIDE DEF history
  <2>1. AllTypes # {"builds"}
    BY DEF AllTypes
  <2> QED BY <2>1 DEF HistoryTests, Shown, HistoryTestPasses
<1>6. \A kind : DetailsTests(details, f, kind) = {r[2] : r \in {s \in details : TestPasses(f, s, kind)}}
  BY DEF DetailsTests
<1>7. \A h, kind : HistoryTestPasses(f, h, kind) => h.test # None
  BY DEF HistoryTestPasses, HistoryTestOut
<1> HIDE DEF details, history
<1>8. HistoryBuilds(history, f, FALSE) = DetailsBuilds(details, f)
  <2>1. ASSUME NEW h \in history, HistoryBuildPasses(f, h)
        PROVE  \E r \in details : BuildPasses(f, r) /\ h.build = r[1]
    BY <1>1, <1>2, <2>1
  <2>2. ASSUME NEW r \in details, BuildPasses(f, r)
        PROVE  \E h \in history : HistoryBuildPasses(f, h) /\ h.build = r[1]
    BY <1>1, <1>2, <2>2
  <2>3. HistoryBuilds(history, f, FALSE) \subseteq DetailsBuilds(details, f)
    BY <1>3, <1>4, <2>1
  <2>4. DetailsBuilds(details, f) \subseteq HistoryBuilds(history, f, FALSE)
    BY <1>3, <1>4, <2>2
  <2> QED BY <2>3, <2>4
<1>9. ASSUME NEW kind
      PROVE  HistoryTests(history, f, AllTypes, kind) = DetailsTests(details, f, kind)
  <2>1. ASSUME NEW h \in history, HistoryTestPasses(f, h, kind)
        PROVE  \E r \in details : TestPasses(f, r, kind) /\ h.test = r[2]
    <3>1. PICK r \in details : h = AsHistory(r)
      BY <1>1
    <3> QED BY <1>2, <1>7, <2>1, <3>1
  <2>2. ASSUME NEW r \in details, TestPasses(f, r, kind)
        PROVE  \E h \in history : HistoryTestPasses(f, h, kind) /\ h.test = r[2]
    BY <1>1, <1>2, <2>2
  <2>3. HistoryTests(history, f, AllTypes, kind) \subseteq DetailsTests(details, f, kind)
    BY <1>5, <1>6, <2>1
  <2>4. DetailsTests(details, f, kind) \subseteq HistoryTests(history, f, AllTypes, kind)
    BY <1>5, <1>6, <2>2
  <2> QED BY <2>3, <2>4
<1> QED
  BY <1>8, <1>9 DEF details, history

(* The builds and tests of the checkouts a history shows of a commit.      *)
ShownBuilds(req, hash) == UNION {BuildsOf(c) : c \in HistoryOf(req, hash)}
ShownTests(req, hash) == UNION {TestsOf(b) : b \in ShownBuilds(req, hash)}

Joins(types, t) == types \cap {"boots", "tests"} # {} /\ PathIncluded(types, row[t].path)

LEMMA JoinsIs ==
    ASSUME NEW types, NEW b, NEW t
    PROVE  t \in JoinedTests(types, b) <=> t \in TestsOf(b) /\ Joins(types, t)
BY DEF JoinedTests, Joins

ShowsBoth(h, types, b, t) == h.test = t /\ ("builds" \in types => h.build = b)

LEMMA RowsOf ==
    ASSUME References, NEW req, NEW hash, NEW types
    PROVE  \A c \in HistoryOf(req, hash) : \A b \in LeftJoin(BuildsOf(c)) :
             \A t \in LeftJoin(JoinedTests(types, b)) :
               \E h \in CommitRows(req, hash, NoFilter, types, FALSE) : ShowsBoth(h, types, b, t)
<1> TAKE c \in HistoryOf(req, hash)
<1> TAKE b \in LeftJoin(BuildsOf(c))
<1> TAKE t \in LeftJoin(JoinedTests(types, b))
<1>1. PICK i \in Blames(b, t) : TRUE
  BY DEF Blames, LeftJoin
<1>2. PICK v \in Versions(i) : TRUE
  <2>1. i \in In("incidents") \cup {None}
    BY DEF Blames, LeftJoin, OfTest, OfBuild
  <2> QED BY <2>1 DEF References, Versions
<1> DEFINE h == HistoryRow(types, b, t, v, i)
<1>3. h \in HistoryRows(c, types)
  BY HistoryRowsAre
<1>4. h.test = t /\ ("builds" \in types => h.build = b)
  BY DEF HistoryRow
<1> QED
  BY <1>3, <1>4, CommitRowsAre DEF ShowsBoth

LEMMA RowsFrom ==
    ASSUME References, NEW req, NEW hash, NEW types,
           NEW h \in CommitRows(req, hash, NoFilter, types, FALSE)
    PROVE  /\ h.build # None => h.build \in ShownBuilds(req, hash)
           /\ h.test # None =>
                /\ h.test \in ShownTests(req, hash) /\ Joins(types, h.test)
                /\ "builds" \in types => h.build = row[h.test].build
<1>1. PICK c \in HistoryOf(req, hash) : h \in HistoryRows(c, types)
  BY CommitRowsAre
<1>2. PICK b \in LeftJoin(BuildsOf(c)) : \E t \in LeftJoin(JoinedTests(types, b)) :
        \E i \in Blames(b, t) : \E v \in Versions(i) : h = HistoryRow(types, b, t, v, i)
  BY <1>1, HistoryRowsAre
<1>3. PICK t \in LeftJoin(JoinedTests(types, b)) :
        \E i \in Blames(b, t) : \E v \in Versions(i) : h = HistoryRow(types, b, t, v, i)
  BY <1>2
<1>4. /\ h.test = t /\ (h.build # None => h.build = b)
      /\ "builds" \in types => h.build = b
  BY <1>3 DEF HistoryRow
<1>5. b # None => b \in ShownBuilds(req, hash)
  BY DEF LeftJoin, ShownBuilds
<1>6. ASSUME t # None
      PROVE  t \in ShownTests(req, hash) /\ Joins(types, t) /\ row[t].build = b
  <2>1. t \in TestsOf(b) /\ Joins(types, t)
    BY <1>6, JoinsIs DEF LeftJoin
  <2>2. row[t].build = b /\ b # None
    BY <2>1, TestPlace DEF References
  <2> QED BY <1>5, <2>1, <2>2 DEF ShownTests
<1> QED
  BY <1>4, <1>5, <1>6

(* Under a filter on neither hardware nor issues a history lists a build   *)
(* or a test for itself, whatever else its rows hold.                      *)
TestAsked(f, kind, t) ==
    /\ KindOf(t) = kind /\ Lets(f.config, ConfigOf(row[t].build))
    /\ Lets(f.path[kind], row[t].path) /\ Lets(f.status[kind], Status(t))
    /\ Lets(f.origin[kind], row[t].origin) /\ ~DurationOut(f, kind, row[t].duration)

LEMMA HistoryBuildsAre ==
    ASSUME References, NEW req, NEW hash, NEW types, "builds" \in types,
           NEW f, NoHardware(f), NoIssues(f)
    PROVE  HistoryBuilds(CommitRows(req, hash, NoFilter, types, FALSE), f, FALSE)
             = {b \in ShownBuilds(req, hash) : BuildAsked(f, b)}
<1> DEFINE rows == CommitRows(req, hash, NoFilter, types, FALSE)
<1>1. HistoryBuilds(rows, f, FALSE) = {h.build : h \in {s \in rows : HistoryBuildPasses(f, s)}}
  <2> HIDE DEF rows
  <2> QED BY DEF HistoryBuilds, Shown, HistoryBuildPasses
<1>2. \A h : HistoryBuildPasses(f, h) <=> h.build # None /\ BuildAsked(f, h.build)
  <2>1. f.hardware = {} /\ f.lab = {} /\ f.issues["build"] = {}
    BY DEF NoHardware, NoIssues
  <2>2. \A h : h.build # None => (HistoryRecordOut(f, h) <=> ~Lets(f.config, row[h.build].config))
    BY <2>1 DEF HistoryRecordOut, RecordOut, Lets, ConfigOf
  <2>3. \A h : BuildOut(f, row[h.build], h.issue, h.ofTest)
                 <=> \/ ~Lets(f.status["build"], Status(h.build))
                     \/ ~Lets(f.origin["build"], row[h.build].origin)
                     \/ DurationOut(f, "build", row[h.build].duration)
    BY <2>1 DEF BuildOut, BuildIssueOut, Status
  <2> QED BY <2>2, <2>3 DEF HistoryBuildPasses, BuildAsked
<1>3. ASSUME NEW b \in ShownBuilds(req, hash)
      PROVE  \E h \in rows : h.build = b
  <2>1. PICK c \in HistoryOf(req, hash) : b \in BuildsOf(c)
    BY DEF ShownBuilds
  <2>2. b \in LeftJoin(BuildsOf(c))
    BY <2>1 DEF LeftJoin
  <2>3. PICK t : t \in LeftJoin(JoinedTests(types, b))
    BY DEF LeftJoin
  <2>4. \E h \in rows : ShowsBoth(h, types, b, t)
    BY <2>2, <2>3, RowsOf
  <2> HIDE DEF rows
  <2> QED BY <2>4 DEF ShowsBoth
<1>4. \A b \in ShownBuilds(req, hash) : b # None
  BY TestPlace DEF ShownBuilds, References
<1>5. \A h \in rows : h.build # None => h.build \in ShownBuilds(req, hash)
  BY RowsFrom
<1> HIDE DEF rows
<1>6. \A h \in rows : HistoryBuildPasses(f, h) => h.build \in ShownBuilds(req, hash) /\ BuildAsked(f, h.build)
  BY <1>2, <1>5
<1>7. \A b \in ShownBuilds(req, hash) :
        BuildAsked(f, b) => \E h \in rows : HistoryBuildPasses(f, h) /\ h.build = b
  BY <1>2, <1>3, <1>4
<1> QED
  BY <1>1, <1>6, <1>7 DEF rows

LEMMA HistoryTestsAre ==
    ASSUME References, NEW req, NEW hash, NEW types, types # {"builds"},
           NEW kind \in Kinds, NEW f, NoHardware(f), NoIssues(f), "builds" \in types \/ f.config = {}
    PROVE  HistoryTests(CommitRows(req, hash, NoFilter, types, FALSE), f, types, kind)
             = {t \in ShownTests(req, hash) : Joins(types, t) /\ TestAsked(f, kind, t)}
<1> DEFINE rows == CommitRows(req, hash, NoFilter, types, FALSE)
<1>1. HistoryTests(rows, f, types, kind) = {h.test : h \in {s \in rows : HistoryTestPasses(f, s, kind)}}
  <2> HIDE DEF rows
  <2> QED BY DEF HistoryTests, Shown, HistoryTestPasses
<1>2. ASSUME NEW h, h.test # None => f.config = {} \/ h.build = row[h.test].build,
             h.test # None => row[h.test].build # None
      PROVE  HistoryTestPasses(f, h, kind) <=> h.test # None /\ TestAsked(f, kind, h.test)
  <2>1. f.hardware = {} /\ f.lab = {} /\ f.issues[kind] = {} /\ f.platform[kind] = {}
    BY DEF NoHardware, NoIssues, NoPlatforms
  <2>2. h.test # None => (HistoryRecordOut(f, h) <=> ~Lets(f.config, ConfigOf(row[h.test].build)))
    BY <1>2, <2>1 DEF HistoryRecordOut, RecordOut, Lets
  <2>3. \A issue, ofTest, platform :
          TestOut(f, kind, row[h.test], row[h.test].path, issue, ofTest, platform)
            <=> \/ ~Lets(f.path[kind], row[h.test].path) \/ ~Lets(f.status[kind], Status(h.test))
                \/ ~Lets(f.origin[kind], row[h.test].origin) \/ DurationOut(f, kind, row[h.test].duration)
    BY <2>1 DEF TestOut, TestIssueOut, Status, Lets
  <2>4. KindOf(h.test) = kind => (HistoryTestOut(f, h) <=> h.test = None
          \/ ~Lets(f.path[kind], row[h.test].path) \/ ~Lets(f.status[kind], Status(h.test))
          \/ ~Lets(f.origin[kind], row[h.test].origin) \/ DurationOut(f, kind, row[h.test].duration))
    BY <2>3 DEF HistoryTestOut
  <2> QED BY <2>2, <2>4 DEF HistoryTestPasses, TestAsked, HistoryTestOut
<1>3. ASSUME NEW h \in rows
      PROVE  /\ HistoryTestPasses(f, h, kind) <=> h.test # None /\ TestAsked(f, kind, h.test)
             /\ h.test # None => h.test \in ShownTests(req, hash) /\ Joins(types, h.test)
  <2>0. h.test # None =>
          /\ h.test \in ShownTests(req, hash) /\ Joins(types, h.test)
          /\ "builds" \in types => h.build = row[h.test].build
    BY RowsFrom
  <2>1. /\ h.test # None => f.config = {} \/ h.build = row[h.test].build
        /\ h.test # None => h.test \in ShownTests(req, hash) /\ Joins(types, h.test)
    BY <2>0
  <2>2. h.test # None => row[h.test].build # None
    BY <2>1, TestPlace DEF ShownTests, References
  <2> QED BY <1>2, <2>1, <2>2
<1>4. ASSUME NEW t \in ShownTests(req, hash), Joins(types, t)
      PROVE  t # None /\ \E h \in rows : h.test = t
  <2>1. PICK b \in ShownBuilds(req, hash) : t \in TestsOf(b)
    BY DEF ShownTests
  <2>2. PICK c \in HistoryOf(req, hash) : b \in BuildsOf(c)
    BY <2>1 DEF ShownBuilds
  <2>3. b \in LeftJoin(BuildsOf(c)) /\ t \in LeftJoin(JoinedTests(types, b))
    BY <1>4, <2>1, <2>2, JoinsIs DEF LeftJoin
  <2>4. t # None
    BY <2>1, TestPlace DEF References
  <2>5. \E h \in rows : ShowsBoth(h, types, b, t)
    BY <2>2, <2>3, RowsOf
  <2> HIDE DEF rows
  <2> QED BY <2>4, <2>5 DEF ShowsBoth
<1> HIDE DEF rows
<1>5. \A h \in rows : HistoryTestPasses(f, h, kind) =>
        h.test \in ShownTests(req, hash) /\ Joins(types, h.test) /\ TestAsked(f, kind, h.test)
  BY <1>3
<1>6. \A t \in ShownTests(req, hash) : Joins(types, t) /\ TestAsked(f, kind, t) =>
        \E h \in rows : HistoryTestPasses(f, h, kind) /\ h.test = t
  BY <1>3, <1>4
<1> QED
  BY <1>1, <1>5, <1>6 DEF rows

LEMMA HistoryByTypeHolds == ASSUME References PROVE HistoryByType
<1> SUFFICES ASSUME \A t \in In("tests") : row[t].path # "bootrr",
                    NEW req \in Requests, NEW hash,
                    NEW types \in (SUBSET AllTypes) \ {{}},
                    NEW f \in Filters, NoHardware(f), f.config = {}, NoIssues(f)
             PROVE  LET whole == CommitRows(req, hash, NoFilter, AllTypes, FALSE)
                        some == CommitRows(req, hash, NoFilter, types, FALSE)
                    IN  /\ "builds" \in types => HistoryBuilds(some, f, FALSE) = HistoryBuilds(whole, f, FALSE)
                        /\ "boots" \in types =>
                             HistoryTests(some, f, types, "boot") = HistoryTests(whole, f, AllTypes, "boot")
                        /\ "tests" \in types =>
                             HistoryTests(some, f, types, "test") = HistoryTests(whole, f, AllTypes, "test")
  BY DEF HistoryByType
<1> DEFINE whole == CommitRows(req, hash, NoFilter, AllTypes, FALSE)
           some == CommitRows(req, hash, NoFilter, types, FALSE)
<1>1. "builds" \in AllTypes /\ AllTypes # {"builds"}
  BY DEF AllTypes
<1>2. "builds" \in types => HistoryBuilds(some, f, FALSE) = HistoryBuilds(whole, f, FALSE)
  BY <1>1, HistoryBuildsAre
<1>3. ASSUME NEW t \in ShownTests(req, hash), NEW kind \in Kinds, KindOf(t) = kind,
             IF kind = "boot" THEN "boots" \in types ELSE "tests" \in types
      PROVE  Joins(types, t) /\ Joins(AllTypes, t)
  <2>1. row[t].path # "bootrr"
    BY TestPlace DEF ShownTests
  <2>2. kind = "boot" <=> row[t].path \in {"boot", "boot.nfs"}
    BY <1>3 DEF KindOf, IsBoot, Kinds
  <2> QED BY <1>3, <2>1, <2>2 DEF Joins, PathIncluded, AllTypes, Kinds
<1>4. ASSUME NEW kind \in Kinds, IF kind = "boot" THEN "boots" \in types ELSE "tests" \in types
      PROVE  HistoryTests(some, f, types, kind) = HistoryTests(whole, f, AllTypes, kind)
  <2>1. types # {"builds"}
    BY <1>4
  <2>2. HistoryTests(some, f, types, kind)
          = {t \in ShownTests(req, hash) : Joins(types, t) /\ TestAsked(f, kind, t)}
    BY <2>1, HistoryTestsAre
  <2>3. HistoryTests(whole, f, AllTypes, kind)
          = {t \in ShownTests(req, hash) : Joins(AllTypes, t) /\ TestAsked(f, kind, t)}
    BY <1>1, HistoryTestsAre
  <2>4. \A t : TestAsked(f, kind, t) => KindOf(t) = kind
    BY DEF TestAsked
  <2>5. \A t \in ShownTests(req, hash) : TestAsked(f, kind, t) => Joins(types, t) /\ Joins(AllTypes, t)
    BY <1>3, <1>4, <2>4
  <2> QED BY <2>2, <2>3, <2>5
<1> HIDE DEF some, whole
<1>5. "boots" \in types =>
        HistoryTests(some, f, types, "boot") = HistoryTests(whole, f, AllTypes, "boot")
  BY <1>4 DEF Kinds
<1>6. "tests" \in types =>
        HistoryTests(some, f, types, "test") = HistoryTests(whole, f, AllTypes, "test")
  BY <1>4 DEF Kinds
<1> QED
  BY <1>2, <1>5, <1>6 DEF some, whole

LEMMA WholeHistory ==
    ASSUME References, NEW req, NEW hash, NEW f, NoHardware(f), NoIssues(f)
    PROVE  LET history == CommitRows(req, hash, NoFilter, AllTypes, FALSE) IN
           /\ HistoryBuilds(history, f, FALSE) = {b \in ShownBuilds(req, hash) : BuildAsked(f, b)}
           /\ \A kind \in Kinds :
                HistoryTests(history, f, AllTypes, kind) = {t \in ShownTests(req, hash) : TestAsked(f, kind, t)}
<1>1. "builds" \in AllTypes /\ AllTypes # {"builds"}
  BY DEF AllTypes
<1>2. \A t : Joins(AllTypes, t)
  BY DEF AllTypes, Joins, PathIncluded
<1>3. \A kind \in Kinds :
        HistoryTests(CommitRows(req, hash, NoFilter, AllTypes, FALSE), f, AllTypes, kind)
          = {t \in ShownTests(req, hash) : Joins(AllTypes, t) /\ TestAsked(f, kind, t)}
  BY <1>1, HistoryTestsAre
<1>4. \A kind : {t \in ShownTests(req, hash) : Joins(AllTypes, t) /\ TestAsked(f, kind, t)}
                = {t \in ShownTests(req, hash) : TestAsked(f, kind, t)}
  BY <1>2
<1>5. HistoryBuilds(CommitRows(req, hash, NoFilter, AllTypes, FALSE), f, FALSE)
        = {b \in ShownBuilds(req, hash) : BuildAsked(f, b)}
  BY <1>1, HistoryBuildsAre
<1> QED
  BY <1>3, <1>4, <1>5

(* What the query asks of the rows of a commit that is shown completely,   *)
(* for a filter that both histories read alike.                            *)
LEMMA InstanceIs ==
    ASSUME NEW f, ReadAlike(f), NEW kind \in Kinds \cup {"build"},
           NEW status, NEW config, NEW lab, NEW known
    PROVE  InstanceOut(f, kind, status, config, lab, known)
           <=> ~Lets(f.status[kind], status) \/ ~Lets(f.config, config)
BY DEF InstanceOut, Lets, ReadAlike, NoHardware, NoIssues

LEMMA ListedBuildsAre ==
    ASSUME References, NEW req, NEW hash, ShownWhole(req, hash),
           NEW f \in Filters, ReadAlike(f), NEW types
    PROVE  ListedBuilds(req, f, hash, types)
             = {b \in ShownBuilds(req, hash) :
                  /\ "builds" \in types /\ BuildAsked(f, b)
                  /\ row[b].config # Unknown /\ ~OverByAFraction(f, "build", row[b].duration)}
<1> DEFINE asked == AskedBuilds(req, f, hash)
<1>1. asked = {b \in ShownBuilds(req, hash) : /\ ~row[b].dummy /\ row[b].config # Unknown
                                              /\ DurationAsked(f, "build", row[b].duration)}
  <2>1. ShownBuilds(req, hash) = UNION {BuildsOf(c) : c \in {d \in Selected(req) : row[d].hash = hash}}
    BY DEF ShownBuilds, ShownWhole
  <2>2. f.hardware = {}
    BY DEF ReadAlike, NoHardware
  <2> QED BY <2>1, <2>2 DEF AskedBuilds
<1>2. \A b \in ShownBuilds(req, hash) :
        DurationAsked(f, "build", row[b].duration)
          <=> ~DurationOut(f, "build", row[b].duration) /\ ~OverByAFraction(f, "build", row[b].duration)
  <2>1. \A b \in ShownBuilds(req, hash) : b \in In("builds")
    BY TestPlace DEF ShownBuilds
  <2>2. \A b \in ShownBuilds(req, hash) : row[b].duration \in Nat \cup {NoDuration}
    BY <2>1 DEF References
  <2> QED BY <2>2, DurationRead
<1>3. \A b : BuildAsked(f, b)
        <=> /\ ~row[b].dummy /\ ~DurationOut(f, "build", row[b].duration)
            /\ Lets(f.status["build"], Status(b)) /\ Lets(f.config, row[b].config)
  BY DEF BuildAsked, Lets, ReadAlike
<1>4. ListedBuilds(req, f, hash, types)
        = {b \in asked : "builds" \in types /\ Lets(f.status["build"], Status(b)) /\ Lets(f.config, row[b].config)}
  <2> HIDE DEF asked
  <2>1. ListedBuilds(req, f, hash, types)
          = {b \in asked :
               /\ "builds" \in types
               /\ ~InstanceOut(f, "build", Status(b), row[b].config, row[b].lab,
                               UNION {IssuesOfBuild(d) : d \in BuildGroup(asked, b)})}
    BY Zenon DEF ListedBuilds, asked
  <2> QED BY <2>1, InstanceIs
<1> HIDE DEF asked
<1> QED
  BY <1>1, <1>2, <1>3, <1>4

(* A test is asked for with its kind.                                      *)
Wants(types, t) ==
    {"boots", "tests"} \subseteq types \/ (types \cap {"boots", "tests"} # {} /\ (IsBoot(row[t].path) = ("boots" \in types)))

LEMMA WantsIs ==
    ASSUME NEW types \in SUBSET AllTypes, NEW t
    PROVE  Wants(types, t) <=> KindOf(t) \in AskedKinds(types)
<1>1. IsBoot(row[t].path) \in BOOLEAN
  BY DEF IsBoot
<1>2. KindOf(t) = "boot" <=> IsBoot(row[t].path)
  BY DEF KindOf
<1>3. KindOf(t) \in AskedKinds(types)
        <=> IF KindOf(t) = "boot" THEN "boots" \in types ELSE "tests" \in types
  BY DEF KindOf, AskedKinds, Kinds
<1> QED
  BY <1>1, <1>2, <1>3 DEF Wants, AllTypes

LEMMA ListedTestsAre ==
    ASSUME References, PlainPaths, NEW req, NEW hash, ShownWhole(req, hash),
           NEW f \in Filters, ReadAlike(f), NEW types \in SUBSET AllTypes, NEW kind \in Kinds
    PROVE  ListedTests(req, f, hash, types, kind)
             = {t \in ShownTests(req, hash) :
                  /\ KindOf(t) \in AskedKinds(types) /\ ListedKind(types, t) = kind
                  /\ ~DurationOut(f, KindOf(t), row[t].duration)
                  /\ ~OverByAFraction(f, KindOf(t), row[t].duration)
                  /\ Lets(f.status[kind], Status(t)) /\ Lets(f.config, ConfigOf(row[t].build))}
<1> DEFINE asked == AskedTests(req, f, hash, types)
           shown == ShownTests(req, hash)
<1>1. shown = UNION {TestsOf(b) : b \in UNION {BuildsOf(c) : c \in {d \in Selected(req) : row[d].hash = hash}}}
  BY DEF ShownTests, ShownBuilds, ShownWhole
<1>2. \A t \in shown : t \in In("tests") /\ row[t].path # None /\ KindOf(t) \in Kinds
  BY TestPlace, ItemPlace DEF ShownTests, PlainPaths
<1>3. \A t \in shown :
        TestDurationAsked(f, t)
          <=> ~DurationOut(f, KindOf(t), row[t].duration) /\ ~OverByAFraction(f, KindOf(t), row[t].duration)
  BY <1>2, DurationRead DEF TestDurationAsked, References
<1>4. \A t \in shown :
        types \cap {"boots", "tests"} # {} /\ PathAsked(types, row[t].path) <=> KindOf(t) \in AskedKinds(types)
  <2>1. \A t \in shown : types \cap {"boots", "tests"} # {} /\ PathAsked(types, row[t].path) <=> Wants(types, t)
    BY <1>2 DEF PathAsked, Wants
  <2> QED BY <2>1, WantsIs
<1>5. asked = {t \in shown : KindOf(t) \in AskedKinds(types) /\ TestDurationAsked(f, t)}
  <2>1. \A t : OnPlatform(f, t)
    BY DEF OnPlatform, ReadAlike, NoHardware
  <2>2. asked = {t \in shown : /\ types \cap {"boots", "tests"} # {} /\ PathAsked(types, row[t].path)
                               /\ OnPlatform(f, t) /\ TestDurationAsked(f, t)}
    BY <1>1 DEF AskedTests
  <2> HIDE DEF shown, asked
  <2> QED BY <1>4, <2>1, <2>2
<1>6. ListedTests(req, f, hash, types, kind)
        = {t \in asked : /\ ListedKind(types, t) = kind
                         /\ Lets(f.status[kind], Status(t)) /\ Lets(f.config, ConfigOf(row[t].build))}
  <2> HIDE DEF asked
  <2>1. ListedTests(req, f, hash, types, kind)
          = {t \in asked :
               /\ ListedKind(types, t) = kind
               /\ ~InstanceOut(f, kind, Status(t), ConfigOf(row[t].build), row[t].lab,
                               UNION {IssuesOfTest(u) : u \in TestGroup(asked, t)})}
    BY Zenon DEF ListedTests, asked
  <2> QED BY <2>1, InstanceIs
<1> HIDE DEF asked, shown
<1>7. ListedTests(req, f, hash, types, kind)
        = {t \in shown :
             /\ KindOf(t) \in AskedKinds(types) /\ ListedKind(types, t) = kind
             /\ ~DurationOut(f, KindOf(t), row[t].duration)
             /\ ~OverByAFraction(f, KindOf(t), row[t].duration)
             /\ Lets(f.status[kind], Status(t)) /\ Lets(f.config, ConfigOf(row[t].build))}
  BY <1>3, <1>5, <1>6
<1> QED
  BY <1>7 DEF shown

LEMMA HistoriesHold == ASSUME References PROVE HistoriesAgree
<1> DEFINE Rows(req, hash) == CommitRows(req, hash, NoFilter, AllTypes, FALSE)
<1> SUFFICES ASSUME PlainPaths, NEW req \in Requests, NEW hash, ShownWhole(req, hash),
                    NEW f \in Filters, ReadAlike(f), NEW types \in SUBSET AllTypes
             PROVE  CountsShown(req, f, hash, types, CountableBuilds(Rows(req, hash), f),
                                CountableTests(Rows(req, hash), f))
  BY Zenon DEF HistoriesAgree
<1> DEFINE history == CommitRows(req, hash, NoFilter, AllTypes, FALSE)
           builds == CountableBuilds(history, f)
           tests == CountableTests(history, f)
           Read(t, kind) == /\ KindOf(t) = kind /\ ~DurationOut(f, kind, row[t].duration)
                            /\ ~OverByAFraction(f, kind, row[t].duration)
                            /\ Lets(f.status[kind], Status(t)) /\ Lets(f.config, ConfigOf(row[t].build))
<1>1. NoHardware(f) /\ NoIssues(f)
  BY DEF ReadAlike
<1>2. HistoryBuilds(history, f, FALSE) = {b \in ShownBuilds(req, hash) : BuildAsked(f, b)}
  BY <1>1, WholeHistory
<1>3. ASSUME NEW kind \in Kinds
      PROVE  tests[kind] = {t \in ShownTests(req, hash) : Read(t, kind)}
  <2>1. HistoryTests(history, f, AllTypes, kind) = {t \in ShownTests(req, hash) : TestAsked(f, kind, t)}
    BY <1>1, WholeHistory
  <2>2. \A t : TestAsked(f, kind, t)
          <=> /\ KindOf(t) = kind /\ ~DurationOut(f, kind, row[t].duration)
              /\ Lets(f.status[kind], Status(t)) /\ Lets(f.config, ConfigOf(row[t].build))
    BY DEF TestAsked, Lets, ReadAlike
  <2> HIDE DEF history
  <2>3. tests[kind] = {t \in HistoryTests(history, f, AllTypes, kind) : ~OverByAFraction(f, kind, row[t].duration)}
    BY DEF CountableTests, Countable
  <2> QED BY <2>1, <2>2, <2>3
<1>4. \A t : KindOf(t) \in Kinds
  BY ItemPlace
<1>5. AskedKinds(types) \subseteq Kinds
  BY DEF AskedKinds
<1> HIDE DEF history, tests
<1>6. ListedBuilds(req, f, hash, types) = IF "builds" \in types THEN builds ELSE {}
  <2>1. ListedBuilds(req, f, hash, types)
          = {b \in ShownBuilds(req, hash) :
               /\ "builds" \in types /\ BuildAsked(f, b)
               /\ row[b].config # Unknown /\ ~OverByAFraction(f, "build", row[b].duration)}
    BY ListedBuildsAre
  <2> QED BY <1>2, <2>1 DEF CountableBuilds, Countable
<1>7. ASSUME "builds" \notin types, NEW kind \in Kinds
      PROVE  ListedTests(req, f, hash, types, kind) = IF kind \in AskedKinds(types) THEN tests[kind] ELSE {}
  <2>1. \A t : ListedKind(types, t) = KindOf(t)
    BY <1>7 DEF ListedKind
  <2>2. ListedTests(req, f, hash, types, kind)
          = {t \in ShownTests(req, hash) : KindOf(t) \in AskedKinds(types) /\ Read(t, kind)}
    BY <2>1, ListedTestsAre
  <2> QED BY <1>3, <1>7, <2>2
<1>8. ASSUME "builds" \in types, f.status["boot"] = f.status["test"]
      PROVE  UNION {ListedTests(req, f, hash, types, kind) : kind \in Kinds}
               = UNION {tests[kind] : kind \in AskedKinds(types)}
  <2> DEFINE wanted == {t \in ShownTests(req, hash) : KindOf(t) \in AskedKinds(types) /\ Read(t, KindOf(t))}
  <2>1. \A t : ListedKind(types, t) = "boot"
    BY <1>8 DEF ListedKind
  <2>2. \A kind \in Kinds : f.status[kind] = f.status["boot"]
    BY <1>8 DEF Kinds
  <2>3. ListedTests(req, f, hash, types, "boot") = wanted
    BY <1>4, <2>1, <2>2, ListedTestsAre DEF Kinds
  <2>4. ListedTests(req, f, hash, types, "test") = {}
    BY <2>1, ListedTestsAre DEF Kinds
  <2>5. UNION {ListedTests(req, f, hash, types, kind) : kind \in Kinds} = wanted
    <3> HIDE DEF wanted
    <3> QED BY <2>3, <2>4 DEF Kinds
  <2>6. \A kind \in AskedKinds(types) : tests[kind] = {t \in ShownTests(req, hash) : Read(t, kind)}
    BY <1>3, <1>5
  <2>7. \A t, kind : Read(t, kind) => kind = KindOf(t)
    OBVIOUS
  <2> HIDE DEF Read
  <2>8. UNION {tests[kind] : kind \in AskedKinds(types)} = wanted
    BY <2>6, <2>7
  <2> QED BY <2>5, <2>8
<1> QED
  BY <1>6, <1>7, <1>8 DEF CountsShown, history, tests

-----------------------------------------------------------------------------
(* Whatever was ingested and rolled up, in whatever order:                 *)

(* The summary of a commit of a tree, computed from the rollup, counts the *)
(* tests its details list.                                                 *)
THEOREM SummaryMatchesDetailsAlways == TablesSpec => []SummaryMatchesDetails
<1>1. Sound => SummaryMatchesDetails
  BY ReferencesHold, SummaryHolds DEF Sound
<1> QED
  BY <1>1, SoundAlways, PTL

(* The summary and the details of a commit count alike the failed tests    *)
(* that no incident explains.                                              *)
THEOREM UnknownAgreesAlways == TablesSpec => []UnknownAgrees
<1>1. Sound => UnknownAgrees
  BY ReferencesHold, UnknownHolds DEF Sound
<1> QED
  BY <1>1, SoundAlways, PTL

(* The details, the summary and the tab of builds list the same builds of  *)
(* a commit, though each query joins other incidents.                      *)
THEOREM BuildListsAgreeAlways == TablesSpec => []BuildListsAgree
<1>1. Sound => BuildListsAgree
  BY ReferencesHold, BuildListsHold DEF Sound
<1> QED
  BY <1>1, SoundAlways, PTL

(* The tabs of boots and tests list what the details list.                 *)
THEOREM TabsMatchDetailsAlways == TablesSpec => []TabsMatchDetails
<1>1. Sound => TabsMatchDetails
  BY ReferencesHold, TabsHold DEF Sound
<1> QED
  BY <1>1, SoundAlways, PTL

(* The history of a tree shows of its head commit what the details show.   *)
THEOREM HistoryMatchesDetailsAlways == TablesSpec => []HistoryMatchesDetails
<1>1. Sound => HistoryMatchesDetails
  BY ReferencesHold, HistoryMatchesHolds DEF Sound
<1> QED
  BY <1>1, SoundAlways, PTL

(* A history asked for some kinds of rows shows of them what the whole     *)
(* history shows.                                                          *)
THEOREM HistoryByTypeAlways == TablesSpec => []HistoryByType
<1>1. Sound => HistoryByType
  BY ReferencesHold, HistoryByTypeHolds DEF Sound
<1> QED
  BY <1>1, SoundAlways, PTL

(* The history filtered in Python and the one counted in SQL agree.        *)
THEOREM HistoriesAgreeAlways == TablesSpec => []HistoriesAgree
<1>1. Sound => HistoriesAgree
  BY ReferencesHold, HistoriesHold DEF Sound
<1> QED
  BY <1>1, SoundAlways, PTL

(* The summary of a hardware counts the tests its details list, whatever   *)
(* commits are selected.                                                   *)
THEOREM HardwareTestsAgreeAlways == TablesSpec => []HardwareTestsAgree
<1>1. Sound => HardwareTestsAgree
  BY ReferencesHold, HardwareTestsHold DEF Sound
<1> QED
  BY <1>1, SoundAlways, PTL

(* The summary of a hardware counts the builds its details list.           *)
THEOREM HardwareBuildsAgreeAlways == TablesSpec => []HardwareBuildsAgree
<1>1. Sound => HardwareBuildsAgree
  BY ReferencesHold, HardwareBuildsHold DEF Sound
<1> QED
  BY <1>1, SoundAlways, PTL

(* The trees of a hardware's page keep their numbers, whatever is          *)
(* selected.                                                               *)
THEOREM SelectionKeepsIndexesAlways == TablesSpec => []SelectionKeepsIndexes
<1>1. Sound => SelectionKeepsIndexes
  BY ReferencesHold, SelectionHolds DEF Sound
<1> QED
  BY <1>1, SoundAlways, PTL

(* The history of a tree's head on a hardware starts with the head, and    *)
(* that of an older commit is a part of it.                                *)
THEOREM HistoriesNestAlways == TablesSpec => []HistoriesNest
<1>1. Sound => HistoriesNest
  BY ReferencesHold, HistoriesNestHolds DEF Sound
<1> QED
  BY <1>1, SoundAlways, PTL

(* The two listings of hardware count alike.                               *)
THEOREM HardwareListingsAgreeAlways == ListingsSpec => []HardwareListingsAgree
<1>1. ListingsSound => HardwareListingsAgree
  BY ReferencesHold, HardwareListingsHold DEF ListingsSound, Sound
<1> QED
  BY <1>1, ListingsSoundAlways, PTL

(* The mail about a hardware reports the failures it counts.               *)
THEOREM HardwareMailAgreesAlways == ListingsSpec => []HardwareMailAgrees
<1>1. ListingsSound => HardwareMailAgrees
  BY ReferencesHold, HardwareMailHolds DEF ListingsSound, Sound
<1> QED
  BY <1>1, ListingsSoundAlways, PTL

(* The mail about a tree tells of the commit the listing shows, with the   *)
(* same counts.                                                            *)
THEOREM TreeMailMatchesListingAlways == ListingsSpec => []TreeMailMatchesListing
<1>1. ListingsSound => TreeMailMatchesListing
  BY ReferencesHold, TreeMailHolds DEF ListingsSound, Sound
<1> QED
  BY <1>1, ListingsSoundAlways, PTL
=============================================================================
