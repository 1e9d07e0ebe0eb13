------------------------ MODULE SpoolIngesterProofs ------------------------
(***************************************************************************)
(* Theorems about SpoolIngester, for any files, workers, sizes and faults. *)
(***************************************************************************)
EXTENDS SpoolIngester, FiniteSetTheorems, TLAPS

TypeInv == TypeOK /\ FinalFlush

LEMMA EntryTypes ==
    /\ Pill \in Entries /\ NoBatch \in Entries
    /\ Pill.last /\ ~NoBatch.last
    /\ \A files \in SUBSET Files, zero \in SUBSET Files :
          Batch(files, zero) \in Entries
BY DEF Pill, NoBatch, Batch, Entries

LEMMA FaultType ==
    ASSUME TypeOK, NEW kind, Fault(kind)
    PROVE  faults' \in 0 .. MaxFaults
BY SizesAssumption DEF TypeOK, Fault

LEMMA InitTypeOK == Init => TypeInv
<1> SUFFICES ASSUME Init PROVE TypeInv
  OBVIOUS
<1>1. process_queue \in Seq(Entries) /\ Len(process_queue) <= QueueMax
  BY SizesAssumption DEF Init
<1>2. batch \in [Workers -> Entries]
  BY EntryTypes DEF Init
<1> QED
  BY <1>1, <1>2, SizesAssumption
     DEF Init, TypeInv, TypeOK, FinalFlush, FlushSteps, Places, MainSteps,
         WorkerSteps, Alive

LEMMA MainType ==
    ASSUME TypeInv, Monitor
    PROVE  TypeInv'
<1> USE DEF TypeInv, TypeOK, FinalFlush, FlushSteps, mainVars, workerVars, Alive,
            MainSteps, WorkerSteps
<1>1. CASE ScanSpool
  <2>1. faults' \in 0 .. MaxFaults
    BY <1>1, FaultType DEF ScanSpool
  <2> QED
    BY <1>1, <2>1 DEF ScanSpool, Spooled
<1>2. CASE TakeSlice
  BY <1>2 DEF TakeSlice
<1>3. CASE StopLoop
  BY <1>3 DEF StopLoop
<1>4. CASE Restart
  BY <1>4, EntryTypes, SizesAssumption DEF Restart, LoseMemory
<1>5. CASE EnqueueBatch
  <2>1. PICK files \in SUBSET json_files, zero \in SUBSET Files :
           /\ process_queue' = Append(process_queue, Batch(files, zero))
           /\ json_files' = json_files \ files
    <3>1. PICK files \in SUBSET json_files :
             /\ \/ process_queue' = Append(process_queue, Batch(files, SizeZero(files)))
                \/ \E f \in files : process_queue' =
                       Append(process_queue, Batch(files, SizeZero(files) \cup {f}))
             /\ json_files' = json_files \ files
      BY <1>5 DEF EnqueueBatch
    <3>2. SizeZero(files) \subseteq Files
          /\ \A f \in files : SizeZero(files) \cup {f} \subseteq Files
      BY DEF SizeZero
    <3> QED
      BY <3>1, <3>2
  <2>2. Batch(files, zero) \in Entries
    BY EntryTypes
  <2>3. process_queue' \in Seq(Entries) /\ Len(process_queue') <= QueueMax
    BY <1>5, <2>1, <2>2, SizesAssumption DEF EnqueueBatch
  <2>4. faults' \in 0 .. MaxFaults
    BY <1>5, FaultType DEF EnqueueBatch
  <2> QED
    BY <1>5, <2>1, <2>3, <2>4 DEF EnqueueBatch
<1>6. CASE EnqueueEnds
  BY <1>6 DEF EnqueueEnds
<1>7. ASSUME NEW w \in Workers, StartWorker(w) PROVE TypeInv'
  BY <1>7 DEF StartWorker
<1>8. CASE PutPill
  <2>1. process_queue' \in Seq(Entries) /\ Len(process_queue') <= QueueMax
    BY <1>8, EntryTypes, SizesAssumption DEF PutPill
  <2> QED
    BY <1>8, <2>1 DEF PutPill
<1>9. CASE JoinWorkers
  BY <1>9, SizesAssumption DEF JoinWorkers
<1> QED
  BY <1>1, <1>2, <1>3, <1>4, <1>5, <1>6, <1>7, <1>8, <1>9 DEF Monitor

LEMMA FlushType ==
    ASSUME TypeInv, NEW w \in Workers, FlushStep(w)
    PROVE  TypeInv'
<1> USE DEF TypeInv, TypeOK, FinalFlush, FlushSteps, mainVars, Alive, WorkerSteps
<1>1. CASE Commit(w)
  BY <1>1 DEF Commit
<1>2. CASE FlushEnds(w)
  BY <1>2, EntryTypes DEF FlushEnds
<1>3. ASSUME NEW f \in buffer_files[w], ArchiveFile(w, f) PROVE TypeInv'
  BY <1>3 DEF ArchiveFile, Rename, Places
<1>4. ASSUME NEW f \in buffer_files[w], ArchiveFails(w, f) PROVE TypeInv'
  <2>1. faults' \in 0 .. MaxFaults
    BY <1>4, FaultType DEF ArchiveFails
  <2> QED
    BY <1>4, <2>1 DEF ArchiveFails, Rename, Places
<1>5. ASSUME NEW f \in buffer_files[w], RejectFile(w, f) PROVE TypeInv'
  BY <1>5 DEF RejectFile, Rename, Places
<1>6. ASSUME NEW f \in buffer_files[w], RejectFails(w, f) PROVE TypeInv'
  <2>1. faults' \in 0 .. MaxFaults
    BY <1>6, FaultType DEF RejectFails
  <2> QED
    BY <1>6, <2>1 DEF RejectFails
<1> QED
  BY <1>1, <1>2, <1>3, <1>4, <1>5, <1>6 DEF FlushStep

LEMMA PreparedType ==
    ASSUME TypeOK, NEW w \in Workers, NEW f, Prepared(w, f)
    PROVE  /\ batch' \in [Workers -> Entries]
           /\ \A v \in Workers : batch'[v].last = batch[v].last
BY DEF Prepared, TypeOK, Entries

\* What TypeInv says of the memory of one worker.
WorkerTypes ==
    /\ step \in [Workers -> WorkerSteps]
    /\ batch \in [Workers -> Entries]
    /\ instances \in [Workers -> SUBSET Items]
    /\ buffer_files \in [Workers -> SUBSET Files]
    /\ flushing \in [Workers -> SUBSET Items]
    /\ moved \in [Workers -> BOOLEAN]
Hands(w) ==
    /\ ~Alive(w) => instances[w] = {} /\ buffer_files[w] = {}
    /\ step[w] \in FlushSteps /\ batch[w].last => flushing[w] = instances[w]
SameHands(v) ==
    /\ step'[v] = step[v] /\ batch'[v].last = batch[v].last
    /\ instances'[v] = instances[v] /\ buffer_files'[v] = buffer_files[v]
    /\ flushing'[v] = flushing[v]

LEMMA OneWorkerMoves ==
    ASSUME TypeInv, NEW w \in Workers, WorkerTypes',
           Hands(w)', \A v \in Workers \ {w} : SameHands(v),
           place' \in [Files -> Places], UNCHANGED <<stored, mainVars>>,
           process_queue' \in Seq(Entries), Len(process_queue') <= QueueMax,
           faults' \in 0 .. MaxFaults
    PROVE  TypeInv'
<1>1. \A v \in Workers : Hands(v)'
  BY DEF TypeInv, TypeOK, FinalFlush, Hands, SameHands, Alive
<1> QED
  BY <1>1 DEF TypeInv, TypeOK, FinalFlush, Hands, WorkerTypes, mainVars, Alive

LEMMA QueueTail ==
    ASSUME TypeOK, process_queue # <<>>
    PROVE  /\ Head(process_queue) \in Entries
           /\ Tail(process_queue) \in Seq(Entries)
           /\ Len(Tail(process_queue)) <= QueueMax
BY SizesAssumption DEF TypeOK

LEMMA LoseType ==
    ASSUME TypeOK, NEW w \in Workers, Lose(w),
           NEW s \in {"done", "dead"}, step' = [step EXCEPT ![w] = s]
    PROVE  WorkerTypes' /\ Hands(w)' /\ \A v \in Workers \ {w} : SameHands(v)
<1>1. WorkerTypes'
  BY EntryTypes DEF TypeOK, Lose, WorkerTypes, WorkerSteps
<1>2. instances'[w] = {} /\ buffer_files'[w] = {} /\ step'[w] = s
  BY DEF TypeOK, Lose
<1> QED
  BY <1>1, <1>2 DEF TypeOK, Lose, Hands, SameHands, FlushSteps

LEMMA StartFlushType ==
    ASSUME TypeOK, NEW w \in Workers, NEW items \in SUBSET Items,
           StartFlush(w, items), NEW b \in Entries,
           batch' = [batch EXCEPT ![w] = b], b.last => items = instances[w],
           UNCHANGED <<instances, buffer_files>>
    PROVE  WorkerTypes' /\ Hands(w)' /\ \A v \in Workers \ {w} : SameHands(v)
<1>1. WorkerTypes'
  BY DEF TypeOK, StartFlush, WorkerTypes, WorkerSteps
<1>2. flushing'[w] = items /\ step'[w] = "commit" /\ batch'[w] = b
  BY DEF TypeOK, StartFlush
<1> QED
  BY <1>1, <1>2 DEF TypeOK, StartFlush, Hands, SameHands, Alive

LEMMA WorkerType ==
    ASSUME TypeInv, NEW w \in Workers, Worker(w)
    PROVE  TypeInv'
<1>0. TypeOK
  BY DEF TypeInv
<1>1. CASE GetBatch(w)
  BY <1>0, <1>1, QueueTail
     DEF GetBatch, TypeInv, TypeOK, FinalFlush, FlushSteps, mainVars, Alive, WorkerSteps
<1>2. CASE GetPill(w)
  <2>1. /\ Tail(process_queue) \in Seq(Entries)
        /\ Len(Tail(process_queue)) <= QueueMax
    BY <1>0, <1>2, QueueTail DEF GetPill
  <2>2. WorkerTypes' /\ Hands(w)' /\ \A v \in Workers \ {w} : SameHands(v)
    <3>1. CASE instances[w] # {}
      <4>1. StartFlush(w, instances[w]) /\ UNCHANGED <<instances, buffer_files>>
            /\ batch' = [batch EXCEPT ![w] = Pill]
        BY <1>2, <3>1 DEF GetPill
      <4>2. instances[w] \in SUBSET Items
        BY <1>0 DEF TypeOK
      <4> QED
        BY <1>0, <4>1, <4>2, EntryTypes, StartFlushType
    <3>2. CASE instances[w] = {}
      BY <1>0, <1>2, <3>2, LoseType DEF GetPill
    <3> QED
      BY <3>1, <3>2
  <2> QED
    BY <1>0, <1>2, <2>1, <2>2, OneWorkerMoves DEF GetPill, TypeOK
<1>3. CASE BatchEnds(w)
  <2>1. CASE FullTables(instances[w]) # {}
    <3>1. FullTables(instances[w]) \in SUBSET Items
      BY <1>0 DEF FullTables, TypeOK
    <3>2. StartFlush(w, FullTables(instances[w]))
          /\ batch' = [batch EXCEPT ![w] = NoBatch]
          /\ UNCHANGED <<instances, buffer_files>>
      BY <1>3, <2>1 DEF BatchEnds
    <3>3. WorkerTypes' /\ Hands(w)' /\ \A v \in Workers \ {w} : SameHands(v)
      BY <1>0, <3>1, <3>2, EntryTypes, StartFlushType
    <3> QED
      BY <1>0, <1>3, <3>3, OneWorkerMoves DEF BatchEnds, TypeOK
  <2>2. CASE FullTables(instances[w]) = {}
    BY <1>3, <2>2, EntryTypes
       DEF BatchEnds, TypeInv, TypeOK, FinalFlush, FlushSteps, mainVars, Alive,
           WorkerSteps
  <2> QED
    BY <2>1, <2>2
<1>4. ASSUME NEW f \in batch[w].files, RemoveEmpty(w, f) PROVE TypeInv'
  <2>1. CASE place[f] = "spool"
    BY <1>0, <1>4, <2>1, PreparedType
       DEF RemoveEmpty, Places, TypeInv, TypeOK, FinalFlush, mainVars, Alive
  <2>2. CASE place[f] # "spool"
    <3>1. WorkerTypes' /\ Hands(w)' /\ \A v \in Workers \ {w} : SameHands(v)
      BY <1>0, <1>4, <2>2, LoseType DEF RemoveEmpty
    <3> QED
      BY <1>0, <1>4, <2>2, <3>1, OneWorkerMoves DEF RemoveEmpty, TypeOK
  <2> QED
    BY <2>1, <2>2
<1>5. ASSUME NEW f \in batch[w].files, MoveToFailed(w, f) PROVE TypeInv'
  <2>1. faults' \in 0 .. MaxFaults
    BY <1>0, <1>5, FaultType DEF MoveToFailed, TypeOK
  <2> QED
    BY <1>0, <1>5, <2>1, PreparedType
       DEF MoveToFailed, Places, TypeInv, TypeOK, FinalFlush, mainVars, Alive
<1>6. ASSUME NEW f \in batch[w].files, BufferFile(w, f) PROVE TypeInv'
  <2>1. f \in Files /\ ItemsOf(f) \subseteq Items
    BY <1>0, <1>6 DEF BufferFile, TypeOK, Entries, ItemsOf
  <2>2. batch' \in [Workers -> Entries]
        /\ \A v \in Workers : batch'[v].last = batch[v].last
    BY <1>0, <1>6, PreparedType DEF BufferFile
  <2>3. WorkerTypes'
    BY <1>0, <1>6, <2>1, <2>2 DEF BufferFile, TypeOK, WorkerTypes
  <2>4. Hands(w)'
    BY <1>0, <1>6 DEF BufferFile, Hands, Alive, FlushSteps
  <2>5. \A v \in Workers \ {w} : SameHands(v)
    BY <1>0, <1>6, <2>2 DEF BufferFile, SameHands, TypeOK
  <2> QED
    BY <1>0, <1>6, <2>3, <2>4, <2>5, OneWorkerMoves DEF BufferFile, TypeOK
<1>7. ASSUME NEW f \in batch[w].files, ReportRaises(w, f) PROVE TypeInv'
  <2>1. WorkerTypes' /\ Hands(w)' /\ \A v \in Workers \ {w} : SameHands(v)
    BY <1>0, <1>7, LoseType DEF ReportRaises
  <2> QED
    BY <1>0, <1>7, <2>1, OneWorkerMoves DEF ReportRaises, TypeOK
<1> QED
  BY <1>1, <1>2, <1>3, <1>4, <1>5, <1>6, <1>7, FlushType DEF Worker

LEMMA MishapType ==
    ASSUME TypeInv, Mishap
    PROVE  TypeInv'
<1> USE DEF TypeInv, TypeOK, FinalFlush, FlushSteps, mainVars, workerVars, Alive,
            WorkerSteps
<1>0. faults' \in 0 .. MaxFaults
  BY FaultType DEF Mishap, Vanish, Signal, ContainerDies, CommitFails, WorkerDies
<1>1. ASSUME NEW f \in Files, Vanish(f) PROVE TypeInv'
  BY <1>0, <1>1 DEF Vanish, Places
<1>2. CASE Signal
  BY <1>0, <1>2 DEF Signal
<1>3. CASE ContainerDies
  <2>1. \A w \in Workers : step'[w] = "off" /\ ~Alive(w)'
    BY <1>3 DEF ContainerDies, LoseMemory
  <2>2. FinalFlush'
    BY <2>1
  <2>3. batch' \in [Workers -> Entries] /\ process_queue' \in Seq(Entries)
        /\ Len(process_queue') <= QueueMax
    BY <1>3, EntryTypes, SizesAssumption DEF ContainerDies, LoseMemory
  <2>4. TypeOK'
    BY <1>0, <1>3, <2>1, <2>3 DEF ContainerDies, LoseMemory, MainSteps
  <2> QED
    BY <2>2, <2>4
<1>4. ASSUME NEW w \in Workers, CommitFails(w) PROVE TypeInv'
  BY <1>0, <1>4 DEF CommitFails
<1>5. ASSUME NEW w \in Workers, WorkerDies(w) PROVE TypeInv'
  BY <1>0, <1>5, EntryTypes DEF WorkerDies, Lose
<1> QED
  BY <1>1, <1>2, <1>3, <1>4, <1>5 DEF Mishap

LEMMA StepType ==
    ASSUME TypeInv, [Next]_vars
    PROVE  TypeInv'
<1>1. ASSUME NEW f \in Files, Arrive(f) PROVE TypeInv'
  BY <1>1 DEF Arrive, TypeInv, TypeOK, FinalFlush, Places, mainVars, workerVars, Alive
<1>2. CASE UNCHANGED vars
  BY <1>2 DEF vars, TypeInv, TypeOK, FinalFlush, mainVars, workerVars, Alive
<1> QED
  BY <1>1, <1>2, MainType, WorkerType, MishapType DEF Next

\* Every variable keeps its type, the queue its bound, and a worker that is
\* not running has nothing in its hands.
THEOREM TypeCorrect == Spec => []TypeOK
<1>1. Spec => []TypeInv
  BY InitTypeOK, StepType, PTL DEF Spec
<1>2. TypeInv => TypeOK
  BY DEF TypeInv
<1> QED
  BY <1>1, <1>2, PTL

-----------------------------------------------------------------------------
(* Nothing archived is missing from the database, and no submission is     *)
(* half stored, as long as no table is flushed early.                      *)

LEMMA NothingIsFull ==
    ASSUME NoEarlyFlush, NEW items \in SUBSET Items
    PROVE  FullTables(items) = {}
<1> SUFFICES ASSUME NEW i \in FullTables(items) PROVE FALSE
  OBVIOUS
<1> DEFINE same == {j \in items : TableOf[j] = TableOf[i]}
<1>1. Cardinality(same) >= FlushSize
  BY DEF FullTables
<1>2. /\ IsFiniteSet(Items) /\ same \subseteq Items
  BY SubmissionsAssumption
<1> HIDE DEF same
<1>3. /\ Cardinality(same) \in Nat /\ Cardinality(Items) \in Nat
      /\ Cardinality(same) <= Cardinality(Items)
  BY <1>2, FS_Subset, FS_CardinalityType
<1> QED
  BY <1>1, <1>3, SizesAssumption DEF NoEarlyFlush

Whole(items) == \A f \in Files : ItemsOf(f) \cap items \in {{}, ItemsOf(f)}

LEMMA WholeUnion ==
    ASSUME NEW S, NEW T, Whole(S), Whole(T)
    PROVE  Whole(S \cup T)
<1> SUFFICES ASSUME NEW f \in Files
             PROVE  ItemsOf(f) \cap (S \cup T) \in {{}, ItemsOf(f)}
  BY DEF Whole
<1>1. /\ ItemsOf(f) \cap S \in {{}, ItemsOf(f)}
      /\ ItemsOf(f) \cap T \in {{}, ItemsOf(f)}
  BY DEF Whole
<1> QED
  BY <1>1

LEMMA WholeFile ==
    ASSUME NEW f \in Files
    PROVE  Whole(ItemsOf(f)) /\ Whole({})
BY DEF Whole, ItemsOf

\* What Loading says of the memory of one worker.
Hold(w) ==
    /\ step[w] \in FlushSteps => flushing[w] = instances[w]
    /\ step[w] = "archive" => flushing[w] \subseteq stored
    /\ \A f \in buffer_files[w] : ItemsOf(f) \subseteq instances[w]
    /\ Whole(instances[w])

LEMMA LoadingParts ==
    Loading <=> /\ \A w \in Workers : Hold(w)
                /\ ArchivedIsStored
                /\ Whole(stored)
BY DEF Loading, WholeFlush, WholeSubmissions, Hold, Whole

\* Outside a commit, and where no file is archived, only one worker matters.
LEMMA OneWorkerHolds ==
    ASSUME TypeOK, Loading, NEW w \in Workers, Hold(w)', UNCHANGED stored,
           \A v \in Workers \ {w} : SameHands(v),
           \A f \in Files : place'[f] = "archive" => place[f] = "archive"
    PROVE  Loading'
<1>1. \A v \in Workers : Hold(v)'
  BY LoadingParts DEF Hold, SameHands
<1>2. ArchivedIsStored'
  BY LoadingParts, SubmissionsAssumption DEF ArchivedIsStored
<1> QED
  BY <1>1, <1>2, LoadingParts DEF Loading, WholeFlush, WholeSubmissions, Hold, Whole

\* The main process and the environment move no item and archive no file;
\* a worker they start, end or forget is not flushing.
LEMMA LoadingOutside ==
    ASSUME TypeInv, Loading, UNCHANGED stored,
           \A f \in Files : place'[f] = "archive" => place[f] = "archive",
           \A w \in Workers :
              \/ SameHands(w)
              \/ /\ step'[w] \notin FlushSteps
                 /\ instances'[w] = instances[w] /\ buffer_files'[w] = buffer_files[w]
              \/ step'[w] \notin FlushSteps /\ instances'[w] = {} /\ buffer_files'[w] = {}
    PROVE  Loading'
<1>1. \A w \in Workers : Hold(w)'
  <2> SUFFICES ASSUME NEW w \in Workers PROVE Hold(w)'
    OBVIOUS
  <2>1. Hold(w) /\ Whole({})
    BY LoadingParts DEF Whole
  <2> QED
    BY <2>1 DEF Hold, SameHands, FlushSteps
<1>2. ArchivedIsStored'
  BY LoadingParts, SubmissionsAssumption DEF ArchivedIsStored
<1> QED
  BY <1>1, <1>2, LoadingParts DEF Loading, WholeFlush, WholeSubmissions, Hold, Whole

LEMMA LoadingMonitor ==
    ASSUME TypeInv, Loading, Monitor
    PROVE  Loading'
<1>1. UNCHANGED <<place, stored>>
  BY DEF Monitor, ScanSpool, TakeSlice, StopLoop, Restart, EnqueueBatch, EnqueueEnds,
         StartWorker, PutPill, JoinWorkers
<1>2. CASE Restart
  BY <1>1, <1>2, LoadingOutside DEF Restart, LoseMemory, FlushSteps
<1>3. ASSUME NEW w \in Workers, StartWorker(w) PROVE Loading'
  BY <1>1, <1>3, LoadingOutside DEF StartWorker, FlushSteps, SameHands, TypeInv, TypeOK
<1>4. CASE JoinWorkers
  BY <1>1, <1>4, LoadingOutside DEF JoinWorkers, FlushSteps
<1>5. CASE UNCHANGED workerVars
  BY <1>1, <1>5, LoadingOutside DEF workerVars, SameHands
<1> QED
  BY <1>2, <1>3, <1>4, <1>5
     DEF Monitor, ScanSpool, TakeSlice, StopLoop, EnqueueBatch, EnqueueEnds, PutPill

LEMMA LoadingLose ==
    ASSUME TypeOK, Loading, UNCHANGED stored, NEW w \in Workers, Lose(w),
           NEW s \in {"done", "dead"}, step' = [step EXCEPT ![w] = s],
           \A f \in Files : place'[f] = "archive" => place[f] = "archive"
    PROVE  Loading'
<1>1. \A v \in Workers \ {w} : SameHands(v)
  BY LoseType
<1>2. step'[w] = s /\ instances'[w] = {} /\ buffer_files'[w] = {}
  BY DEF TypeOK, Lose
<1>3. Hold(w)'
  BY <1>2 DEF Hold, FlushSteps, Whole
<1> QED
  BY <1>1, <1>3, OneWorkerHolds

\* New rows in the database: whole submissions, and nothing else moves.
LEMMA LoadingStored ==
    ASSUME TypeOK, Loading, NEW w \in Workers, step[w] \in FlushSteps,
           stored' \in {stored, stored \cup flushing[w]},
           NEW s \in {"archive", "reject"}, s = "archive" => flushing[w] \subseteq stored',
           step' = [step EXCEPT ![w] = s],
           UNCHANGED <<place, batch, instances, buffer_files, flushing>>
    PROVE  Loading'
<1>1. Whole(stored')
  <2>1. Whole(stored) /\ Whole(flushing[w])
    BY LoadingParts DEF Hold
  <2> QED
    BY <2>1, WholeUnion
<1>2. \A v \in Workers : Hold(v)'
  BY LoadingParts DEF Hold, TypeOK, FlushSteps
<1>3. ArchivedIsStored'
  BY LoadingParts DEF ArchivedIsStored
<1> QED
  BY <1>1, <1>2, <1>3 DEF Loading, WholeFlush, WholeSubmissions, Hold, Whole

LEMMA LoadingMishap ==
    ASSUME TypeInv, Loading, Mishap
    PROVE  Loading'
<1>0. TypeOK
  BY DEF TypeInv
<1>1. ASSUME NEW f \in Files, Vanish(f) PROVE Loading'
  BY <1>0, <1>1, LoadingOutside DEF Vanish, workerVars, SameHands, TypeOK
<1>2. CASE Signal
  BY <1>2, LoadingOutside DEF Signal, workerVars, SameHands
<1>3. CASE ContainerDies
  BY <1>3, LoadingOutside DEF ContainerDies, LoseMemory, FlushSteps
<1>4. ASSUME NEW w \in Workers, CommitFails(w) PROVE Loading'
  <2>1. /\ step[w] \in FlushSteps
        /\ stored' \in {stored, stored \cup flushing[w]}
        /\ step' = [step EXCEPT ![w] = "reject"]
        /\ UNCHANGED <<place, batch, instances, buffer_files, flushing>>
    BY <1>4 DEF CommitFails, FlushSteps
  <2> QED
    BY <1>0, <2>1, LoadingStored
<1>5. ASSUME NEW w \in Workers, WorkerDies(w) PROVE Loading'
  BY <1>0, <1>5, LoadingLose DEF WorkerDies
<1> QED
  BY <1>1, <1>2, <1>3, <1>4, <1>5 DEF Mishap

LEMMA LoadingFlush ==
    ASSUME TypeInv, Loading, NEW w \in Workers, FlushStep(w)
    PROVE  Loading'
<1>0. TypeOK /\ Hold(w)
  BY LoadingParts DEF TypeInv
<1>1. CASE Commit(w)
  <2>1. /\ step[w] \in FlushSteps
        /\ stored' = stored \cup flushing[w]
        /\ step' = [step EXCEPT ![w] = "archive"]
        /\ UNCHANGED <<place, batch, instances, buffer_files, flushing>>
    BY <1>1 DEF Commit, FlushSteps
  <2> QED
    BY <1>0, <2>1, LoadingStored
<1>2. CASE FlushEnds(w)
  <2>1. instances'[w] = {} /\ buffer_files'[w] = {} /\ step'[w] \in {"done", "get"}
    BY <1>0, <1>2 DEF FlushEnds, Hold, FlushSteps, TypeOK
  <2>2. Hold(w)'
    BY <2>1 DEF Hold, FlushSteps, Whole
  <2>3. \A v \in Workers \ {w} : SameHands(v)
    BY <1>0, <1>2 DEF FlushEnds, SameHands, TypeOK
  <2> QED
    BY <1>0, <1>2, <2>2, <2>3, OneWorkerHolds DEF FlushEnds
<1>3. ASSUME NEW f \in buffer_files[w], ArchiveFile(w, f) PROVE Loading'
  <2>1. ItemsOf(f) \subseteq stored
    BY <1>0, <1>3 DEF ArchiveFile, Hold, FlushSteps
  <2>2. ArchivedIsStored'
    BY <1>0, <1>3, <2>1, LoadingParts
       DEF ArchiveFile, Rename, ArchivedIsStored, ItemsOf, TypeOK
  <2>3. \A v \in Workers : Hold(v)'
    BY <1>0, <1>3, LoadingParts DEF ArchiveFile, Rename, Hold, TypeOK
  <2> QED
    BY <1>3, <2>2, <2>3, LoadingParts
       DEF ArchiveFile, Loading, WholeFlush, WholeSubmissions, Hold, Whole
<1>4. ASSUME NEW f \in buffer_files[w], ArchiveFails(w, f) PROVE Loading'
  <2>1. /\ step[w] = "archive" /\ step'[w] \in {"reject", "clear"}
        /\ UNCHANGED <<stored, batch, instances, flushing>>
        /\ buffer_files'[w] \subseteq buffer_files[w]
        /\ \A v \in Workers \ {w} : SameHands(v)
    BY <1>0, <1>4 DEF ArchiveFails, Rename, SameHands, TypeOK
  <2>2. Hold(w)'
    BY <1>0, <2>1 DEF Hold, FlushSteps
  <2>3. \A g \in Files : place'[g] = "archive" => place[g] = "archive"
    BY <1>0, <1>4 DEF ArchiveFails, Rename, TypeOK
  <2> QED
    BY <1>0, <2>1, <2>2, <2>3, OneWorkerHolds
<1>5. ASSUME NEW f \in buffer_files[w], RejectFile(w, f) \/ RejectFails(w, f)
      PROVE  Loading'
  <2>1. /\ step[w] = "reject" /\ step'[w] \in {"reject", "clear"}
        /\ UNCHANGED <<stored, batch, instances, flushing>>
        /\ buffer_files'[w] \subseteq buffer_files[w]
        /\ \A v \in Workers \ {w} : SameHands(v)
    BY <1>0, <1>5 DEF RejectFile, RejectFails, Rename, SameHands, TypeOK
  <2>2. Hold(w)'
    BY <1>0, <2>1 DEF Hold, FlushSteps
  <2>3. \A g \in Files : place'[g] = "archive" => place[g] = "archive"
    BY <1>0, <1>5 DEF RejectFile, RejectFails, Rename, TypeOK
  <2> QED
    BY <1>0, <2>1, <2>2, <2>3, OneWorkerHolds
<1> QED
  BY <1>1, <1>2, <1>3, <1>4, <1>5 DEF FlushStep

LEMMA LoadingWorker ==
    ASSUME NoEarlyFlush, TypeInv, Loading, NEW w \in Workers, Worker(w)
    PROVE  Loading'
<1>0. TypeOK /\ Hold(w)
  BY LoadingParts DEF TypeInv
<1>1. CASE GetBatch(w)
  BY <1>0, <1>1, OneWorkerHolds DEF GetBatch, Hold, FlushSteps, SameHands, TypeOK
<1>2. CASE GetPill(w)
  <2>1. CASE instances[w] # {}
    <3>1. /\ flushing'[w] = instances[w] /\ step'[w] = "commit"
          /\ UNCHANGED <<place, stored, instances, buffer_files>>
      BY <1>0, <1>2, <2>1 DEF GetPill, StartFlush, TypeOK
    <3>2. \A v \in Workers \ {w} : SameHands(v)
      BY <1>0, <1>2, <2>1 DEF GetPill, StartFlush, SameHands, TypeOK
    <3>3. Hold(w)'
      BY <1>0, <3>1 DEF Hold
    <3> QED
      BY <1>0, <3>1, <3>2, <3>3, OneWorkerHolds
  <2>2. CASE instances[w] = {}
    BY <1>0, <1>2, <2>2, LoadingLose DEF GetPill
  <2> QED
    BY <2>1, <2>2
<1>3. CASE BatchEnds(w)
  <2>1. FullTables(instances[w]) = {}
    BY <1>0, NothingIsFull DEF TypeOK
  <2>2. /\ step'[w] = "get" /\ UNCHANGED <<place, stored, instances, buffer_files>>
        /\ \A v \in Workers \ {w} : SameHands(v)
    BY <1>0, <1>3, <2>1 DEF BatchEnds, SameHands, TypeOK
  <2>3. Hold(w)'
    BY <1>0, <2>2 DEF Hold, FlushSteps
  <2> QED
    BY <1>0, <2>2, <2>3, OneWorkerHolds
<1>4. ASSUME NEW f \in batch[w].files, RemoveEmpty(w, f) PROVE Loading'
  <2>1. CASE place[f] = "spool"
    <3>1. /\ UNCHANGED <<stored, step, instances, buffer_files, flushing>>
          /\ place' = [place EXCEPT ![f] = "gone"]
      BY <1>4, <2>1 DEF RemoveEmpty
    <3>2. \A v \in Workers : SameHands(v)
      BY <1>0, <1>4, <2>1, <3>1, PreparedType DEF RemoveEmpty, SameHands
    <3> QED
      BY <1>0, <3>1, <3>2, LoadingOutside DEF TypeOK
  <2>2. CASE place[f] # "spool"
    BY <1>0, <1>4, <2>2, LoadingLose DEF RemoveEmpty
  <2> QED
    BY <2>1, <2>2
<1>5. ASSUME NEW f \in batch[w].files, MoveToFailed(w, f) PROVE Loading'
  <2>1. /\ UNCHANGED <<stored, step, instances, buffer_files, flushing>>
        /\ \A g \in Files : place'[g] = "archive" => place[g] = "archive"
    BY <1>0, <1>5 DEF MoveToFailed, TypeOK
  <2>2. \A v \in Workers : SameHands(v)
    BY <1>0, <1>5, <2>1, PreparedType DEF MoveToFailed, SameHands
  <2> QED
    BY <2>1, <2>2, LoadingOutside
<1>6. ASSUME NEW f \in batch[w].files, BufferFile(w, f) PROVE Loading'
  <2>1. /\ instances'[w] = instances[w] \cup ItemsOf(f)
        /\ buffer_files'[w] = buffer_files[w] \cup {f}
        /\ step'[w] = "prepare"
        /\ UNCHANGED <<place, stored>>
    BY <1>0, <1>6 DEF BufferFile, TypeOK
  <2>2. \A v \in Workers \ {w} : SameHands(v)
    BY <1>0, <1>6, PreparedType DEF BufferFile, SameHands, TypeOK
  <2>3. f \in Files
    BY <1>0 DEF TypeOK, Entries
  <2>4. Whole(instances'[w])
    BY <1>0, <2>1, <2>3, WholeFile, WholeUnion DEF Hold
  <2>5. Hold(w)'
    BY <1>0, <2>1, <2>4 DEF Hold, FlushSteps, ItemsOf, Whole
  <2> QED
    BY <1>0, <2>1, <2>2, <2>5, OneWorkerHolds
<1>7. ASSUME NEW f \in batch[w].files, ReportRaises(w, f) PROVE Loading'
  BY <1>0, <1>7, LoadingLose DEF ReportRaises
<1> QED
  BY <1>1, <1>2, <1>3, <1>4, <1>5, <1>6, <1>7, LoadingFlush DEF Worker

LEMMA LoadingStep ==
    ASSUME NoEarlyFlush, TypeInv, Loading, [Next]_vars
    PROVE  Loading'
<1>1. ASSUME NEW f \in Files, Arrive(f) PROVE Loading'
  BY <1>1, LoadingOutside DEF Arrive, workerVars, SameHands, TypeInv, TypeOK
<1>2. CASE UNCHANGED vars
  BY <1>2, LoadingOutside DEF vars, workerVars, SameHands
<1> QED
  BY <1>1, <1>2, LoadingMonitor, LoadingWorker, LoadingMishap DEF Next

LEMMA LoadingInit == Init => Loading
<1> SUFFICES ASSUME Init PROVE Loading
  OBVIOUS
<1>1. ArchivedIsStored
  <2>1. \A i \in Items : place[FileOf[i]] = "absent"
    BY SubmissionsAssumption DEF Init
  <2> QED
    BY <2>1 DEF ArchivedIsStored
<1>2. WholeSubmissions
  BY DEF Init, WholeSubmissions
<1>3. WholeFlush
  BY DEF Init, WholeFlush, Hold, Whole, FlushSteps
<1> QED
  BY <1>1, <1>2, <1>3 DEF Loading

\* With no early flush, whatever fails or dies, an archived submission is in
\* the database: the worker flushes all it holds before it moves a file.
THEOREM ArchivedSafe ==
    ASSUME NoEarlyFlush
    PROVE  Spec => []ArchivedIsSafe
<1>1. TypeInv /\ Loading /\ [Next]_vars => TypeInv' /\ Loading'
  BY StepType, LoadingStep
<1>2. Init => TypeInv /\ Loading
  BY InitTypeOK, LoadingInit
<1>3. Loading => ArchivedIsSafe
  BY DEF Loading, ArchivedIsStored, ArchivedIsSafe
<1> QED
  BY <1>1, <1>2, <1>3, PTL DEF Spec

\* Nor is any submission ever half stored: each flush is one transaction.
THEOREM SubmissionsWhole ==
    ASSUME NoEarlyFlush
    PROVE  Spec => []WholeSubmissions
<1>1. TypeInv /\ Loading /\ [Next]_vars => TypeInv' /\ Loading'
  BY StepType, LoadingStep
<1>2. Init => TypeInv /\ Loading
  BY InitTypeOK, LoadingInit
<1>3. Loading => WholeSubmissions
  BY DEF Loading
<1> QED
  BY <1>1, <1>2, <1>3, PTL DEF Spec

-----------------------------------------------------------------------------
(* No two of the cache, the cycle, the queue and the workers ever hold the *)
(* same path.                                                              *)

Apart(S, T) == \A x \in S : x \notin T
Held(w)     == batch[w].files \cup buffer_files[w]

Holders ==
    /\ Apart(cached_files, json_files)
    /\ \A k \in 1 .. Len(process_queue) :
          /\ Apart(process_queue[k].files, cached_files \cup json_files)
          /\ \A l \in 1 .. Len(process_queue) :
                k # l => Apart(process_queue[k].files, process_queue[l].files)
    /\ \A w \in Workers :
          /\ Apart(Held(w), cached_files \cup json_files)
          /\ \A k \in 1 .. Len(process_queue) :
                Apart(Held(w), process_queue[k].files)
          /\ Apart(batch[w].files, buffer_files[w])
          /\ \A v \in Workers \ {w} : Apart(Held(v), Held(w))

LEMMA HoldersIsOneHolder == Holders => OneHolder
BY DEF Holders, OneHolder, Held, Apart

\* Whoever lets go of paths, and takes none, disturbs nobody.
LEMMA LetGo ==
    ASSUME Holders,
           cached_files' \subseteq cached_files,
           json_files' \subseteq json_files,
           process_queue' \in {process_queue, <<>>},
           \A w \in Workers : /\ Held(w)' \subseteq Held(w)
                              /\ Apart(batch'[w].files, buffer_files'[w])
    PROVE  Holders'
BY DEF Holders, Apart

LEMMA LetGoAll ==
    ASSUME Holders, LoseMemory
    PROVE  Holders'
<1>1. \A w \in Workers : Held(w)' = {} /\ batch'[w].files = {}
  BY DEF LoseMemory, NoBatch, Held
<1> QED
  BY <1>1, LetGo DEF LoseMemory, Apart

\* One worker lets go of paths; the others and the rest stay as they are.
LEMMA LetGoOne ==
    ASSUME TypeInv, Holders, NEW w \in Workers,
           UNCHANGED <<mainVars, process_queue>>,
           Held(w)' \subseteq Held(w), Apart(batch'[w].files, buffer_files'[w]),
           \A v \in Workers \ {w} :
               batch'[v] = batch[v] /\ buffer_files'[v] = buffer_files[v]
    PROVE  Holders'
<1>1. \A v \in Workers : /\ Held(v)' \subseteq Held(v)
                         /\ Apart(batch'[v].files, buffer_files'[v])
  BY DEF Held, Holders
<1> QED
  BY <1>1, LetGo DEF mainVars

\* A batch, or a pill, goes to the end of the queue: its paths leave the cycle.
LEMMA Enqueue ==
    ASSUME TypeInv, Holders, NEW e \in Entries,
           process_queue' = Append(process_queue, e),
           e.files \subseteq json_files,
           json_files' = json_files \ e.files,
           UNCHANGED <<cached_files, batch, buffer_files>>
    PROVE  Holders'
<1>1. /\ process_queue \in Seq(Entries)
      /\ Len(process_queue') = Len(process_queue) + 1
      /\ \A k \in 1 .. Len(process_queue) : process_queue'[k] = process_queue[k]
      /\ process_queue'[Len(process_queue) + 1] = e
  BY DEF TypeInv, TypeOK
<1>2. \A w \in Workers : Held(w)' = Held(w)
  BY DEF Held
<1>3. \A k \in 1 .. Len(process_queue') :
         \/ k \in 1 .. Len(process_queue) /\ process_queue'[k] = process_queue[k]
         \/ k = Len(process_queue) + 1 /\ process_queue'[k] = e
  BY <1>1
<1>4. \A k \in 1 .. Len(process_queue') :
         /\ Apart(process_queue'[k].files, cached_files' \cup json_files')
         /\ \A w \in Workers : Apart(Held(w)', process_queue'[k].files)
  BY <1>2, <1>3 DEF Holders, Apart
<1>5. \A k, l \in 1 .. Len(process_queue') :
         k # l => Apart(process_queue'[k].files, process_queue'[l].files)
  BY <1>3 DEF Holders, Apart
<1>6. /\ Apart(cached_files', json_files')
      /\ \A w \in Workers : Apart(Held(w)', cached_files' \cup json_files')
  BY <1>2 DEF Holders, Apart
<1>7. \A w \in Workers :
         /\ Apart(batch'[w].files, buffer_files'[w])
         /\ \A v \in Workers \ {w} : Apart(Held(v)', Held(w)')
  BY <1>2 DEF Holders
<1> QED
  BY <1>4, <1>5, <1>6, <1>7 DEF Holders

\* A worker takes the head of the queue: b is what it then has to prepare.
LEMMA Dequeue ==
    ASSUME TypeInv, Holders, NEW w \in Workers, process_queue # <<>>,
           process_queue' = Tail(process_queue),
           batch'[w].files \subseteq Head(process_queue).files,
           buffer_files'[w] \subseteq buffer_files[w],
           \A v \in Workers \ {w} :
               batch'[v] = batch[v] /\ buffer_files'[v] = buffer_files[v],
           UNCHANGED <<cached_files, json_files>>
    PROVE  Holders'
<1>1. /\ process_queue \in Seq(Entries) /\ Len(process_queue) \in Nat \ {0}
      /\ Len(process_queue') = Len(process_queue) - 1
      /\ Head(process_queue) = process_queue[1]
      /\ \A k \in 1 .. Len(process_queue') :
            process_queue'[k] = process_queue[k + 1]
  BY DEF TypeInv, TypeOK
<1>2. \A k \in 1 .. Len(process_queue') :
         k + 1 \in 1 .. Len(process_queue) /\ k + 1 # 1
  BY <1>1
<1>3. 1 \in 1 .. Len(process_queue)
  BY <1>1
<1>4. /\ \A v \in Workers \ {w} : Held(v)' = Held(v)
      /\ Held(w)' \subseteq process_queue[1].files \cup buffer_files[w]
      /\ buffer_files[w] \subseteq Held(w)
  BY <1>1 DEF Held
<1>5. \A k, l \in 1 .. Len(process_queue') :
         k # l => k + 1 # l + 1
  BY <1>1
<1>6. \A k \in 1 .. Len(process_queue') :
         /\ Apart(process_queue'[k].files, cached_files' \cup json_files')
         /\ \A l \in 1 .. Len(process_queue') :
               k # l => Apart(process_queue'[k].files, process_queue'[l].files)
  <2> TAKE k \in 1 .. Len(process_queue')
  <2>1. Apart(process_queue'[k].files, cached_files' \cup json_files')
    BY <1>1, <1>2 DEF Holders
  <2>2. ASSUME NEW l \in 1 .. Len(process_queue'), k # l
        PROVE  Apart(process_queue'[k].files, process_queue'[l].files)
    <3>1. Apart(process_queue[k + 1].files, process_queue[l + 1].files)
      BY <1>2, <1>5, <2>2 DEF Holders
    <3> QED
      BY <1>1, <2>2, <3>1
  <2> QED
    BY <2>1, <2>2
<1>7. \A k \in 1 .. Len(process_queue') :
         \A v \in Workers : Apart(Held(v)', process_queue'[k].files)
  <2> TAKE k \in 1 .. Len(process_queue')
  <2>1. /\ Apart(process_queue[1].files, process_queue'[k].files)
        /\ \A v \in Workers : Apart(Held(v), process_queue'[k].files)
    BY <1>1, <1>2, <1>3 DEF Holders
  <2> QED
    BY <1>4, <2>1 DEF Apart
<1>8. \A v \in Workers :
         /\ Apart(Held(v)', cached_files' \cup json_files')
         /\ Apart(batch'[v].files, buffer_files'[v])
  <2>1. /\ Apart(process_queue[1].files, cached_files \cup json_files)
        /\ \A v \in Workers : Apart(Held(v), process_queue[1].files)
    BY <1>3 DEF Holders
  <2>2. batch'[w].files \subseteq process_queue[1].files
    BY <1>1
  <2> QED
    BY <1>4, <2>1, <2>2 DEF Holders, Apart
<1>9. \A v, u \in Workers : v # u => Apart(Held(v)', Held(u)')
  <2>1. \A v \in Workers : Apart(Held(v), process_queue[1].files)
    BY <1>3 DEF Holders
  <2> QED
    BY <1>4, <2>1 DEF Holders, Apart
<1> QED
  BY <1>6, <1>7, <1>8, <1>9 DEF Holders

LEMMA MainHolders ==
    ASSUME TypeInv, AtRest, Holders, Monitor
    PROVE  AtRest' /\ Holders'
<1> USE DEF mainVars, workerVars
<1>0. TypeOK
  BY DEF TypeInv
<1>1. CASE ScanSpool
  <2>1. AtRest'
    BY <1>1 DEF ScanSpool, AtRest
  <2>2. \A w \in Workers : Held(w) = {}
    BY <1>0, <1>1 DEF ScanSpool, AtRest, TypeOK, Alive, Held
  <2>3. \A w \in Workers : Held(w)' = {} /\ batch'[w].files = {}
    BY <1>1, <2>2 DEF ScanSpool, Held
  <2>4. json_files' = {} /\ process_queue' = <<>>
    BY <1>1 DEF ScanSpool, AtRest
  <2> QED
    BY <2>1, <2>3, <2>4 DEF Holders, Apart
<1>2. CASE TakeSlice
  <2>1. AtRest'
    BY <1>2 DEF TakeSlice, AtRest
  <2>2. /\ json_files' \subseteq cached_files
        /\ cached_files' = cached_files \ json_files'
        /\ UNCHANGED <<process_queue, batch, buffer_files>>
    BY <1>2 DEF TakeSlice
  <2>3. \A w \in Workers : Held(w)' = Held(w)
    BY <2>2 DEF Held
  <2> QED
    BY <2>1, <2>2, <2>3 DEF Holders, Apart
<1>3. CASE StopLoop
  BY <1>3, LetGo DEF StopLoop, AtRest, Held, Holders
<1>4. CASE Restart
  <2>1. AtRest'
    BY <1>4 DEF Restart, LoseMemory, NoBatch, AtRest
  <2> QED
    BY <1>4, <2>1, LetGoAll DEF Restart
<1>5. CASE EnqueueBatch
  <2>1. PICK files \in SUBSET json_files, zero \in SUBSET Files :
           /\ process_queue' = Append(process_queue, Batch(files, zero))
           /\ json_files' = json_files \ files
    <3>1. PICK files \in SUBSET json_files :
             /\ \/ process_queue' = Append(process_queue, Batch(files, SizeZero(files)))
                \/ \E f \in files : process_queue' =
                       Append(process_queue, Batch(files, SizeZero(files) \cup {f}))
             /\ json_files' = json_files \ files
      BY <1>5 DEF EnqueueBatch
    <3>2. SizeZero(files) \subseteq Files
          /\ \A f \in files : SizeZero(files) \cup {f} \subseteq Files
      BY <1>0 DEF SizeZero, TypeOK
    <3> QED
      BY <3>1, <3>2
  <2>2. Batch(files, zero) \in Entries /\ Batch(files, zero).files = files
    BY <1>0, EntryTypes DEF Batch, TypeOK
  <2>3. AtRest'
    BY <1>5 DEF EnqueueBatch, AtRest
  <2> QED
    BY <1>5, <2>1, <2>2, <2>3, Enqueue DEF EnqueueBatch
<1>6. CASE EnqueueEnds
  BY <1>6, LetGo DEF EnqueueEnds, AtRest, Held, Holders
<1>7. ASSUME NEW w \in Workers, StartWorker(w) PROVE AtRest' /\ Holders'
  <2>1. AtRest'
    BY <1>0, <1>7 DEF StartWorker, AtRest, TypeOK
  <2> QED
    BY <1>7, <2>1, LetGo DEF StartWorker, Held, Holders
<1>8. CASE PutPill
  <2>1. AtRest'
    BY <1>8 DEF PutPill, AtRest
  <2>2. Pill \in Entries /\ Pill.files = {}
    BY EntryTypes DEF Pill
  <2> QED
    BY <1>8, <2>1, <2>2, Enqueue DEF PutPill
<1>9. CASE JoinWorkers
  <2>1. \A w \in Workers : step[w] # "prepare"
    BY <1>9 DEF JoinWorkers, Alive
  <2>2. AtRest'
    BY <1>9, <2>1 DEF JoinWorkers, AtRest
  <2> QED
    BY <1>9, <2>2, LetGo DEF JoinWorkers, Held, Holders
<1> QED
  BY <1>1, <1>2, <1>3, <1>4, <1>5, <1>6, <1>7, <1>8, <1>9 DEF Monitor

\* A worker that takes a step is running, so no scan can start; whatever step
\* it goes to, it has files to prepare only in "prepare".
LEMMA OneWorkerAtRest ==
    ASSUME TypeInv, AtRest, NEW w \in Workers, Alive(w), UNCHANGED mainVars,
           step'[w] # "prepare" => batch'[w].files = {},
           \A v \in Workers \ {w} : step'[v] = step[v] /\ batch'[v] = batch[v]
    PROVE  AtRest'
<1>1. pc \notin {"scan", "enqueue", "stopped"}
  BY DEF AtRest, Alive
<1> QED
  BY <1>1 DEF AtRest, mainVars

LEMMA PreparedHolders ==
    ASSUME TypeInv, NEW w \in Workers, NEW f, Prepared(w, f)
    PROVE  /\ batch'[w].files = batch[w].files \ {f}
           /\ \A v \in Workers \ {w} : batch'[v] = batch[v]
BY DEF Prepared, TypeInv, TypeOK, Entries

\* Dying, or leaving, empties the hands of one worker.
LEMMA LoseHolders ==
    ASSUME TypeInv, NEW w \in Workers, Lose(w)
    PROVE  /\ batch'[w].files = {} /\ buffer_files'[w] = {}
           /\ \A v \in Workers \ {w} :
                 batch'[v] = batch[v] /\ buffer_files'[v] = buffer_files[v]
BY DEF Lose, NoBatch, TypeInv, TypeOK

LEMMA FlushHolders ==
    ASSUME TypeInv, AtRest, Holders, NEW w \in Workers, FlushStep(w)
    PROVE  AtRest' /\ Holders'
<1>0. TypeOK
  BY DEF TypeInv
<1>1. /\ Alive(w) /\ step[w] # "prepare" /\ UNCHANGED <<mainVars, process_queue>>
      /\ step'[w] # "prepare"
      /\ \A v \in Workers \ {w} : step'[v] = step[v]
  BY <1>0 DEF FlushStep, Commit, FlushEnds, ArchiveFile, ArchiveFails, RejectFile,
              RejectFails, Alive, TypeOK
<1>2. /\ batch'[w].files = {} /\ buffer_files'[w] \subseteq buffer_files[w]
      /\ \A v \in Workers \ {w} :
            batch'[v] = batch[v] /\ buffer_files'[v] = buffer_files[v]
  <2>1. batch[w].files = {}
    BY <1>1 DEF AtRest
  <2> QED
    BY <1>0, <2>1
       DEF FlushStep, Commit, FlushEnds, ArchiveFile, ArchiveFails, RejectFile,
           RejectFails, Rename, NoBatch, TypeOK
<1>3. Held(w)' \subseteq Held(w) /\ Apart(batch'[w].files, buffer_files'[w])
  BY <1>2 DEF Held, Apart
<1> QED
  BY <1>1, <1>2, <1>3, OneWorkerAtRest, LetGoOne

LEMMA WorkerHolders ==
    ASSUME TypeInv, AtRest, Holders, NEW w \in Workers, Worker(w)
    PROVE  AtRest' /\ Holders'
<1>0. TypeOK
  BY DEF TypeInv
<1>1. CASE GetBatch(w)
  <2>1. /\ Alive(w) /\ UNCHANGED mainVars /\ step'[w] = "prepare"
        /\ batch'[w] = Head(process_queue) /\ UNCHANGED buffer_files
        /\ \A v \in Workers \ {w} : step'[v] = step[v] /\ batch'[v] = batch[v]
    BY <1>0, <1>1 DEF GetBatch, Alive, TypeOK
  <2>2. process_queue # <<>> /\ process_queue' = Tail(process_queue)
    BY <1>1 DEF GetBatch
  <2> QED
    BY <2>1, <2>2, OneWorkerAtRest, Dequeue DEF mainVars
<1>2. CASE GetPill(w)
  <2>1. /\ Alive(w) /\ UNCHANGED mainVars
        /\ process_queue # <<>> /\ process_queue' = Tail(process_queue)
    BY <1>2 DEF GetPill, Alive
  <2>2. /\ batch'[w].files = {} /\ buffer_files'[w] \subseteq buffer_files[w]
        /\ \A v \in Workers \ {w} :
              /\ batch'[v] = batch[v] /\ buffer_files'[v] = buffer_files[v]
              /\ step'[v] = step[v]
    <3>1. CASE instances[w] # {}
      BY <1>0, <1>2, <3>1 DEF GetPill, StartFlush, Pill, TypeOK
    <3>2. CASE instances[w] = {}
      BY <1>0, <1>2, <3>2, LoseHolders DEF GetPill, TypeOK
    <3> QED
      BY <3>1, <3>2
  <2> QED
    BY <2>1, <2>2, OneWorkerAtRest, Dequeue DEF mainVars
<1>3. CASE BatchEnds(w)
  <2>1. /\ Alive(w) /\ UNCHANGED <<mainVars, process_queue, buffer_files>>
        /\ batch'[w].files = {}
        /\ \A v \in Workers \ {w} : step'[v] = step[v] /\ batch'[v] = batch[v]
    BY <1>0, <1>3 DEF BatchEnds, StartFlush, NoBatch, Alive, TypeOK
  <2>2. Held(w)' \subseteq Held(w) /\ Apart(batch'[w].files, buffer_files'[w])
    BY <2>1 DEF Held, Apart
  <2> QED
    BY <2>1, <2>2, OneWorkerAtRest, LetGoOne
<1>4. ASSUME NEW f \in batch[w].files, RemoveEmpty(w, f) PROVE AtRest' /\ Holders'
  <2>1. Alive(w) /\ UNCHANGED <<mainVars, process_queue>>
    BY <1>4 DEF RemoveEmpty, Alive
  <2>2. CASE place[f] = "spool"
    <3>1. /\ Prepared(w, f) /\ UNCHANGED <<step, buffer_files>>
          /\ step[w] = "prepare"
      BY <1>4, <2>2 DEF RemoveEmpty
    <3>2. Held(w)' \subseteq Held(w) /\ Apart(batch'[w].files, buffer_files'[w])
      BY <3>1, PreparedHolders DEF Held, Apart, Holders
    <3> QED
      BY <2>1, <3>1, <3>2, PreparedHolders, OneWorkerAtRest, LetGoOne
  <2>3. CASE place[f] # "spool"
    <3>1. Lose(w) /\ \A v \in Workers \ {w} : step'[v] = step[v]
      BY <1>0, <1>4, <2>3 DEF RemoveEmpty, TypeOK
    <3>2. Held(w)' \subseteq Held(w) /\ Apart(batch'[w].files, buffer_files'[w])
      BY <3>1, LoseHolders DEF Held, Apart
    <3> QED
      BY <2>1, <3>1, <3>2, LoseHolders, OneWorkerAtRest, LetGoOne
  <2> QED
    BY <2>2, <2>3
<1>5. ASSUME NEW f \in batch[w].files, MoveToFailed(w, f) PROVE AtRest' /\ Holders'
  <2>1. /\ Alive(w) /\ UNCHANGED <<mainVars, process_queue, step, buffer_files>>
        /\ step[w] = "prepare" /\ Prepared(w, f)
    BY <1>5 DEF MoveToFailed, Alive
  <2>2. Held(w)' \subseteq Held(w) /\ Apart(batch'[w].files, buffer_files'[w])
    BY <2>1, PreparedHolders DEF Held, Apart, Holders
  <2> QED
    BY <2>1, <2>2, PreparedHolders, OneWorkerAtRest, LetGoOne
<1>6. ASSUME NEW f \in batch[w].files, BufferFile(w, f) PROVE AtRest' /\ Holders'
  <2>1. /\ Alive(w) /\ UNCHANGED <<mainVars, process_queue, step>>
        /\ step[w] = "prepare" /\ Prepared(w, f)
        /\ buffer_files'[w] = buffer_files[w] \cup {f}
        /\ \A v \in Workers \ {w} : buffer_files'[v] = buffer_files[v]
    BY <1>0, <1>6 DEF BufferFile, Alive, TypeOK
  <2>2. Held(w)' \subseteq Held(w) /\ Apart(batch'[w].files, buffer_files'[w])
    BY <1>6, <2>1, PreparedHolders DEF Held, Apart, Holders
  <2> QED
    BY <2>1, <2>2, PreparedHolders, OneWorkerAtRest, LetGoOne
<1>7. ASSUME NEW f \in batch[w].files, ReportRaises(w, f) PROVE AtRest' /\ Holders'
  <2>1. /\ Alive(w) /\ UNCHANGED <<mainVars, process_queue>> /\ Lose(w)
        /\ \A v \in Workers \ {w} : step'[v] = step[v]
    BY <1>0, <1>7 DEF ReportRaises, Alive, TypeOK
  <2>2. Held(w)' \subseteq Held(w) /\ Apart(batch'[w].files, buffer_files'[w])
    BY <2>1, LoseHolders DEF Held, Apart
  <2> QED
    BY <2>1, <2>2, LoseHolders, OneWorkerAtRest, LetGoOne
<1> QED
  BY <1>1, <1>2, <1>3, <1>4, <1>5, <1>6, <1>7, FlushHolders DEF Worker

LEMMA MishapHolders ==
    ASSUME TypeInv, AtRest, Holders, Mishap
    PROVE  AtRest' /\ Holders'
<1>0. TypeOK
  BY DEF TypeInv
<1>1. ASSUME NEW f \in Files, Vanish(f) PROVE AtRest' /\ Holders'
  BY <1>1, LetGo DEF Vanish, mainVars, workerVars, AtRest, Held, Holders
<1>2. CASE Signal
  BY <1>2, LetGo DEF Signal, workerVars, AtRest, Held, Holders
<1>3. CASE ContainerDies
  <2>1. AtRest'
    BY <1>3 DEF ContainerDies, LoseMemory, NoBatch, AtRest
  <2> QED
    BY <1>3, <2>1, LetGoAll DEF ContainerDies
<1>4. ASSUME NEW w \in Workers, CommitFails(w) PROVE AtRest' /\ Holders'
  <2>1. /\ Alive(w) /\ step[w] # "prepare"
        /\ UNCHANGED <<mainVars, process_queue, batch, buffer_files>>
        /\ \A v \in Workers \ {w} : step'[v] = step[v]
    BY <1>0, <1>4 DEF CommitFails, Alive, TypeOK
  <2>2. batch'[w].files = {}
    BY <2>1 DEF AtRest
  <2>3. Held(w)' \subseteq Held(w) /\ Apart(batch'[w].files, buffer_files'[w])
    BY <2>1, <2>2 DEF Held, Apart
  <2> QED
    BY <2>1, <2>2, <2>3, OneWorkerAtRest, LetGoOne
<1>5. ASSUME NEW w \in Workers, WorkerDies(w) PROVE AtRest' /\ Holders'
  <2>1. /\ Alive(w) /\ Lose(w) /\ UNCHANGED <<mainVars, process_queue>>
        /\ \A v \in Workers \ {w} : step'[v] = step[v]
    BY <1>0, <1>5 DEF WorkerDies, Alive, TypeOK
  <2>2. Held(w)' \subseteq Held(w) /\ Apart(batch'[w].files, buffer_files'[w])
    BY <2>1, LoseHolders DEF Held, Apart
  <2> QED
    BY <2>1, <2>2, LoseHolders, OneWorkerAtRest, LetGoOne
<1> QED
  BY <1>1, <1>2, <1>3, <1>4, <1>5 DEF Mishap

LEMMA HoldersStep ==
    ASSUME TypeInv, AtRest, Holders, [Next]_vars
    PROVE  AtRest' /\ Holders'
<1>1. ASSUME NEW f \in Files, Arrive(f) PROVE AtRest' /\ Holders'
  BY <1>1, LetGo DEF Arrive, mainVars, workerVars, AtRest, Held, Holders
<1>2. CASE UNCHANGED vars
  BY <1>2, LetGo DEF vars, mainVars, workerVars, AtRest, Held, Holders
<1> QED
  BY <1>1, <1>2, MainHolders, WorkerHolders, MishapHolders DEF Next

LEMMA HoldersInit == Init => AtRest /\ Holders
<1> SUFFICES ASSUME Init PROVE AtRest /\ Holders
  OBVIOUS
<1>1. \A w \in Workers : batch[w].files = {} /\ Held(w) = {}
  BY DEF Init, NoBatch, Held
<1>2. AtRest
  BY <1>1 DEF Init, AtRest
<1>3. Holders
  BY <1>1 DEF Init, Holders, Apart
<1> QED
  BY <1>2, <1>3

\* Through every crash, death and rescan, a path is in one place only: no two
\* workers ever load or move the same submission.
THEOREM OneHolderAlways == Spec => []OneHolder
<1>1. TypeInv /\ AtRest /\ Holders /\ [Next]_vars => TypeInv' /\ AtRest' /\ Holders'
  BY StepType, HoldersStep
<1>2. Init => TypeInv /\ AtRest /\ Holders
  BY InitTypeOK, HoldersInit
<1> QED
  BY <1>1, <1>2, HoldersIsOneHolder, PTL DEF Spec

-----------------------------------------------------------------------------
(* An early flush leaves rows behind of files it archives: if no worker    *)
(* dies and no transaction fails, they stay in a memory nobody loses.      *)

LEMMA NoneDies ==
    ASSUME NoDeaths
    PROVE  /\ ~Fault("db") /\ ~Fault("exception")
           /\ ~Fault("container") /\ ~Fault("vanish")
BY DEF NoDeaths, Fault

LEMMA TakenOf ==
    ASSUME NEW f
    PROVE  Taken(f) <=> \/ f \in cached_files \cup json_files
                        \/ \E k \in 1 .. Len(process_queue) : f \in process_queue[k].files
                        \/ \E w \in Workers : f \in Held(w)
BY DEF Taken, Held

\* Nobody moves a file, and who takes one finds it in the spool.
LEMMA NoneMoves ==
    ASSUME TakenIsSpooled, \A f \in Files : place[f] = "spool" => place'[f] = "spool",
           \A f \in Files : Taken(f)' => Taken(f) \/ place[f] = "spool"
    PROVE  TakenIsSpooled'
BY DEF TakenIsSpooled

\* A worker moves a file and lets go of it: nobody else has it.
LEMMA HolderMoves ==
    ASSUME TypeInv, Holders, TakenIsSpooled, NEW w \in Workers, NEW f \in Held(w),
           \A g \in Files \ {f} : place'[g] = place[g],
           UNCHANGED <<mainVars, process_queue>>,
           Held(w)' \subseteq Held(w) \ {f},
           \A v \in Workers \ {w} : Held(v)' = Held(v)
    PROVE  TakenIsSpooled'
<1>1. ~Taken(f)'
  <2>1. f \notin cached_files \cup json_files
    BY DEF Holders, Apart
  <2>2. \A k \in 1 .. Len(process_queue) : f \notin process_queue[k].files
    BY DEF Holders, Apart
  <2>3. \A v \in Workers : f \notin Held(v)'
    BY DEF Holders, Apart
  <2> QED
    BY <2>1, <2>2, <2>3 DEF Taken, Held, mainVars
<1>2. ASSUME NEW g \in Files, Taken(g)' PROVE Taken(g)
  BY <1>2 DEF Taken, Held, mainVars
<1> QED
  BY <1>1, <1>2 DEF TakenIsSpooled

\* Rows only go from a memory to the database, and no file is archived.
LEMMA RowsStay ==
    ASSUME TypeOK, ArchivedIsSafe, stored \subseteq stored',
           \A w \in Workers : instances[w] \subseteq instances'[w] \cup stored',
           \A f \in Files : place'[f] = "archive" => place[f] = "archive"
    PROVE  ArchivedIsSafe'
<1> SUFFICES ASSUME NEW i \in Items, place'[FileOf[i]] = "archive"
             PROVE  i \in stored' \/ \E w \in Workers : i \in instances'[w]
  BY DEF ArchivedIsSafe
<1>1. place[FileOf[i]] = "archive"
  BY SubmissionsAssumption
<1> QED
  BY <1>1 DEF ArchivedIsSafe

Kept == RowsAreKept /\ TakenIsSpooled /\ ArchivedIsSafe

LEMMA KeptMonitor ==
    ASSUME TypeInv, AtRest, Kept, Monitor
    PROVE  Kept'
<1> USE DEF mainVars, workerVars
<1>0. TypeOK /\ UNCHANGED <<place, stored>>
  BY DEF TypeInv, Monitor, ScanSpool, TakeSlice, StopLoop, Restart, EnqueueBatch,
         EnqueueEnds, StartWorker, PutPill, JoinWorkers
<1>1. \/ UNCHANGED workerVars
      \/ /\ UNCHANGED <<instances, buffer_files, flushing>>
         /\ \A w \in Workers : step'[w] \in {step[w], "off", "get"}
      \/ /\ \A w \in Workers : instances[w] = {}
         /\ \A w \in Workers : step'[w] = "off" /\ buffer_files'[w] = {}
  <2>1. CASE Restart
    BY <1>0, <2>1 DEF Restart, LoseMemory, AtRest, TypeOK, Alive
  <2>2. CASE JoinWorkers
    BY <2>2 DEF JoinWorkers
  <2>3. ASSUME NEW w \in Workers, StartWorker(w)
        PROVE  /\ UNCHANGED <<instances, buffer_files, flushing>>
               /\ \A v \in Workers : step'[v] \in {step[v], "off", "get"}
    BY <1>0, <2>3 DEF StartWorker, TypeOK
  <2> QED
    BY <2>1, <2>2, <2>3
       DEF Monitor, ScanSpool, TakeSlice, StopLoop, EnqueueBatch, EnqueueEnds, PutPill
<1>2. RowsAreKept'
  BY <1>0, <1>1 DEF Kept, RowsAreKept, ItemsOf
<1>3. ArchivedIsSafe'
  BY <1>0, <1>1, RowsStay DEF Kept
<1>4. \A f \in Files : Taken(f)' => Taken(f) \/ place[f] = "spool"
  <2> SUFFICES ASSUME NEW f \in Files, Taken(f)' PROVE Taken(f) \/ place[f] = "spool"
    OBVIOUS
  <2>1. CASE ScanSpool
    BY <2>1 DEF ScanSpool, Taken, Spooled
  <2>2. CASE TakeSlice
    BY <2>2 DEF TakeSlice, Taken
  <2>3. CASE StopLoop \/ EnqueueEnds
    BY <2>3 DEF StopLoop, EnqueueEnds, Taken
  <2>4. CASE Restart
    BY <2>4 DEF Restart, LoseMemory, NoBatch, Taken
  <2>5. CASE EnqueueBatch
    <3>1. PICK files \in SUBSET json_files : \E zero :
             /\ process_queue' = Append(process_queue, Batch(files, zero))
             /\ json_files' = json_files \ files
      BY <2>5 DEF EnqueueBatch
    <3>2. \A k \in 1 .. Len(process_queue') :
             \/ k \in 1 .. Len(process_queue) /\ process_queue'[k] = process_queue[k]
             \/ process_queue'[k].files = files
      BY <1>0, <3>1 DEF TypeOK, Batch
    <3> QED
      BY <2>5, <3>1, <3>2 DEF EnqueueBatch, Taken
  <2>6. ASSUME NEW w \in Workers, StartWorker(w) PROVE Taken(f)
    BY <2>6 DEF StartWorker, Taken
  <2>7. CASE PutPill
    <3>1. process_queue' = Append(process_queue, Pill)
      BY <2>7 DEF PutPill
    <3>2. \A k \in 1 .. Len(process_queue') :
             \/ k \in 1 .. Len(process_queue) /\ process_queue'[k] = process_queue[k]
             \/ process_queue'[k].files = {}
      BY <1>0, <3>1 DEF TypeOK, Pill
    <3> QED
      BY <2>7, <3>2 DEF PutPill, Taken
  <2>8. CASE JoinWorkers
    BY <2>8 DEF JoinWorkers, Taken
  <2> QED
    BY <2>1, <2>2, <2>3, <2>4, <2>5, <2>6, <2>7, <2>8 DEF Monitor
<1> QED
  BY <1>0, <1>2, <1>3, <1>4, NoneMoves DEF Kept

\* Of the others nothing changes: it is enough to look at one worker.
LEMMA OneWorkerKeeps ==
    ASSUME TypeOK, RowsAreKept, stored \subseteq stored', NEW w \in Workers,
           \A v \in Workers \ {w} : SameHands(v),
           step'[w] \in {"archive", "reject", "clear"} => flushing'[w] \subseteq stored',
           \A f \in buffer_files'[w] : ItemsOf(f) \subseteq instances'[w]
    PROVE  RowsAreKept'
BY DEF RowsAreKept, SameHands, ItemsOf

LEMMA KeptFlush ==
    ASSUME TypeInv, Holders, Kept, NEW w \in Workers, FlushStep(w)
    PROVE  Kept'
<1>0. TypeOK
  BY DEF TypeInv
<1>1. CASE Commit(w)
  <2>1. /\ stored' = stored \cup flushing[w] /\ UNCHANGED <<place, instances>>
        /\ flushing'[w] \subseteq stored' /\ buffer_files'[w] = buffer_files[w]
        /\ \A v \in Workers \ {w} : SameHands(v)
    BY <1>0, <1>1 DEF Commit, SameHands, TypeOK
  <2>2. RowsAreKept'
    BY <1>0, <2>1, OneWorkerKeeps DEF Kept, RowsAreKept
  <2>3. TakenIsSpooled'
    BY <1>1, NoneMoves DEF Commit, mainVars, Taken, Kept
  <2> QED
    BY <1>0, <2>1, <2>2, <2>3, RowsStay DEF Kept
<1>2. CASE FlushEnds(w)
  <2>1. /\ flushing[w] \subseteq stored
        /\ instances'[w] = instances[w] \ flushing[w] /\ buffer_files'[w] = {}
        /\ step'[w] \in {"done", "get"} /\ UNCHANGED <<place, stored>>
        /\ \A v \in Workers \ {w} : SameHands(v)
    BY <1>0, <1>2 DEF FlushEnds, SameHands, TypeOK, Kept, RowsAreKept
  <2>2. RowsAreKept'
    BY <1>0, <2>1, OneWorkerKeeps DEF Kept
  <2>3. \A f \in Files : Taken(f)' => Taken(f)
    BY <1>0, <1>2 DEF FlushEnds, mainVars, NoBatch, Taken, TypeOK
  <2>4. TakenIsSpooled'
    BY <2>1, <2>3, NoneMoves DEF Kept
  <2>5. \A v \in Workers : instances[v] \subseteq instances'[v] \cup stored'
    BY <2>1 DEF SameHands
  <2> QED
    BY <1>0, <2>1, <2>2, <2>4, <2>5, RowsStay DEF Kept
<1>3. ASSUME NEW f \in buffer_files[w], ArchiveFile(w, f) PROVE Kept'
  <2>1. /\ UNCHANGED <<mainVars, process_queue, stored, instances, step, flushing, batch>>
        /\ f \in Files /\ place' = [place EXCEPT ![f] = "archive"]
        /\ buffer_files'[w] = buffer_files[w] \ {f}
        /\ \A v \in Workers \ {w} : SameHands(v) /\ buffer_files'[v] = buffer_files[v]
    BY <1>0, <1>3 DEF ArchiveFile, Rename, SameHands, TypeOK
  <2>2. RowsAreKept'
    BY <1>0, <2>1, OneWorkerKeeps DEF Kept, RowsAreKept
  <2>3. ArchivedIsSafe'
    <3>1. ItemsOf(f) \subseteq instances[w]
      BY DEF Kept, RowsAreKept
    <3>2. ASSUME NEW i \in Items, place'[FileOf[i]] = "archive"
          PROVE  i \in stored \cup UNION {instances[v] : v \in Workers}
      <4>1. CASE FileOf[i] = f
        BY <3>1, <4>1 DEF ItemsOf
      <4>2. CASE FileOf[i] # f
        BY <1>0, <2>1, <3>2, <4>2, SubmissionsAssumption DEF Kept, ArchivedIsSafe, TypeOK
      <4> QED
        BY <4>1, <4>2
    <3> QED
      BY <2>1, <3>2 DEF ArchivedIsSafe
  <2>4. /\ f \in Held(w) /\ Held(w)' \subseteq Held(w) \ {f}
        /\ \A v \in Workers \ {w} : Held(v)' = Held(v)
        /\ \A g \in Files \ {f} : place'[g] = place[g]
    BY <1>0, <2>1 DEF Held, Holders, Apart, TypeOK
  <2> QED
    BY <2>1, <2>2, <2>3, <2>4, HolderMoves DEF Kept
<1>4. ASSUME NEW f \in buffer_files[w], ArchiveFails(w, f) \/ RejectFile(w, f) \/ RejectFails(w, f)
      PROVE  Kept'
  <2>1. /\ UNCHANGED <<mainVars, process_queue, stored, instances, flushing, batch>>
        /\ f \in Files /\ buffer_files'[w] \subseteq buffer_files[w]
        /\ flushing[w] \subseteq stored
        /\ \A v \in Workers \ {w} : SameHands(v) /\ buffer_files'[v] = buffer_files[v]
    BY <1>0, <1>4
       DEF ArchiveFails, RejectFile, RejectFails, Rename, SameHands, TypeOK, Kept, RowsAreKept
  <2>2. RowsAreKept'
    BY <1>0, <2>1, OneWorkerKeeps DEF Kept, RowsAreKept
  <2>3. \/ UNCHANGED <<place, buffer_files>>
        \/ /\ place' = [place EXCEPT ![f] = "failed"]
           /\ buffer_files'[w] = buffer_files[w] \ {f}
    BY <1>0, <1>4 DEF ArchiveFails, RejectFile, RejectFails, Rename, TypeOK
  <2>4. ArchivedIsSafe'
    BY <1>0, <2>1, <2>3, RowsStay DEF Kept, TypeOK
  <2>5. CASE UNCHANGED <<place, buffer_files>>
    <3>1. TakenIsSpooled'
      BY <2>1, <2>5, NoneMoves DEF Kept, Taken, mainVars
    <3> QED
      BY <2>2, <2>4, <3>1 DEF Kept
  <2>6. CASE /\ place' = [place EXCEPT ![f] = "failed"]
             /\ buffer_files'[w] = buffer_files[w] \ {f}
    <3>1. /\ f \in Held(w) /\ Held(w)' \subseteq Held(w) \ {f}
          /\ \A v \in Workers \ {w} : Held(v)' = Held(v)
          /\ \A g \in Files \ {f} : place'[g] = place[g]
      BY <1>0, <2>1, <2>6 DEF Held, Holders, Apart, TypeOK
    <3> QED
      BY <2>1, <2>2, <2>4, <3>1, HolderMoves DEF Kept
  <2> QED
    BY <2>3, <2>5, <2>6
<1> QED
  BY <1>1, <1>2, <1>3, <1>4 DEF FlushStep

LEMMA KeptWorker ==
    ASSUME Malformed = {}, TypeInv, Holders, Kept, NEW w \in Workers, Worker(w)
    PROVE  Kept'
<1>0. TypeOK
  BY DEF TypeInv
<1>1. CASE GetBatch(w)
  <2>1. /\ UNCHANGED <<place, stored, instances, buffer_files, flushing>>
        /\ step'[w] = "prepare"
        /\ \A v \in Workers \ {w} : SameHands(v)
    BY <1>0, <1>1 DEF GetBatch, SameHands, TypeOK
  <2>2. RowsAreKept'
    BY <1>0, <2>1, OneWorkerKeeps DEF Kept, RowsAreKept
  <2>3. \A f \in Files : Taken(f)' => Taken(f)
    <3>1. /\ process_queue \in Seq(Entries) /\ process_queue # <<>>
          /\ process_queue' = Tail(process_queue)
          /\ batch' = [batch EXCEPT ![w] = process_queue[1]]
      BY <1>0, <1>1 DEF GetBatch, TypeOK
    <3>2. /\ 1 \in 1 .. Len(process_queue)
          /\ \A k \in 1 .. Len(process_queue') :
                /\ k + 1 \in 1 .. Len(process_queue)
                /\ process_queue'[k] = process_queue[k + 1]
      BY <3>1
    <3>3. \A v \in Workers : batch'[v] \in {batch[v], process_queue[1]}
      BY <1>0, <3>1 DEF TypeOK
    <3> QED
      BY <1>1, <3>2, <3>3 DEF GetBatch, mainVars, Taken
  <2> QED
    BY <1>0, <2>1, <2>2, <2>3, NoneMoves, RowsStay DEF Kept
<1>2. CASE GetPill(w)
  <2>1. /\ UNCHANGED <<place, stored>> /\ instances'[w] = instances[w]
        /\ step'[w] \in {"commit", "done"}
        /\ buffer_files'[w] \subseteq buffer_files[w]
        /\ batch'[w].files = {}
        /\ \A v \in Workers \ {w} : SameHands(v) /\ batch'[v] = batch[v]
    <3>1. CASE instances[w] # {}
      BY <1>0, <1>2, <3>1 DEF GetPill, StartFlush, Pill, SameHands, TypeOK
    <3>2. CASE instances[w] = {}
      BY <1>0, <1>2, <3>2 DEF GetPill, Lose, NoBatch, SameHands, TypeOK
    <3> QED
      BY <3>1, <3>2
  <2>2. RowsAreKept'
    BY <1>0, <2>1, OneWorkerKeeps DEF Kept, RowsAreKept
  <2>3. \A f \in Files : Taken(f)' => Taken(f)
    <3>1. /\ process_queue \in Seq(Entries) /\ process_queue # <<>>
          /\ process_queue' = Tail(process_queue)
      BY <1>0, <1>2 DEF GetPill, TypeOK
    <3>2. \A k \in 1 .. Len(process_queue') :
             /\ k + 1 \in 1 .. Len(process_queue)
             /\ process_queue'[k] = process_queue[k + 1]
      BY <3>1
    <3>3. \A v \in Workers : /\ batch'[v].files \subseteq batch[v].files
                             /\ buffer_files'[v] \subseteq buffer_files[v]
      BY <2>1 DEF SameHands
    <3> QED
      BY <1>2, <3>2, <3>3 DEF GetPill, mainVars, Taken
  <2>4. \A v \in Workers : instances[v] \subseteq instances'[v]
    BY <2>1 DEF SameHands
  <2> QED
    BY <1>0, <2>1, <2>2, <2>3, <2>4, NoneMoves, RowsStay DEF Kept
<1>3. CASE BatchEnds(w)
  <2>1. /\ UNCHANGED <<place, stored, instances, buffer_files>>
        /\ step'[w] \in {"commit", "get"}
        /\ \A v \in Workers : batch'[v].files \subseteq batch[v].files
        /\ \A v \in Workers \ {w} : SameHands(v)
    BY <1>0, <1>3 DEF BatchEnds, StartFlush, NoBatch, SameHands, TypeOK
  <2>2. RowsAreKept'
    BY <1>0, <2>1, OneWorkerKeeps DEF Kept, RowsAreKept
  <2>3. \A f \in Files : Taken(f)' => Taken(f)
    BY <1>3, <2>1 DEF BatchEnds, mainVars, Taken
  <2> QED
    BY <1>0, <2>1, <2>2, <2>3, NoneMoves, RowsStay DEF Kept
<1>4. ASSUME NEW f \in batch[w].files, RemoveEmpty(w, f) \/ MoveToFailed(w, f) PROVE Kept'
  <2>0. f \in Files /\ place[f] = "spool"
    <3>1. f \in Files
      BY <1>0 DEF TypeOK, Entries
    <3> QED
      BY <3>1 DEF Kept, TakenIsSpooled, Taken
  <2>1. /\ UNCHANGED <<mainVars, process_queue, stored, instances, buffer_files, flushing, step>>
        /\ Prepared(w, f)
        /\ place' = place \/ \E d \in {"gone", "failed"} : place' = [place EXCEPT ![f] = d]
    BY <1>4, <2>0 DEF RemoveEmpty, MoveToFailed
  <2>2. \A v \in Workers : SameHands(v)
    BY <1>0, <2>1, PreparedType DEF SameHands
  <2>3. RowsAreKept'
    BY <1>0, <2>1, <2>2, OneWorkerKeeps DEF Kept, RowsAreKept
  <2>4. /\ f \in Held(w) /\ Held(w)' \subseteq Held(w) \ {f}
        /\ \A v \in Workers \ {w} : Held(v)' = Held(v)
        /\ \A g \in Files \ {f} : place'[g] = place[g]
    BY <1>0, <2>1, PreparedHolders DEF Held, Holders, Apart, TypeOK
  <2>5. \A g \in Files : place'[g] = "archive" => place[g] = "archive"
    BY <1>0, <2>1 DEF TypeOK
  <2> QED
    BY <1>0, <2>1, <2>3, <2>4, <2>5, HolderMoves, RowsStay DEF Kept
<1>5. ASSUME NEW f \in batch[w].files, BufferFile(w, f) PROVE Kept'
  <2>1. /\ UNCHANGED <<place, stored, mainVars, process_queue, step, flushing>>
        /\ instances'[w] = instances[w] \cup ItemsOf(f)
        /\ buffer_files'[w] = buffer_files[w] \cup {f}
        /\ Prepared(w, f) /\ step[w] = "prepare"
        /\ \A v \in Workers \ {w} : buffer_files'[v] = buffer_files[v]
    BY <1>0, <1>5 DEF BufferFile, TypeOK
  <2>2. \A v \in Workers \ {w} : SameHands(v)
    BY <1>0, <1>5, PreparedType DEF BufferFile, SameHands, TypeOK
  <2>3. RowsAreKept'
    BY <1>0, <2>1, <2>2, OneWorkerKeeps DEF Kept, RowsAreKept
  <2>4. \A v \in Workers : Held(v)' \subseteq Held(v)
    BY <2>1, PreparedHolders DEF Held
  <2>5. \A g \in Files : Taken(g)' => Taken(g)
    BY <2>1, <2>4, TakenOf DEF Taken, Held, mainVars
  <2>6. \A v \in Workers : instances[v] \subseteq instances'[v]
    BY <2>1, <2>2 DEF SameHands
  <2> QED
    BY <1>0, <2>1, <2>3, <2>5, <2>6, NoneMoves, RowsStay DEF Kept
<1>6. \A f \in batch[w].files : ~ReportRaises(w, f)
  BY DEF ReportRaises, Unreportable
<1> QED
  BY <1>1, <1>2, <1>3, <1>4, <1>5, <1>6, KeptFlush DEF Worker

LEMMA KeptStep ==
    ASSUME NoDeaths, TypeInv, AtRest, Holders, Kept, [Next]_vars
    PROVE  Kept'
<1>0. TypeOK
  BY DEF TypeInv
<1>1. ASSUME NEW f \in Files, Arrive(f) PROVE Kept'
  <2>1. /\ UNCHANGED <<stored, mainVars, process_queue, workerVars>>
        /\ \A g \in Files : /\ place[g] = "spool" => place'[g] = "spool"
                            /\ place'[g] = "archive" => place[g] = "archive"
    BY <1>0, <1>1 DEF Arrive, TypeOK
  <2> QED
    BY <1>0, <2>1, NoneMoves, RowsStay
       DEF Kept, RowsAreKept, ItemsOf, Taken, mainVars, workerVars
<1>2. CASE Signal
  BY <1>0, <1>2, NoneMoves, RowsStay DEF Signal, Kept, RowsAreKept, ItemsOf, Taken, workerVars
<1>3. CASE UNCHANGED vars
  BY <1>0, <1>3, NoneMoves, RowsStay
     DEF vars, Kept, RowsAreKept, ItemsOf, Taken, mainVars, workerVars
<1>4. Mishap => Signal
  BY NoneDies DEF Mishap, Vanish, ContainerDies, CommitFails, WorkerDies
<1> QED
  BY <1>1, <1>2, <1>3, <1>4, KeptMonitor, KeptWorker DEF Next, NoDeaths

LEMMA KeptInit == Init => Kept
<1> SUFFICES ASSUME Init PROVE Kept
  OBVIOUS
<1>1. RowsAreKept
  BY DEF Init, RowsAreKept
<1>2. TakenIsSpooled
  BY DEF Init, TakenIsSpooled, Taken, NoBatch
<1>3. \A i \in Items : place[FileOf[i]] = "absent"
  BY SubmissionsAssumption DEF Init
<1> QED
  BY <1>1, <1>2, <1>3 DEF Kept, ArchivedIsSafe

\* When no worker dies and no transaction fails, early flushes are harmless,
\* although scans, sizes and moves may fail and signals stop the loop: what an
\* archived file said is in the database or in a worker that will write it.
THEOREM EarlyFlushSafe ==
    ASSUME NoDeaths
    PROVE  Spec => []ArchivedIsSafe
<1> DEFINE Inv == TypeInv /\ AtRest /\ Holders /\ Kept
<1>1. Inv /\ [Next]_vars => Inv'
  BY StepType, HoldersStep, KeptStep
<1>2. Init => Inv
  BY InitTypeOK, HoldersInit, KeptInit
<1>3. Inv => ArchivedIsSafe
  BY DEF Kept
<1> QED
  BY <1>1, <1>2, <1>3, PTL DEF Spec

-----------------------------------------------------------------------------
(* Every worker that still runs has a pill coming: the pills are counted   *)
(* against the workers that owe one, behind the last batch.                *)

\* A worker that took its pill is flushing, and takes no other entry.
Owed == {w \in Workers : Alive(w) /\ ~batch[w].last}
LastInFlush == \A w \in Workers : batch[w].last => step[w] \in FlushSteps

\* The queue is b batches and then pills; none is there before a worker is, and
\* from then on there is one for every worker that has not taken its own.
PillsBehind(b) ==
    /\ \A k \in 1 .. Len(process_queue) : process_queue[k].last <=> k > b
    /\ pc \in {"scan", "enqueue", "stopped"} => b = Len(process_queue)
    /\ Cardinality(Owed) <= Len(process_queue) - b + (IF pc = "pill" THEN 1 ELSE 0)

PillInvariant == LastInFlush /\ \E b \in 0 .. Len(process_queue) : PillsBehind(b)

LEMMA OwedFinite ==
    /\ IsFiniteSet(Owed) /\ Cardinality(Owed) \in Nat
    /\ \A S \in SUBSET Owed : IsFiniteSet(S) /\ Cardinality(S) <= Cardinality(Owed)
<1>1. Owed \subseteq Workers /\ IsFiniteSet(Workers)
  BY SubmissionsAssumption DEF Owed
<1>2. IsFiniteSet(Owed)
  BY <1>1, FS_Subset
<1> QED
  BY <1>2, FS_Subset, FS_CardinalityType

\* While no worker runs none owes a pill.
LEMMA NoneOwed ==
    ASSUME AtRest
    PROVE  pc \in {"scan", "enqueue", "stopped"} => Cardinality(Owed) = 0
<1>1. pc \in {"scan", "enqueue", "stopped"} => Owed = {}
  BY DEF AtRest, Owed, Alive
<1> QED
  BY <1>1, FS_EmptySet

\* A step that leaves the queue alone, and after which no other worker owes a
\* pill, keeps the order; it may not leave "pill", nor end the cycle.
LEMMA PillsKept ==
    ASSUME TypeInv, PillInvariant, LastInFlush', Owed' \subseteq Owed, UNCHANGED process_queue,
           pc' # pc => pc # "pill",
           pc' \in {"scan", "enqueue", "stopped"} =>
               pc \in {"scan", "enqueue", "stopped"} \/ process_queue = <<>>
    PROVE  PillInvariant'
<1>1. PICK b \in 0 .. Len(process_queue) : PillsBehind(b)
  BY DEF PillInvariant
<1>2. /\ Cardinality(Owed') <= Cardinality(Owed) /\ Cardinality(Owed) \in Nat
      /\ Cardinality(Owed') \in Nat
  BY OwedFinite, FS_CardinalityType
<1>3. Len(process_queue) \in Nat /\ (process_queue = <<>> => Len(process_queue) = 0)
  BY DEF TypeInv, TypeOK
<1>4. PillsBehind(b)'
  BY <1>1, <1>2, <1>3 DEF PillsBehind
<1> QED
  BY <1>1, <1>4 DEF PillInvariant

\* A new cycle starts with an empty queue and no worker.
LEMMA PillsGone ==
    ASSUME process_queue' = <<>>, Owed' = {}, LastInFlush'
    PROVE  PillInvariant'
<1>1. Cardinality(Owed') = 0 /\ Len(process_queue') = 0
  BY FS_EmptySet
<1>2. PillsBehind(0)'
  BY <1>1 DEF PillsBehind
<1> QED
  BY <1>1, <1>2 DEF PillInvariant

LEMMA AppendFacts ==
    ASSUME TypeInv, NEW e \in Entries
    PROVE  /\ Len(Append(process_queue, e)) = Len(process_queue) + 1
           /\ Append(process_queue, e)[Len(process_queue) + 1] = e
           /\ \A k \in 1 .. Len(process_queue) :
                 Append(process_queue, e)[k] = process_queue[k]
           /\ Len(process_queue) \in Nat
BY DEF TypeInv, TypeOK

LEMMA TailFacts ==
    ASSUME TypeInv, process_queue # <<>>
    PROVE  /\ Len(Tail(process_queue)) = Len(process_queue) - 1
           /\ \A k \in 1 .. Len(process_queue) - 1 :
                 Tail(process_queue)[k] = process_queue[k + 1]
           /\ Head(process_queue) = process_queue[1]
           /\ Len(process_queue) \in Nat /\ Len(process_queue) >= 1
BY DEF TypeInv, TypeOK

LEMMA MainPills ==
    ASSUME TypeInv, AtRest, PillInvariant, Monitor
    PROVE  PillInvariant'
<1> USE DEF mainVars, workerVars
<1>0. TypeOK
  BY DEF TypeInv
<1>1. PICK b \in 0 .. Len(process_queue) : PillsBehind(b)
  BY DEF PillInvariant
<1>2. LastInFlush
  BY DEF PillInvariant
<1>3. CASE ScanSpool \/ TakeSlice \/ StopLoop \/ EnqueueEnds
  <2>1. UNCHANGED <<process_queue, step, batch>> /\ Owed' = Owed /\ LastInFlush'
    BY <1>2, <1>3
       DEF ScanSpool, TakeSlice, StopLoop, EnqueueEnds, Owed, Alive, LastInFlush
  <2>2. pc \in {"scan", "enqueue"}
    BY <1>3 DEF ScanSpool, TakeSlice, StopLoop, EnqueueEnds
  <2> QED BY <2>1, <2>2, PillsKept
<1>4. CASE Restart \/ JoinWorkers
  <2>1. process_queue' = <<>> /\ \A w \in Workers : step'[w] = "off"
    BY <1>4 DEF Restart, JoinWorkers, LoseMemory
  <2>2. \A w \in Workers : ~batch'[w].last
    <3>1. CASE Restart
      BY <3>1, EntryTypes DEF Restart, LoseMemory
    <3>2. CASE JoinWorkers
      BY <1>2, <3>2 DEF JoinWorkers, LastInFlush, FlushSteps, Alive
    <3> QED BY <1>4, <3>1, <3>2
  <2>3. Owed' = {} /\ LastInFlush'
    BY <2>1, <2>2 DEF Owed, Alive, LastInFlush
  <2> QED BY <2>1, <2>3, PillsGone
<1>5. CASE EnqueueBatch
  <2>1. PICK e \in Entries : process_queue' = Append(process_queue, e) /\ ~e.last
    <3>1. PICK files \in SUBSET json_files, zero \in SUBSET Files :
             process_queue' = Append(process_queue, Batch(files, zero))
      <4>1. PICK files \in SUBSET json_files :
               \/ process_queue' = Append(process_queue, Batch(files, SizeZero(files)))
               \/ \E f \in files : process_queue' =
                     Append(process_queue, Batch(files, SizeZero(files) \cup {f}))
        BY <1>5 DEF EnqueueBatch
      <4>2. SizeZero(files) \subseteq Files
            /\ \A f \in files : SizeZero(files) \cup {f} \subseteq Files
        BY <1>0 DEF SizeZero, TypeOK
      <4> QED BY <4>1, <4>2
    <3>2. Batch(files, zero) \in Entries /\ ~Batch(files, zero).last
      BY <1>0, EntryTypes DEF Batch, TypeOK
    <3> QED BY <3>1, <3>2
  <2>2. /\ pc = "enqueue" /\ pc' = pc /\ UNCHANGED <<step, batch>>
        /\ Owed' = Owed /\ LastInFlush'
    BY <1>2, <1>5 DEF EnqueueBatch, Owed, Alive, LastInFlush
  <2>3. b = Len(process_queue) /\ Cardinality(Owed') = 0
    BY <1>1, <2>2, NoneOwed DEF PillsBehind
  <2>4. PillsBehind(b + 1)'
    BY <1>1, <2>1, <2>2, <2>3, AppendFacts DEF PillsBehind
  <2>5. b + 1 \in 0 .. Len(process_queue')
    BY <2>1, <2>3, AppendFacts
  <2> QED BY <2>2, <2>4, <2>5 DEF PillInvariant
<1>6. ASSUME NEW w \in Workers, StartWorker(w) PROVE PillInvariant'
  <2>1. /\ pc = "spawn" /\ pc' = "pill" /\ UNCHANGED <<process_queue, batch>>
        /\ step'[w] = "get" /\ step[w] = "off"
        /\ \A v \in Workers \ {w} : step'[v] = step[v]
    BY <1>0, <1>6 DEF StartWorker, TypeOK
  <2>2. LastInFlush'
    BY <1>2, <2>1 DEF LastInFlush, FlushSteps
  <2>3. Owed' \subseteq Owed \cup {w}
    BY <2>1 DEF Owed, Alive
  <2>4. Cardinality(Owed') <= Cardinality(Owed) + 1
    <3>1. /\ IsFiniteSet(Owed \cup {w})
          /\ Cardinality(Owed \cup {w}) <= Cardinality(Owed) + 1
      BY OwedFinite, FS_AddElement
    <3>2. /\ Cardinality(Owed') <= Cardinality(Owed \cup {w})
          /\ Cardinality(Owed') \in Nat /\ Cardinality(Owed \cup {w}) \in Nat
      BY <2>3, <3>1, FS_Subset, FS_CardinalityType
    <3> QED BY <3>1, <3>2, OwedFinite
  <2>5. PillsBehind(b)'
    <3>1. Cardinality(Owed') \in Nat
      BY <2>3, OwedFinite, FS_AddElement, FS_Subset, FS_CardinalityType
    <3>2. Len(process_queue) \in Nat
      BY <1>0 DEF TypeOK
    <3> QED BY <1>1, <2>1, <2>4, <3>1, <3>2, OwedFinite DEF PillsBehind
  <2> QED BY <2>1, <2>2, <2>5 DEF PillInvariant
<1>7. CASE PutPill
  <2>1. /\ pc = "pill" /\ pc' \in {"spawn", "join"} /\ UNCHANGED <<step, batch>>
        /\ process_queue' = Append(process_queue, Pill) /\ Owed' = Owed /\ LastInFlush'
    BY <1>2, <1>7 DEF PutPill, Owed, Alive, LastInFlush
  <2>2. /\ Len(process_queue') = Len(process_queue) + 1
        /\ process_queue'[Len(process_queue) + 1].last
        /\ \A k \in 1 .. Len(process_queue) : process_queue'[k] = process_queue[k]
        /\ Len(process_queue) \in Nat
    BY <2>1, AppendFacts, EntryTypes
  <2>3. PillsBehind(b)'
    BY <1>1, <2>1, <2>2, OwedFinite DEF PillsBehind
  <2> QED BY <2>1, <2>2, <2>3 DEF PillInvariant
<1> QED
  BY <1>3, <1>4, <1>5, <1>6, <1>7 DEF Monitor

\* The worker that takes the pill is the one that no longer owes it.
LEMMA WorkerPills ==
    ASSUME TypeInv, AtRest, PillInvariant, NEW w \in Workers, Worker(w)
    PROVE  PillInvariant'
<1>0. TypeOK
  BY DEF TypeInv
<1>1. PICK b \in 0 .. Len(process_queue) : PillsBehind(b)
  BY DEF PillInvariant
<1>2. LastInFlush
  BY DEF PillInvariant
<1>3. CASE GetBatch(w) \/ GetPill(w)
  <2>1. /\ step[w] = "get" /\ ~batch[w].last /\ w \in Owed /\ process_queue # <<>>
        /\ process_queue' = Tail(process_queue) /\ pc' = pc
    BY <1>2, <1>3 DEF GetBatch, GetPill, LastInFlush, FlushSteps, Owed, Alive, mainVars
  <2>2. pc \notin {"scan", "enqueue", "stopped"}
    BY <2>1 DEF AtRest
  <2>3. CASE GetBatch(w)
    <3>1. /\ ~Head(process_queue).last /\ batch'[w] = Head(process_queue)
          /\ step'[w] = "prepare"
          /\ \A v \in Workers \ {w} : step'[v] = step[v] /\ batch'[v] = batch[v]
      BY <1>0, <2>3 DEF GetBatch, TypeOK
    <3>2. Owed' = Owed /\ LastInFlush'
      BY <1>2, <2>1, <3>1 DEF Owed, Alive, LastInFlush
    <3>3. b >= 1
      <4>1. ~process_queue[1].last /\ 1 \in 1 .. Len(process_queue)
        BY <2>1, <3>1, TailFacts
      <4> QED BY <1>1, <4>1 DEF PillsBehind
    <3>4. PillsBehind(b - 1)'
      <4>1. /\ Len(process_queue') = Len(process_queue) - 1 /\ Len(process_queue) \in Nat
            /\ \A k \in 1 .. Len(process_queue') :
                 process_queue'[k] = process_queue[k + 1] /\ k + 1 \in 1 .. Len(process_queue)
        BY <2>1, TailFacts
      <4>2. \A k \in 1 .. Len(process_queue') : process_queue'[k].last <=> k > b - 1
        BY <1>1, <4>1 DEF PillsBehind
      <4>3. pc' \notin {"scan", "enqueue", "stopped"}
        BY <2>1, <2>2
      <4>4. Cardinality(Owed') <=
                Len(process_queue') - (b - 1) + (IF pc' = "pill" THEN 1 ELSE 0)
        <5>1. Cardinality(Owed') = Cardinality(Owed) /\ Cardinality(Owed) \in Nat
          BY <3>2, OwedFinite
        <5>2. Cardinality(Owed) <= Len(process_queue) - b + (IF pc = "pill" THEN 1 ELSE 0)
          BY <1>1 DEF PillsBehind
        <5> QED BY <2>1, <3>3, <4>1, <5>1, <5>2
      <4> QED BY <4>2, <4>3, <4>4 DEF PillsBehind
    <3>5. b - 1 \in 0 .. Len(process_queue')
      BY <2>1, <3>3, TailFacts
    <3> QED BY <3>2, <3>4, <3>5 DEF PillInvariant
  <2>4. CASE GetPill(w)
    <3>1. /\ Head(process_queue).last
          /\ \/ step'[w] = "done" /\ ~batch'[w].last
             \/ step'[w] = "commit" /\ batch'[w].last
          /\ \A v \in Workers \ {w} : step'[v] = step[v] /\ batch'[v] = batch[v]
      <4>1. CASE instances[w] # {}
        BY <1>0, <2>4, <4>1, EntryTypes DEF GetPill, StartFlush, TypeOK
      <4>2. CASE instances[w] = {}
        BY <1>0, <2>4, <4>2, EntryTypes DEF GetPill, Lose, TypeOK
      <4> QED BY <4>1, <4>2
    <3>2. Owed' = Owed \ {w} /\ LastInFlush'
      BY <1>2, <3>1 DEF Owed, Alive, LastInFlush, FlushSteps
    <3>3. Cardinality(Owed') = Cardinality(Owed) - 1
      BY <2>1, <3>2, OwedFinite, FS_RemoveElement
    <3>4. b = 0
      <4>1. process_queue[1].last /\ 1 \in 1 .. Len(process_queue)
        BY <2>1, <3>1, TailFacts
      <4> QED BY <1>1, <4>1 DEF PillsBehind
    <3>5. PillsBehind(0)'
      BY <1>1, <2>1, <2>2, <3>3, <3>4, TailFacts, OwedFinite DEF PillsBehind
    <3>6. 0 \in 0 .. Len(process_queue')
      BY <2>1, TailFacts
    <3> QED BY <3>2, <3>5, <3>6 DEF PillInvariant
  <2> QED BY <1>3, <2>3, <2>4
<1>4. ASSUME step[w] = "prepare" \/ step[w] \in FlushSteps,
             step'[w] = "dead" \/ step'[w] = "done" \/ w \in Owed,
             batch'[w].last => step'[w] \in FlushSteps,
             \A v \in Workers \ {w} : step'[v] = step[v] /\ batch'[v] = batch[v],
             UNCHANGED <<process_queue, mainVars>>
      PROVE  PillInvariant'
  <2>1. LastInFlush' /\ Owed' \subseteq Owed
    BY <1>2, <1>4 DEF LastInFlush, Owed, Alive
  <2> QED BY <1>4, <2>1, PillsKept DEF mainVars
<1>5. CASE BatchEnds(w)
  <2>1. ~batch[w].last /\ w \in Owed
    BY <1>2, <1>5 DEF BatchEnds, LastInFlush, Owed, Alive, FlushSteps
  <2>2. ~batch'[w].last
    BY <1>0, <1>5, EntryTypes DEF BatchEnds, TypeOK
  <2>3. \A v \in Workers \ {w} : step'[v] = step[v] /\ batch'[v] = batch[v]
    BY <1>0, <1>5 DEF BatchEnds, StartFlush, TypeOK
  <2> QED BY <1>4, <1>5, <2>1, <2>2, <2>3 DEF BatchEnds
<1>6. ASSUME NEW f \in batch[w].files,
             \/ RemoveEmpty(w, f) \/ ReportRaises(w, f)
             \/ MoveToFailed(w, f) \/ BufferFile(w, f)
      PROVE  PillInvariant'
  <2>1. /\ step[w] = "prepare" /\ UNCHANGED <<process_queue, mainVars>>
        /\ \/ Prepared(w, f) /\ UNCHANGED step
           \/ Lose(w) /\ step' = [step EXCEPT ![w] = "dead"]
    BY <1>6 DEF RemoveEmpty, ReportRaises, MoveToFailed, BufferFile
  <2>2. ~batch[w].last /\ w \in Owed
    BY <1>2, <2>1 DEF LastInFlush, Owed, Alive, FlushSteps
  <2>3. CASE Prepared(w, f) /\ UNCHANGED step
    <3>1. ~batch'[w].last /\ \A v \in Workers \ {w} : batch'[v] = batch[v]
      BY <1>0, <2>2, <2>3, PreparedType, PreparedHolders
    <3> QED BY <1>4, <2>1, <2>2, <2>3, <3>1
  <2>4. CASE Lose(w) /\ step' = [step EXCEPT ![w] = "dead"]
    <3>1. /\ ~batch'[w].last /\ step'[w] = "dead"
          /\ \A v \in Workers \ {w} : step'[v] = step[v] /\ batch'[v] = batch[v]
      BY <1>0, <2>4, EntryTypes DEF Lose, TypeOK
    <3> QED BY <1>4, <2>1, <3>1
  <2> QED BY <2>1, <2>3, <2>4
<1>7. CASE FlushStep(w)
  <2>1. /\ step[w] \in FlushSteps /\ UNCHANGED <<process_queue, mainVars>>
        /\ \A v \in Workers \ {w} : step'[v] = step[v] /\ batch'[v] = batch[v]
        /\ \/ step'[w] \in FlushSteps /\ batch' = batch
           \/ /\ batch' = [batch EXCEPT ![w] = NoBatch]
              /\ step'[w] = IF batch[w].last THEN "done" ELSE "get"
    BY <1>0, <1>7
       DEF FlushStep, Commit, FlushEnds, ArchiveFile, ArchiveFails, RejectFile,
           RejectFails, Rename, FlushSteps, TypeOK
  <2>2. ~batch[w].last => w \in Owed
    BY <2>1 DEF Owed, Alive, FlushSteps
  <2>3. CASE step'[w] \in FlushSteps /\ batch' = batch
    <3>1. LastInFlush' /\ Owed' \subseteq Owed
      BY <1>2, <2>1, <2>3 DEF LastInFlush, Owed, Alive, FlushSteps
    <3> QED BY <2>1, <3>1, PillsKept DEF mainVars
  <2>4. CASE /\ batch' = [batch EXCEPT ![w] = NoBatch]
             /\ step'[w] = IF batch[w].last THEN "done" ELSE "get"
    <3>1. ~batch'[w].last
      BY <1>0, <2>4, EntryTypes DEF TypeOK
    <3> QED BY <1>4, <2>1, <2>2, <2>4, <3>1
  <2> QED BY <2>1, <2>3, <2>4
<1> QED
  BY <1>3, <1>5, <1>6, <1>7 DEF Worker

LEMMA MishapPills ==
    ASSUME TypeInv, AtRest, PillInvariant, Mishap
    PROVE  PillInvariant'
<1>0. TypeOK
  BY DEF TypeInv
<1>1. LastInFlush
  BY DEF PillInvariant
<1>2. CASE (\E f \in Files : Vanish(f)) \/ Signal
  <2>1. UNCHANGED <<process_queue, step, batch, pc>> /\ Owed' = Owed /\ LastInFlush'
    BY <1>1, <1>2 DEF Vanish, Signal, mainVars, workerVars, Owed, Alive, LastInFlush
  <2> QED BY <2>1, PillsKept
<1>3. CASE ContainerDies
  <2>1. process_queue' = <<>> /\ \A w \in Workers : step'[w] = "off" /\ ~batch'[w].last
    BY <1>3, EntryTypes DEF ContainerDies, LoseMemory
  <2>2. Owed' = {} /\ LastInFlush'
    BY <2>1 DEF Owed, Alive, LastInFlush
  <2> QED BY <2>1, <2>2, PillsGone
<1>4. ASSUME NEW w \in Workers, CommitFails(w) \/ WorkerDies(w) PROVE PillInvariant'
  <2>1. /\ UNCHANGED <<process_queue, pc>>
        /\ \A v \in Workers \ {w} : step'[v] = step[v] /\ batch'[v] = batch[v]
        /\ \/ /\ step[w] \in FlushSteps /\ step'[w] \in FlushSteps
              /\ batch'[w] = batch[w]
           \/ step'[w] = "dead" /\ ~batch'[w].last
    BY <1>0, <1>4, EntryTypes
       DEF CommitFails, WorkerDies, Lose, mainVars, TypeOK, FlushSteps
  <2>2. LastInFlush' /\ Owed' \subseteq Owed
    BY <1>1, <2>1 DEF LastInFlush, Owed, Alive, FlushSteps
  <2> QED BY <2>1, <2>2, PillsKept
<1> QED
  BY <1>2, <1>3, <1>4 DEF Mishap

LEMMA PillsStep ==
    ASSUME TypeInv, AtRest, PillInvariant, [Next]_vars
    PROVE  PillInvariant'
<1>1. CASE (\E f \in Files : Arrive(f)) \/ UNCHANGED vars
  <2>1. UNCHANGED <<process_queue, step, batch, pc>>
    BY <1>1 DEF Arrive, vars, mainVars, workerVars
  <2>2. Owed' = Owed /\ LastInFlush'
    BY <2>1 DEF PillInvariant, Owed, Alive, LastInFlush
  <2> QED BY <2>1, <2>2, PillsKept
<1> QED
  BY <1>1, MainPills, WorkerPills, MishapPills DEF Next

LEMMA PillInvariantSuffices ==
    ASSUME TypeInv, PillInvariant
    PROVE  PillsReachEveryWorker
<1>1. PICK b \in 0 .. Len(process_queue) : PillsBehind(b)
  BY DEF PillInvariant
<1>2. Len(process_queue) \in Nat
  BY DEF TypeInv, TypeOK
<1> DEFINE pills == {k \in 1 .. Len(process_queue) : process_queue[k].last}
           owed == {w \in Workers : Alive(w) /\ ~batch[w].last}
<1>3. pills = (b + 1) .. Len(process_queue)
  BY <1>1, <1>2 DEF PillsBehind
<1>4. Cardinality(pills) = Len(process_queue) - b
  <2>1. b \in Int /\ b + 1 \in Int /\ Len(process_queue) \in Int /\ b <= Len(process_queue)
    BY <1>1, <1>2
  <2> HIDE DEF pills
  <2>2. \A m, n \in Int : Cardinality(m .. n) = IF m > n THEN 0 ELSE n - m + 1
    BY FS_Interval
  <2>3. Cardinality(pills) = IF b + 1 > Len(process_queue)
                             THEN 0 ELSE Len(process_queue) - (b + 1) + 1
    BY <1>3, <2>1, <2>2
  <2> QED BY <2>1, <2>3
<1>5. owed = Owed
  BY DEF Owed
<1>6. \A k \in pills : k .. Len(process_queue) \subseteq pills
  BY <1>1, <1>2, <1>3
<1> HIDE DEF pills, owed
<1>7. Cardinality(owed) <= Cardinality(pills) + (IF pc = "pill" THEN 1 ELSE 0)
  BY <1>1, <1>4, <1>5 DEF PillsBehind
<1> QED
  BY <1>6, <1>7 DEF PillsReachEveryWorker, pills, owed

\* However the workers die and however the queue fills, a worker that still
\* runs finds a pill behind the batches: none waits on an empty queue for ever.
THEOREM PillsReachEveryWorkerAlways == Spec => []PillsReachEveryWorker
<1>1. Init => PillInvariant
  <2> SUFFICES ASSUME Init PROVE PillInvariant
    OBVIOUS
  <2>1. \A w \in Workers : ~Alive(w) /\ ~batch[w].last
    BY EntryTypes DEF Init, Alive
  <2>2. Owed = {} /\ LastInFlush /\ Len(process_queue) = 0
    BY <2>1 DEF Owed, LastInFlush, Init
  <2>3. PillsBehind(0)
    BY <2>2, FS_EmptySet DEF PillsBehind
  <2> QED BY <2>2, <2>3 DEF PillInvariant
<1>2. /\ TypeInv /\ AtRest /\ Holders /\ PillInvariant /\ [Next]_vars
      => TypeInv' /\ AtRest' /\ Holders' /\ PillInvariant'
  BY StepType, HoldersStep, PillsStep
<1>3. Init => TypeInv /\ AtRest /\ Holders
  BY InitTypeOK, HoldersInit
<1>4. TypeInv /\ PillInvariant => PillsReachEveryWorker
  BY PillInvariantSuffices
<1> QED
  BY <1>1, <1>2, <1>3, <1>4, PTL DEF Spec

=============================================================================
