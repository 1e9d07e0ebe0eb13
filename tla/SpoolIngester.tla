--------------------------- MODULE SpoolIngester ---------------------------
(***************************************************************************)
(* monitor_submissions and the worker pool of kcidbng_ingester: submission *)
(* files dropped in a spool directory are cut into batches, queued, read   *)
(* by worker processes into buffers, written to the database and moved to  *)
(* archive/ or failed/.                                                    *)
(*                                                                         *)
(* A submission is a set of Items, each of one table.  What a file says is *)
(* given by the constants: Empty files have no bytes, Invalid ones do not  *)
(* parse or validate, Malformed ones parse to something the error report   *)
(* cannot walk, and a valid one may well carry no item.                    *)
(* os.scandir, json lists and Python sets give no order that matters here, *)
(* so a list of files is a set and the next file is any member of it.      *)
(***************************************************************************)
EXTENDS Integers, Sequences, FiniteSets

CONSTANTS
    Files,          \* the submission files that may ever be dropped
    Items,          \* the rows they carry
    FileOf,         \* the file an item is in
    TableOf,        \* the table an item goes to
    Empty,          \* files of zero bytes
    Invalid,        \* files prepare_file_data rejects
    Malformed,      \* of those, json whose sections are no lists of objects
    Workers,        \* max_workers, as process identities
    CycleSize,      \* INGEST_CYCLE_BATCH_SIZE
    FilesBatch,     \* INGEST_FILES_BATCH_SIZE
    FlushSize,      \* INGEST_BATCH_SIZE
    QueueMax,       \* INGEST_QUEUE_MAXSIZE
    FaultKinds,     \* which faults the environment may inject
    MaxFaults       \* bound: how many of them

AllFaults == {"scan", "stat", "vanish", "rename", "db", "exception",
              "container", "signal"}

ASSUME SubmissionsAssumption ==
    /\ IsFiniteSet(Files) /\ IsFiniteSet(Items) /\ IsFiniteSet(Workers)
    /\ FileOf \in [Items -> Files]
    /\ Empty \subseteq Files /\ Invalid \subseteq Files
    /\ Malformed \subseteq Invalid \ Empty
    /\ \A i \in Items : FileOf[i] \notin Empty \cup Invalid
    /\ DOMAIN TableOf = Items

\* check_positive_int guards max_workers; the sizes come from the environment.
ASSUME SizesAssumption ==
    /\ Workers # {}
    /\ CycleSize \in Nat \ {0} /\ FilesBatch \in Nat \ {0}
    /\ FlushSize \in Nat \ {0} /\ QueueMax \in Nat \ {0}
    /\ FaultKinds \subseteq AllFaults /\ MaxFaults \in Nat

VARIABLES
    place,          \* place[f]: where the file is
    stored,         \* items committed to the database
    pc,             \* what the monitoring process does next
    running,        \* Command.running
    cached_files,   \* scanned paths no cycle has taken yet
    json_files,     \* the cycle's paths not yet put in a batch
    process_queue,  \* batches and pills, in order
    step,           \* step[w]: what worker w does next
    batch,          \* batch[w]: the entry it took, its files still to prepare
    instances,      \* instances[w]: items read and not yet flushed
    buffer_files,   \* buffer_files[w]: their files, to move after the flush
    flushing,       \* flushing[w]: the items handed to the current flush
    moved,          \* moved[w]: this flush has archived a file already
    faults          \* faults injected so far

mainVars   == <<pc, running, cached_files, json_files>>
workerVars == <<step, batch, instances, buffer_files, flushing, moved>>
vars == <<place, stored, mainVars, process_queue, workerVars, faults>>

Places == {"absent", "spool", "archive", "failed", "gone"}
MainSteps == {"scan", "enqueue", "spawn", "pill", "join", "stopped"}
WorkerSteps == {"off", "get", "prepare", "commit", "archive", "reject",
                "clear", "done", "dead"}

\* A queue entry: a batch and which sizes os.getsize saw as 0, or the None
\* that ends a worker's loop.
Entries == [files : SUBSET Files, zero : SUBSET Files, last : BOOLEAN]
Pill    == [files |-> {}, zero |-> {}, last |-> TRUE]
NoBatch == [files |-> {}, zero |-> {}, last |-> FALSE]
Batch(files, zero) == [files |-> files, zero |-> zero, last |-> FALSE]

ItemsOf(f)  == {i \in Items : FileOf[i] = f}
Spooled     == {f \in Files : place[f] = "spool"}
Alive(w)    == step[w] \notin {"off", "done", "dead"}
Minimum(m, n) == IF m < n THEN m ELSE n

Fault(kind) ==
    /\ kind \in FaultKinds
    /\ faults < MaxFaults
    /\ faults' = faults + 1

Init ==
    /\ place = [f \in Files |-> "absent"]
    /\ stored = {}
    /\ pc = "scan" /\ running = TRUE
    /\ cached_files = {} /\ json_files = {}
    /\ process_queue = <<>>
    /\ step = [w \in Workers |-> "off"]
    /\ batch = [w \in Workers |-> NoBatch]
    /\ instances = [w \in Workers |-> {}]
    /\ buffer_files = [w \in Workers |-> {}]
    /\ flushing = [w \in Workers |-> {}]
    /\ moved = [w \in Workers |-> FALSE]
    /\ faults = 0

-----------------------------------------------------------------------------
(* Outside the program: submitters, and whoever else touches the spool.    *)

Arrive(f) ==
    /\ place[f] = "absent"
    /\ place' = [place EXCEPT ![f] = "spool"]
    /\ UNCHANGED <<stored, mainVars, process_queue, workerVars, faults>>

Vanish(f) ==
    /\ Fault("vanish")
    /\ place[f] = "spool"
    /\ place' = [place EXCEPT ![f] = "gone"]
    /\ UNCHANGED <<stored, mainVars, process_queue, workerVars>>

-----------------------------------------------------------------------------
(* monitor_submissions: the loop of handle().                              *)

\* Only a depleted cache is refilled.  A failed scan counts as an empty one.
ScanSpool ==
    /\ pc = "scan" /\ running /\ cached_files = {}
    /\ \/ /\ cached_files' = Spooled
          /\ UNCHANGED <<running, faults>>
       \/ /\ Fault("scan")
          /\ running' \in BOOLEAN        \* PermissionError stops the loop
          /\ UNCHANGED cached_files
    /\ UNCHANGED <<place, stored, pc, json_files, process_queue, workerVars>>

\* The next slice of the cache becomes the cycle's json_files.
TakeSlice ==
    /\ pc = "scan" /\ running /\ cached_files # {}
    /\ \E slice \in SUBSET cached_files :
          /\ Cardinality(slice) = Minimum(CycleSize, Cardinality(cached_files))
          /\ json_files' = slice
          /\ cached_files' = cached_files \ slice
    /\ pc' = "enqueue"
    /\ UNCHANGED <<place, stored, running, process_queue, workerVars, faults>>

\* SIGTERM and SIGINT only clear the flag the loop tests.
Signal ==
    /\ Fault("signal")
    /\ running' = FALSE
    /\ UNCHANGED <<place, stored, pc, cached_files, json_files, process_queue,
                   workerVars>>

StopLoop ==
    /\ pc = "scan" /\ ~running
    /\ pc' = "stopped"
    /\ UNCHANGED <<place, stored, running, cached_files, json_files,
                   process_queue, workerVars, faults>>

\* The processes go; the disk and the database stay.
LoseMemory ==
    /\ cached_files' = {} /\ json_files' = {}
    /\ process_queue' = <<>>
    /\ step' = [w \in Workers |-> "off"]
    /\ batch' = [w \in Workers |-> NoBatch]
    /\ instances' = [w \in Workers |-> {}]
    /\ buffer_files' = [w \in Workers |-> {}]
    /\ flushing' = [w \in Workers |-> {}]
    /\ moved' = [w \in Workers |-> FALSE]

\* restart: always in docker-compose.yml.
Restart ==
    /\ pc = "stopped"
    /\ pc' = "scan" /\ running' = TRUE
    /\ LoseMemory
    /\ UNCHANGED <<place, stored, faults>>

ContainerDies ==
    /\ Fault("container")
    /\ pc' = "stopped" /\ running' = FALSE
    /\ LoseMemory
    /\ UNCHANGED <<place, stored>>

-----------------------------------------------------------------------------
(* ingest_submissions_parallel: fill the queue, start workers, join them.  *)

\* A batch is queued when it is full, or when it is the whole cycle: the
\* first one, which finds the queue empty.
BatchComplete(files) ==
    /\ files # {}
    /\ \/ Cardinality(files) = FilesBatch
       \/ /\ Cardinality(files) < FilesBatch
          /\ files = json_files
          /\ process_queue = <<>>

\* The size seen is 0 when os.path.getsize raises.
SizeZero(files) == {f \in files : f \in Empty \/ place[f] # "spool"}

\* Mutant: the local batch is not reset after the put.
EnqueueBatchAgain ==
    /\ pc = "enqueue"
    /\ Len(process_queue) < QueueMax
    /\ \E files \in SUBSET json_files :
          /\ BatchComplete(files)
          /\ process_queue' = Append(process_queue,
                                     Batch(files, SizeZero(files)))
    /\ UNCHANGED <<place, stored, mainVars, workerVars, faults>>

EnqueueBatch ==
    /\ pc = "enqueue"
    /\ Len(process_queue) < QueueMax
    /\ \E files \in SUBSET json_files :
          /\ BatchComplete(files)
          /\ \/ /\ process_queue' = Append(process_queue,
                                            Batch(files, SizeZero(files)))
                /\ UNCHANGED faults
             \/ /\ Fault("stat")
                /\ \E f \in files :
                      process_queue' = Append(process_queue,
                                   Batch(files, SizeZero(files) \cup {f}))
          /\ json_files' = json_files \ files
    /\ UNCHANGED <<place, stored, pc, running, cached_files,
                   workerVars>>

\* Whatever is left in the local batch when the list ends stays there.
EnqueueEnds ==
    /\ pc = "enqueue"
    /\ ~\E files \in SUBSET json_files : BatchComplete(files)
    /\ pc' = "spawn"
    /\ UNCHANGED <<place, stored, running, cached_files, json_files,
                   process_queue, workerVars, faults>>

StartWorker(w) ==
    /\ pc = "spawn"
    /\ step[w] = "off"
    /\ step' = [step EXCEPT ![w] = "get"]
    /\ pc' = "pill"
    /\ UNCHANGED <<place, stored, running, cached_files, json_files,
                   process_queue, batch, instances, buffer_files, flushing,
                   moved, faults>>

\* Mutant: one pill for the whole pool.
PutPillOnce ==
    /\ pc = "pill"
    /\ Len(process_queue) < QueueMax
    /\ IF \E w \in Workers : step[w] = "off"
       THEN pc' = "spawn" /\ UNCHANGED process_queue
       ELSE pc' = "join" /\ process_queue' = Append(process_queue, Pill)
    /\ UNCHANGED <<place, stored, running, cached_files, json_files,
                   workerVars, faults>>

\* Mutant: the pill overtakes the batches.
PutPillInFront ==
    /\ pc = "pill"
    /\ Len(process_queue) < QueueMax
    /\ process_queue' = <<Pill>> \o process_queue
    /\ pc' = IF \E w \in Workers : step[w] = "off" THEN "spawn" ELSE "join"
    /\ UNCHANGED <<place, stored, running, cached_files, json_files,
                   workerVars, faults>>

PutPill ==
    /\ pc = "pill"
    /\ Len(process_queue) < QueueMax
    /\ process_queue' = Append(process_queue, Pill)
    /\ pc' = IF \E w \in Workers : step[w] = "off" THEN "spawn" ELSE "join"
    /\ UNCHANGED <<place, stored, running, cached_files, json_files,
                   workerVars, faults>>

\* The progress loop ends when the queue is empty or no worker is alive, and
\* changes nothing; join() then waits for every worker.
JoinWorkers ==
    /\ pc = "join"
    /\ \A w \in Workers : ~Alive(w)
    /\ pc' = "scan"
    /\ json_files' = {}
    /\ process_queue' = <<>>
    /\ step' = [w \in Workers |-> "off"]
    /\ UNCHANGED <<place, stored, running, cached_files, batch, instances,
                   buffer_files, flushing, moved, faults>>

-----------------------------------------------------------------------------
(* process_batch: one worker process.                                      *)

Lose(w) ==
    /\ batch' = [batch EXCEPT ![w] = NoBatch]
    /\ instances' = [instances EXCEPT ![w] = {}]
    /\ buffer_files' = [buffer_files EXCEPT ![w] = {}]
    /\ flushing' = [flushing EXCEPT ![w] = {}]
    /\ moved' = [moved EXCEPT ![w] = FALSE]

StartFlush(w, items) ==
    /\ flushing' = [flushing EXCEPT ![w] = items]
    /\ moved' = [moved EXCEPT ![w] = FALSE]
    /\ step' = [step EXCEPT ![w] = "commit"]

GetBatch(w) ==
    /\ step[w] = "get"
    /\ process_queue # <<>> /\ ~Head(process_queue).last
    /\ batch' = [batch EXCEPT ![w] = Head(process_queue)]
    /\ process_queue' = Tail(process_queue)
    /\ step' = [step EXCEPT ![w] = "prepare"]
    /\ UNCHANGED <<place, stored, mainVars, instances, buffer_files,
                   flushing, moved, faults>>

\* Mutant: the worker leaves without the final flush.
GetPillAndLeave(w) ==
    /\ step[w] = "get"
    /\ process_queue # <<>> /\ Head(process_queue).last
    /\ process_queue' = Tail(process_queue)
    /\ step' = [step EXCEPT ![w] = "done"]
    /\ Lose(w)
    /\ UNCHANGED <<place, stored, mainVars, faults>>

\* The pill ends the loop; what is still buffered, if anything, is flushed.
GetPill(w) ==
    /\ step[w] = "get"
    /\ process_queue # <<>> /\ Head(process_queue).last
    /\ process_queue' = Tail(process_queue)
    /\ \/ /\ instances[w] # {}
          /\ StartFlush(w, instances[w])
          /\ UNCHANGED <<instances, buffer_files>>
          /\ batch' = [batch EXCEPT ![w] = Pill]
       \/ /\ instances[w] = {}
          /\ step' = [step EXCEPT ![w] = "done"]
          /\ Lose(w)
    /\ UNCHANGED <<place, stored, mainVars, faults>>

Prepared(w, f) == batch' = [batch EXCEPT ![w].files = @ \ {f}]

\* prepare_file_data, first lines: a file of size 0 is removed.  os.remove is
\* outside every try, so a file that is no longer there ends the worker.
RemoveEmpty(w, f) ==
    /\ step[w] = "prepare" /\ f \in batch[w].files \cap batch[w].zero
    /\ \/ /\ place[f] = "spool"
          /\ place' = [place EXCEPT ![f] = "gone"]
          /\ Prepared(w, f)
          /\ UNCHANGED <<step, instances, buffer_files, flushing, moved>>
       \/ /\ place[f] # "spool"
          /\ step' = [step EXCEPT ![w] = "dead"]
          /\ Lose(w)
          /\ UNCHANGED place
    /\ UNCHANGED <<stored, mainVars, process_queue, faults>>

\* prepare_file_data opened, parsed and validated the file.
Readable(f) == f \notin Invalid /\ place[f] = "spool"

\* _extract_origins_info, called while the error is handled, raises: json that
\* is a list or a string has no get(), a section that is null no members.
Unreportable(f) == f \in Malformed /\ place[f] = "spool"

\* Nothing in process_batch catches that: the worker ends, with all it holds,
\* and the file stays in the spool directory.
ReportRaises(w, f) ==
    /\ step[w] = "prepare" /\ f \in batch[w].files \ batch[w].zero
    /\ Unreportable(f)
    /\ step' = [step EXCEPT ![w] = "dead"]
    /\ Lose(w)
    /\ UNCHANGED <<place, stored, mainVars, process_queue, faults>>

\* Any other unreadable or invalid file is moved to failed/, if that succeeds.
MoveToFailed(w, f) ==
    /\ step[w] = "prepare" /\ f \in batch[w].files \ batch[w].zero
    /\ ~Readable(f) /\ ~Unreportable(f)
    /\ \/ /\ place[f] = "spool"
          /\ place' = [place EXCEPT ![f] = "failed"]
          /\ UNCHANGED faults
       \/ /\ place[f] # "spool"
          /\ UNCHANGED <<place, faults>>
       \/ /\ Fault("rename")
          /\ UNCHANGED place
    /\ Prepared(w, f)
    /\ UNCHANGED <<stored, mainVars, process_queue, step, instances,
                   buffer_files, flushing, moved>>

\* A valid file adds its items to the buffers, and itself to buffer_files.
BufferFile(w, f) ==
    /\ step[w] = "prepare" /\ f \in batch[w].files \ batch[w].zero
    /\ Readable(f)
    /\ instances' = [instances EXCEPT ![w] = @ \cup ItemsOf(f)]
    /\ buffer_files' = [buffer_files EXCEPT ![w] = @ \cup {f}]
    /\ Prepared(w, f)
    /\ UNCHANGED <<place, stored, mainVars, process_queue, step, flushing, moved,
                   faults>>

\* The buffers that reached the threshold; the others are kept.
FullTables(items) ==
    {i \in items : Cardinality({j \in items : TableOf[j] = TableOf[i]})
                       >= FlushSize}

\* After each batch; flush_buffers returns at once when it is given no item.
BatchEnds(w) ==
    /\ step[w] = "prepare" /\ batch[w].files = {}
    /\ batch' = [batch EXCEPT ![w] = NoBatch]
    /\ \/ /\ FullTables(instances[w]) # {}
          /\ StartFlush(w, FullTables(instances[w]))
       \/ /\ FullTables(instances[w]) = {}
          /\ step' = [step EXCEPT ![w] = "get"]
          /\ UNCHANGED <<flushing, moved>>
    /\ UNCHANGED <<place, stored, mainVars, process_queue, instances,
                   buffer_files, faults>>

-----------------------------------------------------------------------------
(* flush_buffers: one transaction, then the files are moved one by one.    *)

\* Every table of the flush in a single transaction.
Commit(w) ==
    /\ step[w] = "commit"
    /\ stored' = stored \cup flushing[w]
    /\ step' = [step EXCEPT ![w] = "archive"]
    /\ UNCHANGED <<place, mainVars, process_queue, batch, instances,
                   buffer_files, flushing, moved, faults>>

\* Mutant: each table commits on its own.
CommitFailsHalfway(w) ==
    /\ step[w] = "commit"
    /\ Fault("db")
    /\ stored' \in {stored \cup part : part \in SUBSET flushing[w]}
    /\ step' = [step EXCEPT ![w] = "reject"]
    /\ UNCHANGED <<place, mainVars, process_queue, batch, instances,
                   buffer_files, flushing, moved>>

\* Mutant: the error is logged and the files are archived all the same.
CommitFailsQuietly(w) ==
    /\ step[w] = "commit"
    /\ Fault("db")
    /\ stored' = stored
    /\ step' = [step EXCEPT ![w] = "archive"]
    /\ UNCHANGED <<place, mainVars, process_queue, batch, instances,
                   buffer_files, flushing, moved>>

\* The transaction raised: it rolled back, or the answer to its COMMIT was lost.
CommitFails(w) ==
    /\ step[w] = "commit"
    /\ Fault("db")
    /\ stored' \in {stored, stored \cup flushing[w]}
    /\ step' = [step EXCEPT ![w] = "reject"]
    /\ UNCHANGED <<place, mainVars, process_queue, batch, instances,
                   buffer_files, flushing, moved>>

Rename(w, f, dir) ==
    /\ place' = [place EXCEPT ![f] = dir]
    /\ buffer_files' = [buffer_files EXCEPT ![w] = @ \ {f}]

ArchiveFile(w, f) ==
    /\ step[w] = "archive" /\ f \in buffer_files[w]
    /\ place[f] = "spool"
    /\ Rename(w, f, "archive")
    /\ moved' = [moved EXCEPT ![w] = TRUE]
    /\ UNCHANGED <<stored, mainVars, process_queue, step, batch, instances,
                   flushing, faults>>

\* os.rename raised.  The except branch walks the same set from its start: it
\* stops at once if the first file has been archived, or cannot be moved.
ArchiveFails(w, f) ==
    /\ step[w] = "archive" /\ f \in buffer_files[w]
    /\ \/ /\ place[f] = "spool"
          /\ Fault("rename")
       \/ /\ place[f] # "spool"
          /\ UNCHANGED faults
    /\ \/ /\ ~moved[w] /\ place[f] = "spool"
          /\ Rename(w, f, "failed")
          /\ step' = [step EXCEPT ![w] = "reject"]
       \/ /\ step' = [step EXCEPT ![w] = "clear"]
          /\ UNCHANGED <<place, buffer_files>>
    /\ UNCHANGED <<stored, mainVars, process_queue, batch, instances, flushing,
                   moved>>

\* The except branch: the files of a flush that failed go to failed/.
RejectFile(w, f) ==
    /\ step[w] = "reject" /\ f \in buffer_files[w]
    /\ place[f] = "spool"
    /\ Rename(w, f, "failed")
    /\ UNCHANGED <<stored, mainVars, process_queue, step, batch, instances,
                   flushing, moved, faults>>

RejectFails(w, f) ==
    /\ step[w] = "reject" /\ f \in buffer_files[w]
    /\ \/ /\ place[f] = "spool"
          /\ Fault("rename")
       \/ /\ place[f] # "spool"
          /\ UNCHANGED faults
    /\ step' = [step EXCEPT ![w] = "clear"]
    /\ UNCHANGED <<place, stored, mainVars, process_queue, batch, instances,
                   buffer_files, flushing, moved>>

\* Mutant: buffer_files is not emptied after the flush.
FlushEndsKeepsFiles(w) ==
    /\ \/ step[w] = "clear"
       \/ step[w] \in {"archive", "reject"} /\ buffer_files[w] = {}
    /\ instances' = [instances EXCEPT ![w] = @ \ flushing[w]]
    /\ flushing' = [flushing EXCEPT ![w] = {}]
    /\ moved' = [moved EXCEPT ![w] = FALSE]
    /\ batch' = [batch EXCEPT ![w] = NoBatch]
    /\ step' = [step EXCEPT ![w] = IF batch[w].last THEN "done" ELSE "get"]
    /\ UNCHANGED <<place, stored, mainVars, process_queue, buffer_files, faults>>

\* finally: the lists given to the flush and the set of files are emptied.
FlushEnds(w) ==
    /\ \/ step[w] = "clear"
       \/ step[w] \in {"archive", "reject"} /\ buffer_files[w] = {}
    /\ instances' = [instances EXCEPT ![w] = @ \ flushing[w]]
    /\ buffer_files' = [buffer_files EXCEPT ![w] = {}]
    /\ flushing' = [flushing EXCEPT ![w] = {}]
    /\ moved' = [moved EXCEPT ![w] = FALSE]
    /\ batch' = [batch EXCEPT ![w] = NoBatch]
    /\ step' = [step EXCEPT ![w] = IF batch[w].last THEN "done" ELSE "get"]
    /\ UNCHANGED <<place, stored, mainVars, process_queue, faults>>

\* An uncaught exception, or a kill while the worker is not inside the queue,
\* whose own locks are not modelled; a transaction under way rolls back.
WorkerDies(w) ==
    /\ Fault("exception")
    /\ step[w] \in {"prepare", "commit", "archive", "reject", "clear"}
    /\ step' = [step EXCEPT ![w] = "dead"]
    /\ Lose(w)
    /\ UNCHANGED <<place, stored, mainVars, process_queue>>

-----------------------------------------------------------------------------
(* The specification.                                                      *)

Monitor ==
    \/ ScanSpool \/ TakeSlice \/ StopLoop \/ Restart
    \/ EnqueueBatch \/ EnqueueEnds
    \/ \E w \in Workers : StartWorker(w)
    \/ PutPill \/ JoinWorkers

FlushStep(w) ==
    \/ Commit(w) \/ FlushEnds(w)
    \/ \E f \in buffer_files[w] :
          \/ ArchiveFile(w, f) \/ ArchiveFails(w, f)
          \/ RejectFile(w, f) \/ RejectFails(w, f)

Worker(w) ==
    \/ GetBatch(w) \/ GetPill(w) \/ BatchEnds(w)
    \/ \E f \in batch[w].files :
          \/ RemoveEmpty(w, f) \/ ReportRaises(w, f)
          \/ MoveToFailed(w, f) \/ BufferFile(w, f)
    \/ FlushStep(w)

Mishap ==
    \/ \E f \in Files : Vanish(f)
    \/ Signal \/ ContainerDies
    \/ \E w \in Workers :
          CommitFails(w) \/ WorkerDies(w)

Next ==
    \/ \E f \in Files : Arrive(f)
    \/ Monitor
    \/ \E w \in Workers : Worker(w)
    \/ Mishap

Spec == Init /\ [][Next]_vars

\* The operating system schedules every process; files arrive or not, and a
\* fault never has to happen.
FairSpec ==
    /\ Spec
    /\ WF_vars(Monitor)
    /\ \A w \in Workers : WF_vars(Worker(w))

-----------------------------------------------------------------------------
(* Properties.                                                             *)

\* What every variable holds; a worker that does not run holds nothing.
TypeOK ==
    /\ place \in [Files -> Places]
    /\ stored \subseteq Items
    /\ pc \in MainSteps /\ running \in BOOLEAN
    /\ cached_files \subseteq Files /\ json_files \subseteq Files
    /\ process_queue \in Seq(Entries) /\ Len(process_queue) <= QueueMax
    /\ step \in [Workers -> WorkerSteps]
    /\ batch \in [Workers -> Entries]
    /\ instances \in [Workers -> SUBSET Items]
    /\ buffer_files \in [Workers -> SUBSET Files]
    /\ flushing \in [Workers -> SUBSET Items]
    /\ moved \in [Workers -> BOOLEAN]
    /\ faults \in 0 .. MaxFaults
    /\ \A w \in Workers :
          ~Alive(w) => instances[w] = {} /\ buffer_files[w] = {}


\* A submission is in one pair of hands: no two of the cache, the cycle, a
\* queued batch and a worker ever hold the same path.  Otherwise two workers
\* race to load and to move it.  (cache_pos, and the queue's FIFO hand-over.)
OneHolder ==
    LET Queued(k) == process_queue[k].files
        Held(w)   == batch[w].files \cup buffer_files[w]
        Slots     == 1 .. Len(process_queue)
        waiting   == UNION {Queued(k) : k \in Slots}
    IN  /\ cached_files \cap json_files = {}
        /\ (cached_files \cup json_files) \cap waiting = {}
        /\ \A k, l \in Slots : k # l => Queued(k) \cap Queued(l) = {}
        /\ \A w \in Workers :
              /\ Held(w) \cap (cached_files \cup json_files \cup waiting) = {}
              /\ batch[w].files \cap buffer_files[w] = {}
              /\ \A v \in Workers \ {w} : Held(v) \cap Held(w) = {}

\* docs/ingester.md, "Enqueue poison pills": the pills sit behind all batches,
\* and every worker that still runs has one coming, so none waits for ever.
PillsReachEveryWorker ==
    LET pills == {k \in 1 .. Len(process_queue) : process_queue[k].last}
        owed  == {w \in Workers : Alive(w) /\ ~batch[w].last}
    IN  /\ \A k \in pills : k .. Len(process_queue) \subseteq pills
        /\ Cardinality(owed) <=
               Cardinality(pills) + (IF pc = "pill" THEN 1 ELSE 0)

\* What an archived file said is in the database, or at worst in the memory of
\* a worker that is still going to write it.  (flush_buffers, process_batch.)
ArchivedIsSafe ==
    \A i \in Items :
        place[FileOf[i]] = "archive" =>
            i \in stored \cup UNION {instances[w] : w \in Workers}

\* flush_buffers writes all the tables in one transaction, so as long as no
\* table is flushed early a submission is in the database whole or not at all.
WholeSubmissions ==
    \A f \in Files : ItemsOf(f) \cap stored \in {{}, ItemsOf(f)}

\* Every cycle comes to its end, whatever happens to its workers.
CyclesEnd == pc = "enqueue" ~> pc \in {"scan", "stopped"}

\* A file that says something, or that is known to be bad, leaves the spool in
\* the end: worker deaths, failed flushes, failed moves and restarts only
\* delay it to a later scan.  Unless there is a malformed file in the spool:
\* it stays, and takes a worker and all that worker holds with it every cycle.
SpoolDrains ==
    \A f \in {f \in Files : f \in Empty \cup Invalid \/ ItemsOf(f) # {}} :
        place[f] = "spool" ~>
            \/ place[f] # "spool"
            \/ \E g \in Malformed : place[g] = "spool"

\* docs/ingester.md, "Error Handling": a file with parse errors is moved to
\* failed/ and the worker goes on.  Not true of the malformed ones.
RejectedFilesLeave ==
    \A f \in Invalid : place[f] = "spool" ~> place[f] # "spool"

\* docs/ingester.md: the main process "batches `json_files` into groups ...
\* and puts each batch into the queue": when workers start, no path is left.
EveryFileQueued == pc = "spawn" => json_files = {}

\* monitor_submissions.md: "Success: Files are moved to `archive/`".  A valid
\* file, whatever it carries, leaves the spool in the end.
ValidFilesLeave ==
    \A f \in Files \ (Empty \cup Invalid) :
        place[f] = "spool" ~> place[f] # "spool"

-----------------------------------------------------------------------------
(* Why they hold: the inductive invariants behind TypeOK, OneHolder,       *)
(* ArchivedIsSafe and WholeSubmissions.                                    *)

FlushSteps == {"commit", "archive", "reject", "clear"}

\* After the pill a worker flushes all it has: it ends with empty hands.
FinalFlush ==
    \A w \in Workers :
        step[w] \in FlushSteps /\ batch[w].last => flushing[w] = instances[w]

\* No table ever has FlushSize rows to flush, however many files are read.
NoEarlyFlush == Cardinality(Items) < FlushSize

\* Then every flush is given all the rows of all the files it will move.
WholeFlush ==
    \A w \in Workers :
        /\ step[w] \in FlushSteps => flushing[w] = instances[w]
        /\ step[w] = "archive" => flushing[w] \subseteq stored
        /\ \A f \in buffer_files[w] : ItemsOf(f) \subseteq instances[w]
        /\ \A f \in Files : ItemsOf(f) \cap instances[w] \in {{}, ItemsOf(f)}

ArchivedIsStored ==
    \A i \in Items : place[FileOf[i]] = "archive" => i \in stored

Loading == WholeFlush /\ ArchivedIsStored /\ WholeSubmissions

\* Between two cycles nobody but the cache holds a path: a new scan can only
\* find files that have no other holder.
AtRest ==
    /\ \A w \in Workers : step[w] # "prepare" => batch[w].files = {}
    /\ pc \in {"scan", "enqueue", "stopped"} =>
           \A w \in Workers : step[w] = "off"
    /\ pc = "scan" => json_files = {} /\ process_queue = <<>>

\* No worker dies and no transaction fails: scans, sizes and moves may, and
\* signals come.  Without that, an early flush can lose archived rows.
NoDeaths ==
    /\ FaultKinds \cap {"db", "exception", "container", "vanish"} = {}
    /\ Malformed = {}

\* Then, although a flush leaves rows behind, no row leaves a worker's memory
\* before it is stored, and a file to be moved has its rows there until then.
RowsAreKept ==
    \A w \in Workers :
        /\ step[w] \in {"archive", "reject", "clear"} => flushing[w] \subseteq stored
        /\ \A f \in buffer_files[w] : ItemsOf(f) \subseteq instances[w]

\* A path in anyone's hands is still in the spool directory.
Taken(f) ==
    \/ f \in cached_files \cup json_files
    \/ \E k \in 1 .. Len(process_queue) : f \in process_queue[k].files
    \/ \E w \in Workers : f \in batch[w].files \cup buffer_files[w]

TakenIsSpooled == \A f \in Files : Taken(f) => place[f] = "spool"

=============================================================================
