------------------------------ MODULE WorkerPool ------------------------------
(***************************************************************************)
(* The worker pool of internal/worker: Start and the shutdown it performs, *)
(* SubmitJob, the worker goroutines and the stages of one conversion       *)
(* (download, validation, transcoding, upload, clean-up).                  *)
(*                                                                         *)
(* An action is what one goroutine does between two points where another   *)
(* goroutine, the storage or the clock can interfere.  A stage that waits  *)
(* for a peer is two actions: it starts (and looks at the job's context)   *)
(* and it ends (well or badly).  Contents, names and messages are left     *)
(* out; that a step of the transcoder, the disk or the network may fail is *)
(* a choice of the model.                                                  *)
(*                                                                         *)
(* Definitions named Slip... are not part of the model: each is what a     *)
(* plausible mistake would make of the definition that follows it, and     *)
(* README.md says which property notices it.                               *)
(***************************************************************************)
EXTENDS Integers, Sequences, FiniteSets

CONSTANTS Jobs,            \* the conversion jobs that may be submitted
          Workers,         \* worker goroutines, MaxConcurrentJobs of them
          Files,           \* names of output files a transcoding may produce
          NoJob,           \* a worker between two jobs
          Templated,       \* jobs whose template is configured
          LocalSource,     \* jobs whose source is read by the local backend
          OutputStorage,   \* the configured storage type
          HasAzureClient   \* whether an account key was configured

ASSUME PoolAssumption ==
    /\ IsFiniteSet(Workers) /\ Workers # {}
    /\ NoJob \notin Jobs
    /\ Templated \subseteq Jobs
    /\ LocalSource \subseteq Jobs
    /\ OutputStorage \in {"local", "azure-blob", "s3"}
    /\ HasAzureClient \in BOOLEAN

\* make(chan *ConversionJob, MaxConcurrentJobs*2)
QueueCap == 2 * Cardinality(Workers)

VARIABLES
    starter,    \* how far the goroutine running Start has come
    ctxDone,    \* the service context handed to Start is cancelled
    queue,      \* the buffered channel jobQueue
    status,     \* job.Status.State of each job ("new" before SubmitJob)
    verdict,    \* what SubmitJob gave its caller
    pc,         \* the next step of each worker goroutine
    cur,        \* the job each worker holds
    expired,    \* the deadline of the job each worker holds has passed
    temp,       \* what is in each job's temp directory
    result,     \* the files the transcoder listed for each job
    stored      \* each output file of each job in the output storage

poolVars == <<starter, ctxDone>>
jobVars  == <<status, cur, expired, pc>>
dataVars == <<temp, result, stored>>
lineVars == <<queue, verdict>>
vars == <<poolVars, jobVars, dataVars, lineVars>>

Settled == {"completed", "failed"}
BusyAt  == {"fetch", "fetching", "validate", "probe", "encode", "upload",
            "sending", "finish"}

TypeOK ==
    /\ starter \in {"init", "serving", "cancelled", "closed", "stopped"}
    /\ ctxDone \in BOOLEAN
    /\ queue \in Seq(Jobs) /\ Len(queue) <= QueueCap
    /\ status \in [Jobs -> {"new", "pending", "processing"} \cup Settled]
    /\ verdict \in [Jobs -> {"none", "queued", "full", "panic"}]
    /\ pc \in [Workers -> {"none", "select", "exited"} \cup BusyAt]
    /\ cur \in [Workers -> Jobs \cup {NoJob}]
    /\ \A w \in Workers : pc[w] \in BusyAt => cur[w] \in Jobs
    /\ expired \in [Workers -> BOOLEAN]
    /\ temp \in [Jobs -> SUBSET {"source", "outputs"}]
    /\ result \in [Jobs -> SUBSET Files]
    /\ stored \in [Jobs -> [Files -> {"absent", "sending", "torn", "whole"}]]

Init ==
    /\ starter = "init"
    /\ ctxDone = FALSE
    /\ queue = <<>>
    /\ status = [j \in Jobs |-> "new"]
    /\ verdict = [j \in Jobs |-> "none"]
    /\ pc = [w \in Workers |-> "none"]
    /\ cur = [w \in Workers |-> NoJob]
    /\ expired = [w \in Workers |-> FALSE]
    /\ temp = [j \in Jobs |-> {}]
    /\ result = [j \in Jobs |-> {}]
    /\ stored = [j \in Jobs |-> [f \in Files |-> "absent"]]

WorkerCtxDone == starter \in {"cancelled", "closed", "stopped"}
QueueClosed   == starter \in {"closed", "stopped"}
Busy(w)       == pc[w] \in BusyAt

SlipNoParent(w)  == expired[w]
SlipNoTimeout(w) == WorkerCtxDone
SlipNoContext(w) == FALSE

\* context.WithTimeout(w.ctx, ...): a job's context is a child of the pool's.
JobCtxDone(w) == expired[w] \/ WorkerCtxDone

-------------------------------------------------------------------------------
(* The goroutine that runs Start.                                          *)

\* The service cancels the context it gave to Start.
ServiceCancel ==
    /\ ~ctxDone
    /\ ctxDone' = TRUE
    /\ UNCHANGED <<starter, jobVars, dataVars, lineVars>>

StartWorkers ==
    /\ starter = "init"
    /\ starter' = "serving"
    /\ pc' = [w \in Workers |-> "select"]
    /\ UNCHANGED <<ctxDone, status, cur, expired, dataVars, lineVars>>

CancelPool ==
    /\ starter = "serving"
    /\ ctxDone
    /\ starter' = "cancelled"
    /\ UNCHANGED <<ctxDone, jobVars, dataVars, lineVars>>

CloseQueue ==
    /\ starter = "cancelled"
    /\ starter' = "closed"
    /\ UNCHANGED <<ctxDone, jobVars, dataVars, lineVars>>

SlipAnyWorkerDone == \E w \in Workers : pc[w] = "exited"

\* wg.Wait returns when every worker has run its deferred wg.Done.
AllWorkersDone == \A w \in Workers : pc[w] = "exited"

PoolStopped ==
    /\ starter = "closed"
    /\ AllWorkersDone
    /\ starter' = "stopped"
    /\ UNCHANGED <<ctxDone, jobVars, dataVars, lineVars>>

-------------------------------------------------------------------------------
(* SubmitJob, called by an HTTP handler.                                   *)

SlipUnbounded == TRUE

HasRoom == Len(queue) < QueueCap

\* The state is set before the select; a send on the closed channel panics,
\* a send that would block returns "job queue is full".
SubmitJob(j) ==
    /\ status[j] = "new"
    /\ status' = [status EXCEPT ![j] = "pending"]
    /\ \/ /\ QueueClosed
          /\ verdict' = [verdict EXCEPT ![j] = "panic"]
          /\ UNCHANGED queue
       \/ /\ ~QueueClosed
          /\ HasRoom
          /\ verdict' = [verdict EXCEPT ![j] = "queued"]
          /\ queue' = Append(queue, j)
       \/ /\ ~QueueClosed
          /\ ~HasRoom
          /\ verdict' = [verdict EXCEPT ![j] = "full"]
          /\ UNCHANGED queue
    /\ UNCHANGED <<poolVars, pc, cur, expired, dataVars>>

-------------------------------------------------------------------------------
(* A worker goroutine: workerLoop, processJob, executeConversion.          *)

GoTo(w, step) ==
    /\ pc' = [pc EXCEPT ![w] = step]
    /\ UNCHANGED <<status, cur, expired>>

\* processJob returns to the loop, leaving the job in its final state.
EndJob(w, s) ==
    /\ pc' = [pc EXCEPT ![w] = "select"]
    /\ status' = [status EXCEPT ![cur[w]] = s]
    /\ cur' = [cur EXCEPT ![w] = NoJob]
    /\ expired' = [expired EXCEPT ![w] = FALSE]

SlipFailSilently(w) == EndJob(w, "completed")

FailJob(w) == EndJob(w, "failed")

SlipPeek(w) ==
    /\ pc[w] = "select"
    /\ queue # <<>>
    /\ UNCHANGED <<poolVars, lineVars, dataVars>>

\* Receive the oldest job; both cases of the select may be ready, and then
\* either is taken.
Receive(w) ==
    /\ pc[w] = "select"
    /\ queue # <<>>
    /\ queue' = Tail(queue)
    /\ UNCHANGED <<poolVars, verdict, dataVars>>

TakeJob(w) ==
    /\ Receive(w)
    /\ Head(queue) \in Templated
    /\ pc' = [pc EXCEPT ![w] = "fetch"]
    /\ cur' = [cur EXCEPT ![w] = Head(queue)]
    /\ status' = [status EXCEPT ![Head(queue)] = "processing"]
    /\ UNCHANGED expired

RejectUnknownTemplate(w) ==
    /\ Receive(w)
    /\ Head(queue) \notin Templated
    /\ status' = [status EXCEPT ![Head(queue)] = "failed"]
    /\ UNCHANGED <<pc, cur, expired>>

WorkerExit(w) ==
    /\ pc[w] = "select"
    /\ WorkerCtxDone \/ (QueueClosed /\ queue = <<>>)
    /\ GoTo(w, "exited")
    /\ UNCHANGED <<poolVars, dataVars, lineVars>>

\* The job's deadline passes.  From "finish" on nothing looks at the context.
Timeout(w) ==
    /\ Busy(w) /\ pc[w] # "finish"
    /\ ~JobCtxDone(w)
    /\ expired' = [expired EXCEPT ![w] = TRUE]
    /\ UNCHANGED <<poolVars, status, cur, pc, dataVars, lineVars>>

\* The local backend does not look at the context; the remote ones refuse
\* to start a request with a context that is done.
DownloadMayStart(w) == cur[w] \in LocalSource \/ ~JobCtxDone(w)

StartDownload(w) ==
    /\ pc[w] = "fetch"
    /\ \/ DownloadMayStart(w) /\ GoTo(w, "fetching")
       \/ FailJob(w)
    /\ UNCHANGED <<poolVars, dataVars, lineVars>>

\* A download that fails may leave the part it has already written.
FinishDownload(w) ==
    /\ pc[w] = "fetching"
    /\ \/ /\ GoTo(w, "validate")
          /\ temp' = [temp EXCEPT ![cur[w]] = @ \cup {"source"}]
       \/ /\ FailJob(w)
          /\ \E left \in SUBSET {"source"} :
                temp' = [temp EXCEPT ![cur[w]] = @ \cup left]
    /\ UNCHANGED <<poolVars, result, stored, lineVars>>

ValidateSource(w) ==
    /\ pc[w] = "validate"
    /\ \/ "source" \in temp[cur[w]] /\ GoTo(w, "probe")
       \/ FailJob(w)
    /\ UNCHANGED <<poolVars, dataVars, lineVars>>

\* ffprobe and ffmpeg are started with the job's context.
StartTranscode(w) ==
    /\ pc[w] = "probe"
    /\ \/ "source" \in temp[cur[w]] /\ ~JobCtxDone(w) /\ GoTo(w, "encode")
       \/ FailJob(w)
    /\ UNCHANGED <<poolVars, dataVars, lineVars>>

\* The result lists some files (none for a template without outputs); a
\* failed transcoding may leave what it has written.
FinishTranscode(w) ==
    /\ pc[w] = "encode"
    /\ \/ \E files \in SUBSET Files :
             /\ result' = [result EXCEPT ![cur[w]] = files]
             /\ temp' = [temp EXCEPT ![cur[w]] = @ \cup {"outputs" : f \in files}]
             /\ GoTo(w, "upload")
       \/ \E left \in SUBSET {"outputs"} :
             /\ temp' = [temp EXCEPT ![cur[w]] = @ \cup left]
             /\ FailJob(w)
             /\ UNCHANGED result
    /\ UNCHANGED <<poolVars, stored, lineVars>>

\* The entries of fileMap the loop of UploadFiles has not reached; the order
\* in which a map is ranged over is random.
Unsent(j) == {f \in result[j] : stored[j][f] = "absent"}

UploadMayStart(w) ==
    \/ OutputStorage = "local"
    \/ OutputStorage = "azure-blob" /\ HasAzureClient /\ ~JobCtxDone(w)

StartUpload(w, f) ==
    /\ pc[w] = "upload"
    /\ f \in Unsent(cur[w])
    /\ \/ /\ UploadMayStart(w)
          /\ "outputs" \in temp[cur[w]]
          /\ stored' = [stored EXCEPT ![cur[w]][f] = "sending"]
          /\ GoTo(w, "sending")
       \/ FailJob(w) /\ UNCHANGED stored
    /\ UNCHANGED <<poolVars, temp, result, lineVars>>

\* A failed local copy leaves a torn file under its final name; a failed
\* Azure upload leaves nothing, or the blob when only the answer was lost.
AfterFailedUpload ==
    IF OutputStorage = "local" THEN {"torn"} ELSE {"absent", "whole"}

SlipIgnoreUploadError(w, f) ==
    /\ pc[w] = "sending"
    /\ stored[cur[w]][f] = "sending"
    /\ \E after \in {"whole"} \cup AfterFailedUpload :
          stored' = [stored EXCEPT ![cur[w]][f] = after]
    /\ GoTo(w, "upload")
    /\ UNCHANGED <<poolVars, temp, result, lineVars>>

FinishUpload(w, f) ==
    /\ pc[w] = "sending"
    /\ stored[cur[w]][f] = "sending"
    /\ \/ /\ stored' = [stored EXCEPT ![cur[w]][f] = "whole"]
          /\ GoTo(w, "upload")
       \/ /\ \E after \in AfterFailedUpload :
                stored' = [stored EXCEPT ![cur[w]][f] = after]
          /\ FailJob(w)
    /\ UNCHANGED <<poolVars, temp, result, lineVars>>

SlipEmptyRoot(j) == {[k \in Jobs |-> {}]}

\* os.RemoveAll of the job's directory; if it fails, part may stay and only
\* a warning is logged.
Emptied(j) == {[temp EXCEPT ![j] = left] : left \in SUBSET temp[j]}

CleanupTemp(w) ==
    /\ pc[w] = "upload"
    /\ Unsent(cur[w]) = {}
    /\ temp' \in Emptied(cur[w])
    /\ GoTo(w, "finish")
    /\ UNCHANGED <<poolVars, result, stored, lineVars>>

FinishJob(w) ==
    /\ pc[w] = "finish"
    /\ EndJob(w, "completed")
    /\ UNCHANGED <<poolVars, dataVars, lineVars>>

-------------------------------------------------------------------------------
Starter == StartWorkers \/ CancelPool \/ CloseQueue \/ PoolStopped

Conversion(w) ==
    \/ StartDownload(w) \/ FinishDownload(w) \/ ValidateSource(w)
    \/ StartTranscode(w) \/ FinishTranscode(w)
    \/ \E f \in Files : StartUpload(w, f) \/ FinishUpload(w, f)
    \/ CleanupTemp(w) \/ FinishJob(w)

Worker(w) ==
    \/ TakeJob(w) \/ RejectUnknownTemplate(w) \/ WorkerExit(w)
    \/ Timeout(w) \/ Conversion(w)

\* After Start has returned the process ends.
Terminated == starter = "stopped" /\ UNCHANGED vars

Next ==
    \/ ServiceCancel
    \/ Starter
    \/ \E j \in Jobs : SubmitJob(j)
    \/ \E w \in Workers : Worker(w)
    \/ Terminated

Spec == Init /\ [][Next]_vars

-------------------------------------------------------------------------------
(* Fairness.  The Go scheduler runs every goroutine that can run, timers   *)
(* fire and local disk operations end.  Waiting for a remote peer or for   *)
(* ffmpeg is only sure to end once the job's context is done: the request  *)
(* is then aborted, the process killed.  Nobody has to submit or cancel.   *)

WaitsForPeer(w) ==
    \/ pc[w] = "fetching" /\ cur[w] \notin LocalSource
    \/ pc[w] = "encode"
    \/ pc[w] = "sending" /\ OutputStorage # "local"

\* A step the goroutine makes by itself, a wait for the disk, or the end of
\* a wait whose context is done.
MustStep(w) == (WaitsForPeer(w) => JobCtxDone(w)) /\ Conversion(w)

Fairness ==
    /\ WF_vars(Starter)
    /\ \A w \in Workers :
         /\ WF_vars(TakeJob(w) \/ RejectUnknownTemplate(w) \/ WorkerExit(w))
         /\ WF_vars(Timeout(w))
         /\ WF_vars(MustStep(w))

FairSpec == Spec /\ Fairness

-------------------------------------------------------------------------------
(* Safety.                                                                 *)

Holders(j) == {w \in Workers : cur[w] = j}
Places(j)  == {i \in DOMAIN queue : queue[i] = j}

\* Every job SubmitJob has taken is in one place at a time: once in the
\* channel while it is pending, with one worker while it is processing, and
\* nowhere once it is settled.  A job that was refused is nowhere.
EveryJobInOnePlace ==
    \A j \in Jobs :
        /\ Places(j) # {} <=> status[j] = "pending" /\ verdict[j] = "queued"
        /\ Holders(j) # {} <=> status[j] = "processing"
        /\ \A m, n \in Places(j) : m = n
        /\ \A v, w \in Holders(j) : v = w

\* processJob reports "Conversion completed successfully" only for a job all
\* of whose listed files are whole in the output storage.
CompletedMeansStored ==
    \A j \in Jobs : status[j] = "completed" =>
        \A f \in result[j] : stored[j][f] = "whole"

\* Concurrent jobs share one temp root: what a stage is about to read is
\* still there when it comes to read it.
NeededFilesPresent ==
    \A w \in Workers :
        /\ pc[w] \in {"validate", "probe", "encode"} => "source" \in temp[cur[w]]
        /\ pc[w] = "upload" /\ Unsent(cur[w]) # {} => "outputs" \in temp[cur[w]]

\* When Start returns no goroutine of the pool is at work: no job is
\* processing, no file is half sent.
StoppedMeansQuiet ==
    starter = "stopped" =>
        /\ \A j \in Jobs : status[j] # "processing"
        /\ \A j \in Jobs, f \in Files : stored[j][f] # "sending"

\* A settled job stays as it is: its state, its files in storage and the
\* list of its outputs are not touched by any later step.
SettledIsFinal ==
    [][\A j \in Jobs : status[j] \in Settled =>
           /\ status'[j] = status[j]
           /\ stored'[j] = stored[j]
           /\ result'[j] = result[j]]_vars

\* A job that is still waiting when the pool's context is cancelled is never
\* reported completed, whichever worker picks it from the channel.
LateJobsNeverComplete ==
    \A j \in Jobs :
        [](status[j] = "pending" /\ WorkerCtxDone => [](status[j] # "completed"))

-------------------------------------------------------------------------------
(* The inductive invariant behind the safety properties: what is known of  *)
(* a job at each stage, and of a job no worker holds.                      *)

\* What the worker at this stage has read, written and stored so far.
StageOK(w) ==
    LET j == cur[w] IN
    /\ pc[w] \in {"fetch", "fetching", "validate", "probe", "encode"} =>
          result[j] = {} /\ \A f \in Files : stored[j][f] = "absent"
    /\ pc[w] \in {"validate", "probe", "encode"} => "source" \in temp[j]
    /\ pc[w] \in {"upload", "sending"} /\ result[j] # {} => "outputs" \in temp[j]
    /\ pc[w] # "sending" => \A f \in Files : stored[j][f] # "sending"
    /\ \A f, g \in Files :
          stored[j][f] = "sending" /\ stored[j][g] = "sending" => f = g
    /\ \A f \in Files : stored[j][f] # "torn"
    /\ pc[w] = "finish" => \A f \in result[j] : stored[j][f] = "whole"

RestOK(j) ==
    /\ status[j] \in {"new", "pending"} =>
          result[j] = {} /\ \A f \in Files : stored[j][f] = "absent"
    /\ status[j] # "processing" => \A f \in Files : stored[j][f] # "sending"
    /\ status[j] = "completed" => \A f \in result[j] : stored[j][f] = "whole"

PoolInv ==
    /\ TypeOK
    /\ EveryJobInOnePlace
    /\ \A w \in Workers : Busy(w) => StageOK(w)
    /\ \A w \in Workers : ~Busy(w) => cur[w] = NoJob
    /\ \A j \in Jobs : RestOK(j)
    /\ starter = "init" => \A w \in Workers : pc[w] = "none"
    /\ starter = "stopped" => AllWorkersDone

-------------------------------------------------------------------------------
(* Liveness, under FairSpec.                                               *)

\* Unless the service is stopped, every job in the channel is settled: a
\* stage that hangs ends with the job's timeout and frees its worker.
QueuedJobsSettle ==
    \A j \in Jobs :
        verdict[j] = "queued" ~> (status[j] \in Settled \/ ctxDone)

\* A cancelled pool stops: Start closes the channel and returns.
ShutdownCompletes == ctxDone ~> (starter = "stopped")

-------------------------------------------------------------------------------
(* The pool implements the ledger.                                         *)

LedgerPhase(j) ==
    CASE status[j] = "new"                               -> "unseen"
      [] status[j] = "pending" /\ verdict[j] = "queued"  -> "queued"
      [] status[j] = "pending" /\ verdict[j] # "queued"  -> "refused"
      [] status[j] = "processing"                        -> "running"
      [] status[j] = "completed"                         -> "delivered"
      [] OTHER                                           -> "abandoned"

\* The files of the job are listed and every one of them is stored.
AllStored(j) ==
    /\ \/ status[j] = "completed"
       \/ \E w \in Holders(j) : pc[w] = "finish"
    /\ \A f \in result[j] : stored[j][f] = "whole"

Ledger == INSTANCE JobLedger WITH
    Capacity   <- QueueCap,
    MaxRunning <- Cardinality(Workers),
    phase      <- [j \in Jobs |-> LedgerPhase(j)],
    line       <- queue,
    safe       <- {j \in Jobs : AllStored(j)},
    open       <- ~QueueClosed

\* The pool serves the jobs it takes as JobLedger says: in the order they
\* came, no more at once than there are workers, settled once, and settled
\* well only with every output in storage.
ImplementsLedger == Ledger!Spec
===============================================================================
