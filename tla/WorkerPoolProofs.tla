--------------------------- MODULE WorkerPoolProofs ---------------------------
(***************************************************************************)
(* Proofs about WorkerPool, for any jobs, workers, files and storage.      *)
(***************************************************************************)
EXTENDS WorkerPool, FiniteSetTheorems, TLAPS

-------------------------------------------------------------------------------
(* Type correctness.  TypeOK is split by who changes the variables: the    *)
(* control part by every step of a worker, the data part by the stages     *)
(* that touch files, the line part by SubmitJob and the receive.           *)

LineTyped ==
    /\ queue \in Seq(Jobs) /\ Len(queue) <= QueueCap
    /\ verdict \in [Jobs -> {"none", "queued", "full", "panic"}]

ControlTyped ==
    /\ status \in [Jobs -> {"new", "pending", "processing"} \cup Settled]
    /\ pc \in [Workers -> {"none", "select", "exited"} \cup BusyAt]
    /\ cur \in [Workers -> Jobs \cup {NoJob}]
    /\ \A w \in Workers : pc[w] \in BusyAt => cur[w] \in Jobs
    /\ expired \in [Workers -> BOOLEAN]

TempType   == [Jobs -> SUBSET {"source", "outputs"}]
FileState  == {"absent", "sending", "torn", "whole"}
StoredType == [Jobs -> [Files -> FileState]]

DataTyped ==
    /\ temp \in TempType
    /\ result \in [Jobs -> SUBSET Files]
    /\ stored \in StoredType

StarterTyped ==
    /\ starter \in {"init", "serving", "cancelled", "closed", "stopped"}
    /\ ctxDone \in BOOLEAN

\* TypeOK splits into what the starter, the channel, the workers and the
\* files' parts of the state must be.
LEMMA TypeParts ==
  TypeOK <=> StarterTyped /\ LineTyped /\ ControlTyped /\ DataTyped
  BY DEF TypeOK, StarterTyped, LineTyped, ControlTyped, DataTyped,
         TempType, StoredType, FileState

\* The channel's capacity is a number, whatever the pool's size.
LEMMA QueueCapNat == QueueCap \in Nat
  BY PoolAssumption, FS_CardinalityType DEF QueueCap

\* Only a worker inside processJob takes a step of executeConversion, and it
\* holds a job.
LEMMA StagesBusy ==
  ASSUME TypeOK, NEW w \in Workers, Conversion(w)
  PROVE  pc[w] \in BusyAt /\ cur[w] \in Jobs
<1>1. pc[w] \in BusyAt
  BY DEF Conversion, BusyAt, StartDownload, FinishDownload, ValidateSource,
         StartTranscode, FinishTranscode, StartUpload, FinishUpload,
         CleanupTemp, FinishJob
<1> QED BY <1>1 DEF TypeOK

\* Moving a busy worker to another stage, or ending its job, keeps the
\* control variables typed.
LEMMA GoToTyped ==
  ASSUME ControlTyped, NEW w \in Workers, pc[w] \in BusyAt,
         NEW step \in BusyAt, GoTo(w, step)
  PROVE  ControlTyped'
  BY DEF ControlTyped, GoTo, Settled, BusyAt

\* The return of processJob to the loop keeps the control variables typed.
LEMMA EndJobTyped ==
  ASSUME ControlTyped, NEW w \in Workers, NEW s \in Settled, EndJob(w, s)
  PROVE  ControlTyped'
  BY DEF ControlTyped, EndJob, Settled, BusyAt

\* So does its error path (worker.go:154).
LEMMA FailJobTyped ==
  ASSUME ControlTyped, NEW w \in Workers, FailJob(w)
  PROVE  ControlTyped'
  BY EndJobTyped DEF FailJob, Settled

\* Adding to or emptying one job's part of temp, and setting one file of
\* stored, keeps them typed.
LEMMA TempTyped ==
  ASSUME temp \in TempType, NEW j \in Jobs,
         NEW more \in SUBSET {"source", "outputs"}
  PROVE  [temp EXCEPT ![j] = @ \cup more] \in TempType
<1>1. temp[j] \cup more \in SUBSET {"source", "outputs"}
  BY DEF TempType
<1> QED BY <1>1 DEF TempType

\* What RemoveAll leaves of the temp directories is typed.
LEMMA EmptiedTyped ==
  ASSUME temp \in TempType, NEW j \in Jobs, NEW t \in Emptied(j)
  PROVE  t \in TempType
<1>1. PICK left \in SUBSET temp[j] : t = [temp EXCEPT ![j] = left]
  BY DEF Emptied
<1>2. left \in SUBSET {"source", "outputs"}
  BY <1>1 DEF TempType
<1> QED BY <1>1, <1>2 DEF TempType

\* Setting one file of one job in the output storage keeps it typed.
LEMMA StoredTyped ==
  ASSUME stored \in StoredType, NEW j \in Jobs, NEW f, NEW s \in FileState
  PROVE  [stored EXCEPT ![j][f] = s] \in StoredType
<1>1. [stored[j] EXCEPT ![f] = s] \in [Files -> FileState]
  BY DEF StoredType
<1> QED BY <1>1 DEF StoredType

\* Every stage of a conversion keeps control and data typed.
LEMMA ConversionTyped ==
  ASSUME TypeOK, NEW w \in Workers, Conversion(w)
  PROVE  ControlTyped' /\ DataTyped'
<1> DEFINE j == cur[w]
<1>0. /\ ControlTyped /\ DataTyped
      /\ pc[w] \in BusyAt /\ j \in Jobs
  BY TypeParts, StagesBusy
<1> USE GoToTyped, EndJobTyped, FailJobTyped
<1>1. CASE StartDownload(w)
  BY <1>0, <1>1 DEF StartDownload, DataTyped, dataVars, BusyAt
<1>2. CASE FinishDownload(w)
  <2>1. ControlTyped'
    BY <1>0, <1>2 DEF FinishDownload, BusyAt
  <2>2. PICK more \in SUBSET {"source", "outputs"} :
           temp' = [temp EXCEPT ![j] = @ \cup more]
    BY <1>2 DEF FinishDownload
  <2>3. temp' \in TempType
    BY <1>0, <2>2, TempTyped DEF DataTyped
  <2> QED BY <1>0, <1>2, <2>1, <2>3 DEF FinishDownload, DataTyped
<1>3. CASE ValidateSource(w)
  BY <1>0, <1>3 DEF ValidateSource, DataTyped, dataVars, BusyAt
<1>4. CASE StartTranscode(w)
  BY <1>0, <1>4 DEF StartTranscode, DataTyped, dataVars, BusyAt
<1>5. CASE FinishTranscode(w)
  <2>1. ControlTyped'
    BY <1>0, <1>5 DEF FinishTranscode, BusyAt
  <2>2. PICK more \in SUBSET {"source", "outputs"} :
           temp' = [temp EXCEPT ![j] = @ \cup more]
    <3>1. \A files \in SUBSET Files :
             {"outputs" : f \in files} \in SUBSET {"source", "outputs"}
      OBVIOUS
    <3>2. CASE \E files \in SUBSET Files :
             temp' = [temp EXCEPT ![j] = @ \cup {"outputs" : f \in files}]
      BY <3>1, <3>2
    <3>3. CASE \E left \in SUBSET {"outputs"} :
             temp' = [temp EXCEPT ![j] = @ \cup left]
      BY <3>3
    <3> QED BY <1>5, <3>2, <3>3 DEF FinishTranscode
  <2>3. temp' \in TempType
    BY <1>0, <2>2, TempTyped DEF DataTyped
  <2>4. result' \in [Jobs -> SUBSET Files]
    BY <1>0, <1>5 DEF FinishTranscode, DataTyped
  <2>5. stored' \in StoredType
    BY <1>0, <1>5 DEF FinishTranscode, DataTyped
  <2> QED BY <2>1, <2>3, <2>4, <2>5 DEF DataTyped
<1>6. ASSUME NEW f \in Files, StartUpload(w, f)
      PROVE  ControlTyped' /\ DataTyped'
  <2>1. ControlTyped'
    BY <1>0, <1>6 DEF StartUpload, BusyAt
  <2>2. stored' \in StoredType
    <3>1. CASE stored' = stored
      BY <1>0, <3>1 DEF DataTyped
    <3>2. CASE stored' = [stored EXCEPT ![j][f] = "sending"]
      BY <1>0, <3>2, StoredTyped DEF DataTyped, FileState
    <3> QED BY <1>6, <3>1, <3>2 DEF StartUpload
  <2> QED BY <1>0, <1>6, <2>1, <2>2 DEF StartUpload, DataTyped
<1>7. ASSUME NEW f \in Files, FinishUpload(w, f)
      PROVE  ControlTyped' /\ DataTyped'
  <2>1. ControlTyped'
    BY <1>0, <1>7 DEF FinishUpload, BusyAt
  <2>2. PICK s \in FileState : stored' = [stored EXCEPT ![j][f] = s]
    BY <1>7 DEF FinishUpload, AfterFailedUpload, FileState
  <2>3. stored' \in StoredType
    BY <1>0, <2>2, StoredTyped DEF DataTyped
  <2> QED BY <1>0, <1>7, <2>1, <2>3 DEF FinishUpload, DataTyped
<1>8. CASE CleanupTemp(w)
  <2>1. ControlTyped'
    BY <1>0, <1>8 DEF CleanupTemp, BusyAt
  <2>2. temp' \in TempType
    BY <1>0, <1>8, EmptiedTyped DEF CleanupTemp, DataTyped
  <2> QED BY <1>0, <1>8, <2>1, <2>2 DEF CleanupTemp, DataTyped
<1>9. CASE FinishJob(w)
  BY <1>0, <1>9 DEF FinishJob, DataTyped, dataVars, Settled
<1> QED BY <1>1, <1>2, <1>3, <1>4, <1>5, <1>6, <1>7, <1>8, <1>9 DEF Conversion

\* What worker.New makes is typed.
LEMMA TypeInit == Init => TypeOK
<1> SUFFICES ASSUME Init PROVE TypeOK
  OBVIOUS
<1> USE DEF Init
<1>1. LineTyped
  BY QueueCapNat DEF LineTyped
<1>2. ControlTyped
  BY DEF ControlTyped, Settled, BusyAt
<1>3. DataTyped
  BY DEF DataTyped, TempType, StoredType, FileState
<1>4. StarterTyped
  BY DEF StarterTyped
<1> QED BY <1>1, <1>2, <1>3, <1>4, TypeParts

\* The send of SubmitJob and the receive of a worker keep the channel typed
\* and within its capacity.
LEMMA SubmitTyped ==
  ASSUME TypeOK, NEW j \in Jobs, SubmitJob(j)
  PROVE  LineTyped'
<1>0. queue \in Seq(Jobs) /\ Len(queue) <= QueueCap
  BY DEF TypeOK
<1>1. verdict' \in [Jobs -> {"none", "queued", "full", "panic"}]
  BY DEF TypeOK, SubmitJob
<1>2. CASE queue' = queue
  BY <1>0, <1>1, <1>2, QueueCapNat DEF LineTyped, QueueCap
<1>3. CASE queue' = Append(queue, j) /\ HasRoom
  <2>1. queue' \in Seq(Jobs) /\ Len(queue') = Len(queue) + 1
    BY <1>0, <1>3
  <2>2. Len(queue') <= QueueCap
    BY <1>0, <1>3, <2>1, QueueCapNat DEF HasRoom
  <2> QED BY <1>1, <2>1, <2>2 DEF LineTyped, QueueCap
<1> QED BY <1>2, <1>3 DEF SubmitJob

\* A worker's receive takes a job, and leaves the channel typed.
LEMMA ReceiveTyped ==
  ASSUME TypeOK, NEW w \in Workers, Receive(w)
  PROVE  LineTyped' /\ Head(queue) \in Jobs
<1>1. /\ queue \in Seq(Jobs) /\ Len(queue) <= QueueCap
      /\ queue # <<>> /\ queue' = Tail(queue)
      /\ verdict' = verdict
  BY DEF TypeOK, Receive
<1>2. /\ queue' \in Seq(Jobs) /\ Len(queue') = Len(queue) - 1
      /\ Head(queue) \in Jobs
  BY <1>1
<1>3. Len(queue') <= QueueCap
  BY <1>1, <1>2, QueueCapNat
<1> QED BY <1>1, <1>2, <1>3 DEF LineTyped, TypeOK, QueueCap

\* Every step of the service, of Start, SubmitJob or a worker keeps the types.
LEMMA TypeNext == TypeOK /\ [Next]_vars => TypeOK'
<1> SUFFICES ASSUME TypeOK, [Next]_vars PROVE TypeOK'
  OBVIOUS
<1>0. TypeOK' <=> StarterTyped' /\ LineTyped' /\ ControlTyped' /\ DataTyped'
  BY DEF TypeOK, StarterTyped, LineTyped, ControlTyped, DataTyped,
         TempType, StoredType, FileState
<1>1. StarterTyped /\ LineTyped /\ ControlTyped /\ DataTyped
  BY TypeParts
<1> DEFINE SameStarter == UNCHANGED poolVars
           SameLine    == UNCHANGED lineVars
           SameControl == UNCHANGED jobVars
           SameData    == UNCHANGED dataVars
<1>2. SameStarter => StarterTyped'
  BY <1>1 DEF StarterTyped, poolVars
<1>3. SameLine => LineTyped'
  BY <1>1 DEF LineTyped, lineVars, QueueCap
<1>4. SameControl => ControlTyped'
  BY <1>1 DEF ControlTyped, jobVars
<1>5. SameData => DataTyped'
  BY <1>1 DEF DataTyped, dataVars
<1>6. CASE UNCHANGED vars \/ Terminated
  BY <1>0, <1>2, <1>3, <1>4, <1>5, <1>6 DEF vars, Terminated
<1>7. CASE ServiceCancel
  <2>1. StarterTyped'
    BY <1>1, <1>7 DEF ServiceCancel, StarterTyped
  <2> QED BY <1>0, <1>3, <1>4, <1>5, <1>7, <2>1 DEF ServiceCancel
<1>8. CASE StartWorkers
  <2>1. StarterTyped'
    BY <1>1, <1>8 DEF StartWorkers, StarterTyped
  <2>2. ControlTyped'
    BY <1>1, <1>8 DEF StartWorkers, ControlTyped, BusyAt
  <2> QED BY <1>0, <1>3, <1>5, <1>8, <2>1, <2>2 DEF StartWorkers
<1>9. CASE CancelPool \/ CloseQueue \/ PoolStopped
  <2>1. StarterTyped'
    BY <1>1, <1>9 DEF CancelPool, CloseQueue, PoolStopped, StarterTyped
  <2> QED BY <1>0, <1>3, <1>4, <1>5, <1>9, <2>1
          DEF CancelPool, CloseQueue, PoolStopped
<1>10. ASSUME NEW j \in Jobs, SubmitJob(j) PROVE TypeOK'
  <2>1. LineTyped'
    BY <1>10, SubmitTyped
  <2>2. ControlTyped'
    BY <1>1, <1>10 DEF SubmitJob, ControlTyped
  <2> QED BY <1>0, <1>2, <1>5, <1>10, <2>1, <2>2 DEF SubmitJob
<1>11. ASSUME NEW w \in Workers, TakeJob(w) PROVE TypeOK'
  <2>1. LineTyped' /\ Head(queue) \in Jobs
    BY <1>11, ReceiveTyped DEF TakeJob
  <2>2. ControlTyped'
    BY <1>1, <1>11, <2>1 DEF TakeJob, ControlTyped, BusyAt
  <2> QED BY <1>0, <1>2, <1>5, <1>11, <2>1, <2>2 DEF TakeJob, Receive
<1>12. ASSUME NEW w \in Workers, RejectUnknownTemplate(w) PROVE TypeOK'
  <2>1. LineTyped' /\ Head(queue) \in Jobs
    BY <1>12, ReceiveTyped DEF RejectUnknownTemplate
  <2>2. ControlTyped'
    BY <1>1, <1>12, <2>1 DEF RejectUnknownTemplate, ControlTyped, Settled
  <2> QED BY <1>0, <1>2, <1>5, <1>12, <2>1, <2>2
          DEF RejectUnknownTemplate, Receive
<1>13. ASSUME NEW w \in Workers, WorkerExit(w) \/ Timeout(w) PROVE TypeOK'
  <2>1. ControlTyped'
    BY <1>1, <1>13 DEF WorkerExit, Timeout, GoTo, ControlTyped, BusyAt
  <2> QED BY <1>0, <1>2, <1>3, <1>5, <1>13, <2>1 DEF WorkerExit, Timeout
<1>14. ASSUME NEW w \in Workers, Conversion(w) PROVE TypeOK'
  <2>1. ControlTyped' /\ DataTyped'
    BY <1>14, ConversionTyped
  <2>2. SameStarter /\ SameLine
    BY <1>14 DEF Conversion, StartDownload, FinishDownload, ValidateSource,
         StartTranscode, FinishTranscode, StartUpload, FinishUpload,
         CleanupTemp, FinishJob
  <2> QED BY <1>0, <1>2, <1>3, <2>1, <2>2
<1> QED BY <1>6, <1>7, <1>8, <1>9, <1>10, <1>11, <1>12, <1>13, <1>14
        DEF Next, Starter, Worker

\* The pool keeps its types: every variable stays in the set the code can
\* put it in, the channel never holds more than twice as many jobs as there
\* are workers, and a worker at a stage holds a job.
THEOREM TypeCorrect == Spec => []TypeOK
<1>1. Init => TypeOK
  BY TypeInit
<1>2. TypeOK /\ [Next]_vars => TypeOK'
  BY TypeNext
<1> QED BY <1>1, <1>2, PTL DEF Spec

-------------------------------------------------------------------------------
(* Safety.  PoolInv is inductive: a step of a conversion touches the one   *)
(* job its worker holds, and a step of the channel moves one job between   *)
(* two places.                                                             *)

JobOnly(j, w) ==
    /\ UNCHANGED <<poolVars, lineVars>>
    /\ \A k \in Jobs \ {j} :
          /\ status'[k] = status[k] /\ temp'[k] = temp[k]
          /\ result'[k] = result[k] /\ stored'[k] = stored[k]
    /\ \A v \in Workers \ {w} : pc'[v] = pc[v] /\ cur'[v] = cur[v]

\* A step of a conversion either moves its worker to another stage of the
\* same job or settles the job and frees the worker; nothing else of any
\* other job or worker changes.
Stays(j, w) == status'[j] = status[j] /\ cur'[w] = j /\ pc'[w] \in BusyAt
Ends(j, w)  == status'[j] \in Settled /\ cur'[w] = NoJob /\ pc'[w] = "select"

\* A stage that goes well moves its worker only, which keeps its job.
LEMMA GoToStays ==
  ASSUME TypeOK, NEW w \in Workers, NEW step \in BusyAt, GoTo(w, step)
  PROVE  /\ Stays(cur[w], w) /\ pc'[w] = step
         /\ \A k \in Jobs : status'[k] = status[k]
         /\ \A v \in Workers \ {w} : pc'[v] = pc[v] /\ cur'[v] = cur[v]
  BY DEF TypeOK, GoTo, Stays

\* The return of processJob settles its own job and frees its worker only.
LEMMA EndJobEnds ==
  ASSUME TypeOK, NEW w \in Workers, cur[w] \in Jobs, NEW s \in Settled,
         EndJob(w, s)
  PROVE  /\ Ends(cur[w], w) /\ status'[cur[w]] = s
         /\ \A k \in Jobs \ {cur[w]} : status'[k] = status[k]
         /\ \A v \in Workers \ {w} : pc'[v] = pc[v] /\ cur'[v] = cur[v]
  BY DEF TypeOK, EndJob, Ends

\* The error path marks its own job failed and frees its worker only.
LEMMA FailJobEnds ==
  ASSUME TypeOK, NEW w \in Workers, cur[w] \in Jobs, FailJob(w)
  PROVE  /\ Ends(cur[w], w) /\ status'[cur[w]] = "failed"
         /\ \A k \in Jobs \ {cur[w]} : status'[k] = status[k]
         /\ \A v \in Workers \ {w} : pc'[v] = pc[v] /\ cur'[v] = cur[v]
  BY EndJobEnds DEF FailJob, Settled

\* A step of executeConversion touches the files of its own job alone, and
\* either keeps the job or settles it.
LEMMA ConversionLocal ==
  ASSUME TypeOK, NEW w \in Workers, Conversion(w)
  PROVE  JobOnly(cur[w], w) /\ (Stays(cur[w], w) \/ Ends(cur[w], w))
<1> DEFINE j == cur[w]
<1>0. pc[w] \in BusyAt /\ j \in Jobs
  BY StagesBusy
<1> DEFINE Control == /\ Stays(j, w) \/ Ends(j, w)
                      /\ \A k \in Jobs \ {j} : status'[k] = status[k]
                      /\ \A v \in Workers \ {w} : pc'[v] = pc[v] /\ cur'[v] = cur[v]
           Rest == UNCHANGED <<poolVars, lineVars>>
           Data == \A k \in Jobs \ {j} :
                      /\ temp'[k] = temp[k] /\ result'[k] = result[k]
                      /\ stored'[k] = stored[k]
<1>1. ASSUME NEW step \in BusyAt, GoTo(w, step) PROVE Control
  BY <1>1, GoToStays
<1>2. ASSUME FailJob(w) PROVE Control
  BY <1>0, <1>2, FailJobEnds
<1>3. UNCHANGED dataVars => Data
  BY DEF dataVars
<1> SUFFICES Control /\ Rest /\ Data
  BY DEF JobOnly
<1>4. CASE StartDownload(w)
  BY <1>1, <1>2, <1>3, <1>4 DEF StartDownload, BusyAt
<1>5. CASE FinishDownload(w)
  <2>1. Data /\ Rest
    BY <1>5 DEF FinishDownload, TypeOK
  <2>2. Control
    BY <1>1, <1>2, <1>5 DEF FinishDownload, BusyAt
  <2> QED BY <2>1, <2>2
<1>6. CASE ValidateSource(w)
  BY <1>1, <1>2, <1>3, <1>6 DEF ValidateSource, BusyAt
<1>7. CASE StartTranscode(w)
  BY <1>1, <1>2, <1>3, <1>7 DEF StartTranscode, BusyAt
<1>8. CASE FinishTranscode(w)
  <2>1. Data /\ Rest
    BY <1>8 DEF FinishTranscode, TypeOK
  <2>2. Control
    BY <1>1, <1>2, <1>8 DEF FinishTranscode, BusyAt
  <2> QED BY <2>1, <2>2
<1>9. ASSUME NEW f \in Files, StartUpload(w, f) PROVE Control /\ Rest /\ Data
  <2>1. Data /\ Rest
    BY <1>9 DEF StartUpload, TypeOK
  <2>2. Control
    BY <1>1, <1>2, <1>9 DEF StartUpload, BusyAt
  <2> QED BY <2>1, <2>2
<1>10. ASSUME NEW f \in Files, FinishUpload(w, f) PROVE Control /\ Rest /\ Data
  <2>1. Data /\ Rest
    BY <1>10 DEF FinishUpload, TypeOK
  <2>2. Control
    BY <1>1, <1>2, <1>10 DEF FinishUpload, BusyAt
  <2> QED BY <2>1, <2>2
<1>11. CASE CleanupTemp(w)
  <2>1. Data /\ Rest
    BY <1>0, <1>11 DEF CleanupTemp, Emptied, TypeOK
  <2>2. Control
    BY <1>1, <1>11 DEF CleanupTemp, BusyAt
  <2> QED BY <2>1, <2>2
<1>12. CASE FinishJob(w)
  <2>1. Data /\ Rest
    BY <1>3, <1>12 DEF FinishJob
  <2>2. Control
    BY <1>0, <1>12, EndJobEnds DEF FinishJob, Settled
  <2> QED BY <2>1, <2>2
<1> QED BY <1>4, <1>5, <1>6, <1>7, <1>8, <1>9, <1>10, <1>11, <1>12
        DEF Conversion

\* What is known of the held job's files stays known through its stages, and
\* when the job ends they are in a final state.
LEMMA ConversionFiles ==
  ASSUME PoolInv, NEW w \in Workers, NEW j \in Jobs, j = cur[w],
         Conversion(w)
  PROVE  (Busy(w)' => StageOK(w)') /\ RestOK(j)'
<1> USE DEF BusyAt
<1>0. /\ TypeOK /\ pc[w] \in BusyAt /\ j = cur[w] /\ j \in Jobs
      /\ StageOK(w) /\ status[j] = "processing"
  BY StagesBusy DEF PoolInv, Busy, EveryJobInOnePlace, Holders
<1>1. /\ stored \in [Jobs -> [Files -> FileState]]
      /\ result \in [Jobs -> SUBSET Files]
      /\ temp \in [Jobs -> SUBSET {"source", "outputs"}]
  BY <1>0 DEF TypeOK, FileState
<1>2. ASSUME FailJob(w), \A f \in Files : stored'[j][f] # "sending"
      PROVE  (Busy(w)' => StageOK(w)') /\ RestOK(j)'
  BY <1>0, <1>2, FailJobEnds DEF Ends, Busy, RestOK
<1>3. ASSUME NEW step \in BusyAt, GoTo(w, step)
      PROVE  /\ cur'[w] = j /\ pc'[w] = step /\ status'[j] = "processing"
             /\ RestOK(j)'
  BY <1>0, <1>3, GoToStays DEF Stays, RestOK
<1>4. CASE StartDownload(w)
  <2>1. UNCHANGED dataVars /\ pc[w] = "fetch"
    BY <1>4 DEF StartDownload
  <2>2. CASE GoTo(w, "fetching")
    BY <1>0, <1>3, <2>1, <2>2 DEF StageOK, dataVars
  <2>3. CASE FailJob(w)
    BY <1>0, <1>2, <2>1, <2>3 DEF StageOK, dataVars
  <2> QED BY <1>4, <2>2, <2>3 DEF StartDownload
<1>5. CASE FinishDownload(w)
  <2>1. UNCHANGED <<result, stored>> /\ pc[w] = "fetching"
    BY <1>5 DEF FinishDownload
  <2>2. CASE GoTo(w, "validate") /\ temp' = [temp EXCEPT ![j] = @ \cup {"source"}]
    <3>1. "source" \in temp'[j]
      BY <1>0, <1>1, <2>2
    <3> QED BY <1>0, <1>3, <2>1, <2>2, <3>1 DEF StageOK
  <2>3. CASE FailJob(w)
    BY <1>0, <1>2, <2>1, <2>3 DEF StageOK
  <2> QED BY <1>5, <2>2, <2>3 DEF FinishDownload
<1>6. CASE ValidateSource(w)
  <2>1. UNCHANGED dataVars /\ pc[w] = "validate"
    BY <1>6 DEF ValidateSource
  <2>2. CASE GoTo(w, "probe")
    BY <1>0, <1>3, <2>1, <2>2 DEF StageOK, dataVars
  <2>3. CASE FailJob(w)
    BY <1>0, <1>2, <2>1, <2>3 DEF StageOK, dataVars
  <2> QED BY <1>6, <2>2, <2>3 DEF ValidateSource
<1>7. CASE StartTranscode(w)
  <2>1. UNCHANGED dataVars /\ pc[w] = "probe"
    BY <1>7 DEF StartTranscode
  <2>2. CASE GoTo(w, "encode")
    BY <1>0, <1>3, <2>1, <2>2 DEF StageOK, dataVars
  <2>3. CASE FailJob(w)
    BY <1>0, <1>2, <2>1, <2>3 DEF StageOK, dataVars
  <2> QED BY <1>7, <2>2, <2>3 DEF StartTranscode
<1>8. CASE FinishTranscode(w)
  <2>1. UNCHANGED stored /\ pc[w] = "encode"
    BY <1>8 DEF FinishTranscode
  <2>2. ASSUME NEW files \in SUBSET Files, GoTo(w, "upload"),
               result' = [result EXCEPT ![j] = files],
               temp' = [temp EXCEPT ![j] = @ \cup {"outputs" : f \in files}]
        PROVE  (Busy(w)' => StageOK(w)') /\ RestOK(j)'
    <3>1. result'[j] = files
      BY <1>0, <1>1, <2>2
    <3>2. files # {} => "outputs" \in temp'[j]
      BY <1>0, <1>1, <2>2
    <3> QED BY <1>0, <1>3, <2>1, <2>2, <3>1, <3>2 DEF StageOK
  <2>3. CASE FailJob(w)
    BY <1>0, <1>2, <2>1, <2>3 DEF StageOK
  <2> QED BY <1>8, <2>2, <2>3 DEF FinishTranscode
<1>9. ASSUME NEW f \in Files, StartUpload(w, f)
      PROVE  (Busy(w)' => StageOK(w)') /\ RestOK(j)'
  <2>1. UNCHANGED <<temp, result>> /\ pc[w] = "upload" /\ f \in result[j]
    BY <1>9 DEF StartUpload, Unsent
  <2>2. CASE GoTo(w, "sending") /\ stored' = [stored EXCEPT ![j][f] = "sending"]
    <3>1. \A g \in Files :
             stored'[j][g] = IF g = f THEN "sending" ELSE stored[j][g]
      BY <1>0, <1>1, <2>2
    <3> QED BY <1>0, <1>3, <2>1, <2>2, <3>1 DEF StageOK
  <2>3. CASE FailJob(w) /\ UNCHANGED stored
    BY <1>0, <1>2, <2>1, <2>3 DEF StageOK
  <2> QED BY <1>9, <2>2, <2>3 DEF StartUpload
<1>10. ASSUME NEW f \in Files, FinishUpload(w, f)
       PROVE  (Busy(w)' => StageOK(w)') /\ RestOK(j)'
  <2>1. /\ UNCHANGED <<temp, result>>
        /\ pc[w] = "sending" /\ stored[j][f] = "sending"
    BY <1>10 DEF FinishUpload
  <2>2. ASSUME NEW s \in FileState \ {"sending"}, stored' = [stored EXCEPT ![j][f] = s]
        PROVE  \A g \in Files : /\ stored'[j][g] # "sending"
                                /\ stored'[j][g] = IF g = f THEN s ELSE stored[j][g]
    BY <1>0, <1>1, <2>1, <2>2 DEF StageOK
  <2>3. CASE GoTo(w, "upload") /\ stored' = [stored EXCEPT ![j][f] = "whole"]
    <3>1. \A g \in Files : /\ stored'[j][g] # "sending"
                           /\ stored'[j][g] = IF g = f THEN "whole" ELSE stored[j][g]
      BY <2>2, <2>3 DEF FileState
    <3> QED BY <1>0, <1>3, <2>1, <2>3, <3>1 DEF StageOK
  <2>4. ASSUME FailJob(w), NEW s \in AfterFailedUpload,
               stored' = [stored EXCEPT ![j][f] = s]
        PROVE  (Busy(w)' => StageOK(w)') /\ RestOK(j)'
    <3>1. s \in FileState \ {"sending"}
      BY DEF AfterFailedUpload, FileState
    <3> QED BY <1>2, <2>2, <2>4, <3>1
  <2> QED BY <1>10, <2>3, <2>4 DEF FinishUpload
<1>11. CASE CleanupTemp(w)
  <2>1. /\ UNCHANGED <<result, stored>> /\ pc[w] = "upload"
        /\ Unsent(j) = {} /\ GoTo(w, "finish")
    BY <1>11 DEF CleanupTemp
  <2>2. \A f \in result[j] : stored[j][f] = "whole"
    BY <1>0, <1>1, <2>1 DEF Unsent, StageOK, FileState
  <2> QED BY <1>0, <1>3, <2>1, <2>2 DEF StageOK
<1>12. CASE FinishJob(w)
  <2>1. /\ UNCHANGED dataVars /\ pc[w] = "finish" /\ EndJob(w, "completed")
    BY <1>12 DEF FinishJob
  <2>2. Ends(j, w) /\ status'[j] = "completed"
    BY <1>0, <2>1, EndJobEnds DEF Settled
  <2> QED BY <1>0, <2>1, <2>2 DEF StageOK, Ends, Busy, RestOK, dataVars
<1> QED BY <1>4, <1>5, <1>6, <1>7, <1>8, <1>9, <1>10, <1>11, <1>12
        DEF Conversion

\* Where a job is in the channel after a send and after a receive.
LEMMA PlacesAfterSend ==
  ASSUME queue \in Seq(Jobs), NEW j \in Jobs, queue' = Append(queue, j), NEW k \in Jobs
  PROVE  Places(k)' = IF k = j THEN Places(k) \cup {Len(queue) + 1} ELSE Places(k)
<1>1. /\ Len(queue) \in Nat /\ DOMAIN queue = 1..Len(queue)
      /\ DOMAIN queue' = 1..(Len(queue) + 1)
      /\ queue'[Len(queue) + 1] = j
      /\ \A i \in 1..Len(queue) : queue'[i] = queue[i]
  OBVIOUS
<1> QED BY <1>1 DEF Places

\* A receive moves every other entry of the channel up by one.
LEMMA PlacesAfterReceive ==
  ASSUME queue \in Seq(Jobs), queue # <<>>, queue' = Tail(queue), NEW k \in Jobs
  PROVE  /\ \A i \in Places(k)' : i + 1 \in Places(k)
         /\ \A i \in Places(k) : i # 1 => i - 1 \in Places(k)'
         /\ 1 \in Places(k) <=> k = Head(queue)
         /\ Places(k)' \subseteq Nat \ {0} /\ Places(k) \subseteq Nat \ {0}
<1>1. /\ Len(queue) \in Nat \ {0} /\ DOMAIN queue = 1..Len(queue)
      /\ DOMAIN queue' = 1..(Len(queue) - 1)
      /\ \A i \in 1..(Len(queue) - 1) : queue'[i] = queue[i + 1]
      /\ Head(queue) = queue[1]
  OBVIOUS
<1> QED BY <1>1 DEF Places

\* The receive takes the only entry of its job and keeps all the others.
LEMMA ReceiveMoves ==
  ASSUME PoolInv, NEW w \in Workers, Receive(w), NEW k \in Jobs
  PROVE  /\ Head(queue) \in Jobs
         /\ status[Head(queue)] = "pending" /\ verdict[Head(queue)] = "queued"
         /\ k = Head(queue) => Places(k)' = {}
         /\ k # Head(queue) => (Places(k)' # {} <=> Places(k) # {})
         /\ \A m, n \in Places(k)' : m = n
<1>1. /\ queue \in Seq(Jobs) /\ queue # <<>> /\ queue' = Tail(queue)
      /\ Head(queue) \in Jobs
  BY DEF PoolInv, TypeOK, Receive
<1>2. /\ \A i \in Places(k)' : i + 1 \in Places(k)
      /\ \A i \in Places(k) : i # 1 => i - 1 \in Places(k)'
      /\ 1 \in Places(k) <=> k = Head(queue)
      /\ Places(k)' \subseteq Nat \ {0} /\ Places(k) \subseteq Nat \ {0}
  BY <1>1, PlacesAfterReceive
<1>3. \A m, n \in Places(k) : m = n
  BY DEF PoolInv, EveryJobInOnePlace
<1>4. 1 \in Places(Head(queue))
  BY <1>1, PlacesAfterReceive
<1>5. status[Head(queue)] = "pending" /\ verdict[Head(queue)] = "queued"
  BY <1>1, <1>4 DEF PoolInv, EveryJobInOnePlace
<1>6. k = Head(queue) => Places(k)' = {}
  BY <1>2, <1>3
<1>7. k # Head(queue) => (Places(k)' # {} <=> Places(k) # {})
  BY <1>2
<1>8. \A m, n \in Places(k)' : m = n
  BY <1>2, <1>3
<1> QED BY <1>1, <1>5, <1>6, <1>7, <1>8

\* What worker.New makes satisfies the invariant.
LEMMA PoolInit == Init => PoolInv
<1> SUFFICES ASSUME Init PROVE PoolInv
  OBVIOUS
<1>1. TypeOK
  BY TypeInit
<1>2. EveryJobInOnePlace
  BY PoolAssumption DEF Init, EveryJobInOnePlace, Places, Holders
<1>3. \A j \in Jobs : RestOK(j)
  BY DEF Init, RestOK
<1> QED BY <1>1, <1>2, <1>3 DEF Init, PoolInv, Busy, BusyAt, AllWorkersDone

\* A step that leaves the channel, the states and the workers' jobs alone
\* leaves every job where it is.
LEMMA SamePlaces ==
  ASSUME EveryJobInOnePlace, UNCHANGED <<queue, verdict, status, cur>>
  PROVE  EveryJobInOnePlace'
  BY DEF EveryJobInOnePlace, Places, Holders

\* Every step of the service, of Start, SubmitJob or a worker keeps it.
LEMMA PoolNext == PoolInv /\ [Next]_vars => PoolInv'
<1> SUFFICES ASSUME PoolInv, [Next]_vars PROVE PoolInv'
  OBVIOUS
<1>1. TypeOK /\ TypeOK'
  BY TypeNext DEF PoolInv
<1> USE DEF BusyAt
<1>2. CASE UNCHANGED vars \/ Terminated \/ ServiceCancel
  <2>1. UNCHANGED <<starter, queue, verdict, status, pc, cur, temp, result, stored>>
    BY <1>2 DEF vars, poolVars, jobVars, dataVars, lineVars, Terminated, ServiceCancel
  <2> QED BY <1>1, <2>1, SamePlaces
          DEF PoolInv, Busy, StageOK, RestOK, AllWorkersDone
<1>3. CASE StartWorkers
  <2>1. EveryJobInOnePlace'
    BY <1>3, SamePlaces DEF StartWorkers, PoolInv, lineVars
  <2>2. \A w \in Workers : pc[w] = "none" /\ pc'[w] = "select" /\ cur'[w] = NoJob
    BY <1>1, <1>3 DEF StartWorkers, PoolInv, Busy
  <2>3. \A j \in Jobs : RestOK(j)'
    BY <1>3 DEF StartWorkers, PoolInv, RestOK, dataVars
  <2> QED BY <1>1, <1>3, <2>1, <2>2, <2>3 DEF StartWorkers, PoolInv, Busy
<1>4. CASE CancelPool \/ CloseQueue \/ PoolStopped
  <2>1. UNCHANGED <<queue, verdict, status, pc, cur, temp, result, stored>>
    BY <1>4 DEF jobVars, dataVars, lineVars, CancelPool, CloseQueue, PoolStopped
  <2>2. starter' # "init" /\ (starter' = "stopped" => AllWorkersDone)
    BY <1>4 DEF CancelPool, CloseQueue, PoolStopped
  <2> QED BY <1>1, <2>1, <2>2, SamePlaces
          DEF PoolInv, Busy, StageOK, RestOK, AllWorkersDone
<1>5. ASSUME NEW j \in Jobs, SubmitJob(j) PROVE PoolInv'
  <2>1. /\ UNCHANGED <<starter, pc, cur, temp, result, stored>>
        /\ status[j] = "new" /\ status'[j] = "pending"
        /\ \A k \in Jobs \ {j} : status'[k] = status[k] /\ verdict'[k] = verdict[k]
    BY <1>1, <1>5 DEF SubmitJob, TypeOK, poolVars, dataVars
  <2>2. EveryJobInOnePlace'
    <3> SUFFICES ASSUME NEW k \in Jobs
                 PROVE  /\ Places(k)' # {} <=> status'[k] = "pending" /\ verdict'[k] = "queued"
                        /\ Holders(k)' # {} <=> status'[k] = "processing"
                        /\ \A m, n \in Places(k)' : m = n
                        /\ \A v, w \in Holders(k)' : v = w
      BY DEF EveryJobInOnePlace
    <3>1. Holders(k)' = Holders(k)
      BY <2>1 DEF Holders
    <3>2. Places(j) = {} /\ Holders(j) = {}
      BY <2>1 DEF PoolInv, EveryJobInOnePlace
    <3>3. CASE queue' = queue /\ verdict'[j] # "queued"
      <4>1. Places(k)' = Places(k)
        BY <3>3 DEF Places
      <4> QED BY <2>1, <3>1, <3>2, <3>3, <4>1 DEF PoolInv, EveryJobInOnePlace
    <3>4. CASE queue' = Append(queue, j) /\ verdict'[j] = "queued"
      <4>1. Places(k)' = IF k = j THEN Places(k) \cup {Len(queue) + 1} ELSE Places(k)
        BY <1>1, <3>4, PlacesAfterSend DEF TypeOK
      <4> QED BY <2>1, <3>1, <3>2, <3>4, <4>1 DEF PoolInv, EveryJobInOnePlace
    <3> QED BY <1>1, <1>5, <3>3, <3>4 DEF SubmitJob, TypeOK
  <2>3. \A w \in Workers : Busy(w) => StageOK(w)'
    BY <2>1 DEF PoolInv, StageOK
  <2>4. \A k \in Jobs : RestOK(k)'
    BY <2>1 DEF PoolInv, RestOK
  <2> QED BY <1>1, <2>1, <2>2, <2>3, <2>4 DEF PoolInv, Busy, AllWorkersDone
<1>6. ASSUME NEW w \in Workers, TakeJob(w) \/ RejectUnknownTemplate(w)
      PROVE  PoolInv'
  <2>0. Receive(w)
    BY <1>6 DEF TakeJob, RejectUnknownTemplate
  <2>h. PICK h \in Jobs : h = Head(queue)
    BY <1>1, <2>0, ReceiveTyped
  <2>1. /\ h \in Jobs /\ status[h] = "pending" /\ verdict[h] = "queued"
        /\ \A k \in Jobs :
             /\ k = h => Places(k)' = {}
             /\ k # h => (Places(k)' # {} <=> Places(k) # {})
             /\ \A m, n \in Places(k)' : m = n
    <3>1. /\ status[h] = "pending" /\ verdict[h] = "queued"
      BY <2>0, <2>h, ReceiveMoves
    <3>2. ASSUME NEW k \in Jobs
          PROVE  /\ k = h => Places(k)' = {}
                 /\ k # h => (Places(k)' # {} <=> Places(k) # {})
                 /\ \A m, n \in Places(k)' : m = n
      BY <2>0, <2>h, ReceiveMoves
    <3> QED BY <3>1, <3>2
  <2>2. UNCHANGED <<starter, verdict, temp, result, stored>> /\ pc[w] = "select"
    BY <2>0 DEF Receive, poolVars, dataVars
  <2>3. Holders(h) = {}
    BY <2>1 DEF PoolInv, EveryJobInOnePlace
  <2>4. \A k \in Jobs \ {h} : status'[k] = status[k]
    BY <1>1, <1>6, <2>h DEF TakeJob, RejectUnknownTemplate, TypeOK
  <2>5. \A v \in Workers \ {w} : pc'[v] = pc[v] /\ cur'[v] = cur[v]
    BY <1>1, <1>6 DEF TakeJob, RejectUnknownTemplate, TypeOK
  <2>6. cur[w] = NoJob
    BY <2>2 DEF PoolInv, Busy
  <2>7. \/ pc'[w] = "fetch" /\ cur'[w] = h /\ status'[h] = "processing"
        \/ pc'[w] = "select" /\ cur'[w] = NoJob /\ status'[h] = "failed"
    BY <1>1, <1>6, <2>h, <2>1, <2>2, <2>6 DEF TakeJob, RejectUnknownTemplate, TypeOK
  <2>8. EveryJobInOnePlace'
    <3> SUFFICES ASSUME NEW k \in Jobs
                 PROVE  /\ Places(k)' # {} <=> status'[k] = "pending" /\ verdict'[k] = "queued"
                        /\ Holders(k)' # {} <=> status'[k] = "processing"
                        /\ \A m, n \in Places(k)' : m = n
                        /\ \A u, v \in Holders(k)' : u = v
      BY DEF EveryJobInOnePlace
    <3>1. CASE k = h
      <4>1. \A v \in Holders(k)' : v = w
        BY <2>3, <2>5, <3>1 DEF Holders
      <4>2. Holders(k)' # {} <=> status'[k] = "processing"
        BY <2>7, <3>1, <4>1, PoolAssumption, <2>1 DEF Holders
      <4> QED BY <2>1, <2>7, <3>1, <4>1, <4>2
    <3>2. CASE k # h
      <4>1. Holders(k)' = Holders(k)
        BY <2>5, <2>6, <2>7, <3>2, PoolAssumption DEF Holders
      <4> QED BY <2>1, <2>2, <2>4, <3>2, <4>1 DEF PoolInv, EveryJobInOnePlace
    <3> QED BY <3>1, <3>2
  <2>9. \A v \in Workers : Busy(v)' => StageOK(v)'
    <3>1. ASSUME NEW v \in Workers \ {w}, Busy(v)' PROVE StageOK(v)'
      BY <2>2, <2>5, <3>1 DEF PoolInv, Busy, StageOK
    <3>2. ASSUME Busy(w)' PROVE StageOK(w)'
      <4>1. RestOK(h)
        BY <2>1 DEF PoolInv
      <4> QED BY <2>1, <2>2, <2>7, <3>2, <4>1 DEF Busy, StageOK, RestOK
    <3> QED BY <3>1, <3>2
  <2>10. \A k \in Jobs : RestOK(k)'
    <3>1. RestOK(h)'
      BY <2>1, <2>2, <2>7 DEF PoolInv, RestOK
    <3>2. \A k \in Jobs \ {h} : RestOK(k)'
      BY <2>2, <2>4 DEF PoolInv, RestOK
    <3> QED BY <3>1, <3>2
  <2>11. starter # "init" /\ starter # "stopped"
    BY <2>2 DEF PoolInv, AllWorkersDone
  <2> QED BY <1>1, <2>2, <2>5, <2>7, <2>8, <2>9, <2>10, <2>11 DEF PoolInv, Busy
<1>7. ASSUME NEW w \in Workers, WorkerExit(w) \/ Timeout(w) PROVE PoolInv'
  <2>1. /\ UNCHANGED <<starter, queue, verdict, status, cur, temp, result, stored>>
        /\ \A v \in Workers : pc'[v] = pc[v] \/ (pc[v] = "select" /\ pc'[v] = "exited")
        /\ pc[w] # "none"
    BY <1>1, <1>7 DEF WorkerExit, Timeout, GoTo, TypeOK, poolVars, dataVars, lineVars, Busy
  <2>2. EveryJobInOnePlace'
    BY <2>1, SamePlaces DEF PoolInv
  <2>3. \A v \in Workers : (Busy(v)' <=> Busy(v)) /\ (Busy(v) => StageOK(v)')
    BY <2>1 DEF PoolInv, Busy, StageOK
  <2>4. \A j \in Jobs : RestOK(j)'
    BY <2>1 DEF PoolInv, RestOK
  <2> QED BY <1>1, <2>1, <2>2, <2>3, <2>4 DEF PoolInv, AllWorkersDone
<1>8. ASSUME NEW w \in Workers, Conversion(w) PROVE PoolInv'
  <2>1. PICK j \in Jobs : j = cur[w]
    BY <1>1, <1>8, StagesBusy
  <2>2. pc[w] \in BusyAt
    BY <1>1, <1>8, StagesBusy
  <2>3. JobOnly(j, w) /\ (Stays(j, w) \/ Ends(j, w))
    BY <1>1, <1>8, <2>1, ConversionLocal
  <2>4. (Busy(w)' => StageOK(w)') /\ RestOK(j)'
    BY <1>8, <2>1, ConversionFiles
  <2>5. \A v \in Workers \ {w} : cur[v] # j
    BY <2>1 DEF PoolInv, EveryJobInOnePlace, Holders
  <2>6. UNCHANGED <<starter, queue, verdict>>
    BY <2>3 DEF JobOnly, poolVars, lineVars
  <2>7. status[j] = "processing"
    BY <2>1 DEF PoolInv, EveryJobInOnePlace, Holders
  <2>8. EveryJobInOnePlace'
    <3> SUFFICES ASSUME NEW k \in Jobs
                 PROVE  /\ Places(k)' # {} <=> status'[k] = "pending" /\ verdict'[k] = "queued"
                        /\ Holders(k)' # {} <=> status'[k] = "processing"
                        /\ \A m, n \in Places(k)' : m = n
                        /\ \A u, v \in Holders(k)' : u = v
      BY DEF EveryJobInOnePlace
    <3>1. Places(k)' = Places(k)
      BY <2>6 DEF Places
    <3>2. CASE k = j
      <4>1. \A v \in Holders(k)' : v = w
        BY <2>3, <2>5, <3>2 DEF Holders, JobOnly
      <4>2. Holders(k)' # {} <=> status'[k] = "processing"
        BY <2>3, <2>7, <3>2, <4>1, PoolAssumption DEF Holders, Stays, Ends, Settled
      <4>3. status'[k] # "pending"
        BY <2>3, <2>7, <3>2 DEF Stays, Ends, Settled
      <4>4. Places(k) = {}
        BY <2>7, <3>2 DEF PoolInv, EveryJobInOnePlace
      <4> QED BY <3>1, <4>1, <4>2, <4>3, <4>4
    <3>3. CASE k # j
      <4>1. \A v \in Workers : cur'[v] = k <=> cur[v] = k
        BY <2>1, <2>3, <3>3, PoolAssumption DEF JobOnly, Stays, Ends
      <4>2. Holders(k)' = Holders(k)
        BY <4>1 DEF Holders
      <4>3. status'[k] = status[k]
        BY <2>3, <3>3 DEF JobOnly
      <4> QED BY <2>6, <3>1, <4>2, <4>3 DEF PoolInv, EveryJobInOnePlace
    <3> QED BY <3>2, <3>3
  <2>9. ASSUME NEW v \in Workers \ {w}, Busy(v)' PROVE StageOK(v)'
    <3>1. /\ pc'[v] = pc[v] /\ cur'[v] = cur[v]
          /\ cur[v] \in Jobs \ {j} /\ StageOK(v)
      BY <1>1, <2>3, <2>5, <2>9 DEF JobOnly, PoolInv, Busy, TypeOK
    <3>2. /\ temp'[cur[v]] = temp[cur[v]]
          /\ result'[cur[v]] = result[cur[v]]
          /\ stored'[cur[v]] = stored[cur[v]]
      BY <2>3, <3>1 DEF JobOnly
    <3> QED BY <3>1, <3>2 DEF StageOK
  <2>10. \A k \in Jobs \ {j} : RestOK(k)'
    BY <2>3 DEF JobOnly, PoolInv, RestOK
  <2>11. \A v \in Workers : ~Busy(v)' => cur'[v] = NoJob
    BY <2>3 DEF JobOnly, PoolInv, Busy, Stays, Ends
  <2>12. starter # "init" /\ starter # "stopped"
    BY <2>2 DEF PoolInv, AllWorkersDone
  <2> QED BY <1>1, <2>4, <2>6, <2>8, <2>9, <2>10, <2>11, <2>12 DEF PoolInv
<1> QED BY <1>2, <1>3, <1>4, <1>5, <1>6, <1>7, <1>8 DEF Next, Starter, Worker

\* Every reachable state satisfies the inductive invariant.
THEOREM PoolInvariant == Spec => []PoolInv
<1>1. Init => PoolInv
  BY PoolInit
<1>2. PoolInv /\ [Next]_vars => PoolInv'
  BY PoolNext
<1> QED BY <1>1, <1>2, PTL DEF Spec

\* However many handlers submit and workers receive, a job SubmitJob has
\* taken is in the channel once, with one worker, or settled: never lost
\* while the process lives, never run twice.
THEOREM JobsStayInOnePlace == Spec => []EveryJobInOnePlace
<1>1. PoolInv => EveryJobInOnePlace
  BY DEF PoolInv
<1> QED BY <1>1, PoolInvariant, PTL

\* A job is reported completed only with every listed file in storage.
THEOREM CompletedJobsAreStored == Spec => []CompletedMeansStored
<1>1. PoolInv => CompletedMeansStored
  BY DEF PoolInv, CompletedMeansStored, RestOK
<1> QED BY <1>1, PoolInvariant, PTL

\* No clean-up of one job takes the files another job is about to read.
THEOREM StagesFindTheirFiles == Spec => []NeededFilesPresent
<1>1. PoolInv => NeededFilesPresent
  BY DEF PoolInv, NeededFilesPresent, Busy, BusyAt, StageOK, Unsent
<1> QED BY <1>1, PoolInvariant, PTL

\* Start returns only when no job is being processed and no file is half
\* sent.
THEOREM StartReturnsQuiet == Spec => []StoppedMeansQuiet
<1>1. PoolInv => StoppedMeansQuiet
  <2> SUFFICES ASSUME PoolInv, starter = "stopped" PROVE StoppedMeansQuiet
    BY DEF StoppedMeansQuiet
  <2>1. \A w \in Workers : cur[w] = NoJob
    BY DEF PoolInv, AllWorkersDone, Busy, BusyAt
  <2>2. \A j \in Jobs : status[j] # "processing"
    BY <2>1, PoolAssumption DEF PoolInv, EveryJobInOnePlace, Holders
  <2> QED BY <2>2 DEF PoolInv, RestOK, StoppedMeansQuiet
<1> QED BY <1>1, PoolInvariant, PTL

\* Nothing touches a settled job: its state, its list of outputs and its
\* files in storage stay as they were when it was settled.
THEOREM SettledJobsAreFinal == Spec => SettledIsFinal
<1> DEFINE Kept == \A j \in Jobs : status[j] \in Settled =>
                      /\ status'[j] = status[j]
                      /\ stored'[j] = stored[j]
                      /\ result'[j] = result[j]
<1>1. PoolInv /\ [Next]_vars => [Kept]_vars
  <2> SUFFICES ASSUME PoolInv, Next, NEW j \in Jobs, status[j] \in Settled
               PROVE  /\ status'[j] = status[j]
                      /\ stored'[j] = stored[j]
                      /\ result'[j] = result[j]
    OBVIOUS
  <2>0. TypeOK
    BY DEF PoolInv
  <2>1. CASE ServiceCancel \/ Starter \/ Terminated
    BY <2>1 DEF ServiceCancel, Starter, StartWorkers, CancelPool, CloseQueue,
                PoolStopped, Terminated, vars, jobVars, dataVars
  <2>2. ASSUME NEW k \in Jobs, SubmitJob(k)
        PROVE  UNCHANGED <<stored, result>> /\ status'[j] = status[j]
    BY <2>0, <2>2 DEF SubmitJob, TypeOK, Settled, dataVars
  <2>3. ASSUME NEW w \in Workers, TakeJob(w) \/ RejectUnknownTemplate(w)
        PROVE  UNCHANGED <<stored, result>> /\ status'[j] = status[j]
    <3>0. Receive(w)
      BY <2>3 DEF TakeJob, RejectUnknownTemplate
    <3>1. status[Head(queue)] = "pending"
      BY <3>0, ReceiveMoves
    <3>2. j # Head(queue)
      BY <3>1 DEF Settled
    <3>3. status'[j] = status[j]
      BY <2>0, <2>3, <3>2 DEF TakeJob, RejectUnknownTemplate, TypeOK
    <3> QED BY <3>0, <3>3 DEF Receive, dataVars
  <2>4. ASSUME NEW w \in Workers, WorkerExit(w) \/ Timeout(w)
        PROVE  UNCHANGED <<status, stored, result>>
    BY <2>4 DEF WorkerExit, Timeout, GoTo, dataVars
  <2>5. ASSUME NEW w \in Workers, Conversion(w)
        PROVE  /\ status'[j] = status[j]
               /\ stored'[j] = stored[j]
               /\ result'[j] = result[j]
    <3>1. JobOnly(cur[w], w) /\ cur[w] \in Jobs
      BY <2>0, <2>5, ConversionLocal, StagesBusy
    <3>2. status[cur[w]] = "processing"
      BY <3>1 DEF PoolInv, EveryJobInOnePlace, Holders
    <3> QED BY <3>1, <3>2 DEF JobOnly, Settled
  <2> QED BY <2>1, <2>2, <2>3, <2>4, <2>5 DEF Next, Worker
<1> QED BY <1>1, PoolInvariant, PTL DEF Spec, SettledIsFinal
-------------------------------------------------------------------------------
(* Jobs that were still waiting when the pool was cancelled.               *)

Early == {"fetch", "fetching", "validate", "probe"}

\* Such a job may still be taken, but gets no further than the call of the
\* transcoder, which looks at the context.
Late(j) ==
    /\ WorkerCtxDone
    /\ status[j] \in {"pending", "processing", "failed"}
    /\ \A w \in Workers : cur[w] = j => pc[w] \in Early

LEMMA WaitingIsLate ==
  ASSUME PoolInv, NEW j \in Jobs, status[j] = "pending", WorkerCtxDone
  PROVE  Late(j)
<1>1. Holders(j) = {}
  BY DEF PoolInv, EveryJobInOnePlace
<1> QED BY <1>1 DEF Holders, Late

LEMMA LateStays ==
  ASSUME PoolInv, NEW j \in Jobs, Late(j), [Next]_vars
  PROVE  Late(j)'
<1>0. TypeOK /\ \A w \in Workers : cur[w] = j => pc[w] \in Early
  BY DEF PoolInv, Late
<1>1. CASE ServiceCancel \/ Starter \/ Terminated \/ UNCHANGED vars
  BY <1>1 DEF ServiceCancel, Starter, StartWorkers, CancelPool, CloseQueue, PoolStopped,
              Terminated, vars, poolVars, jobVars, Late, WorkerCtxDone
<1>2. ASSUME NEW k \in Jobs, SubmitJob(k) PROVE Late(j)'
  BY <1>0, <1>2 DEF SubmitJob, TypeOK, poolVars, Late, WorkerCtxDone
<1>3. ASSUME NEW w \in Workers, TakeJob(w) \/ RejectUnknownTemplate(w) PROVE Late(j)'
  <2>0. Receive(w)
    BY <1>3 DEF TakeJob, RejectUnknownTemplate
  <2>1. Head(queue) \in Jobs /\ UNCHANGED starter
    BY <2>0, ReceiveMoves DEF Receive, poolVars
  <2>2. status'[j] \in {"pending", "processing", "failed"}
    BY <1>0, <1>3, <2>1 DEF TakeJob, RejectUnknownTemplate, TypeOK, Late
  <2>3. ASSUME NEW v \in Workers, cur'[v] = j PROVE pc'[v] \in Early
    BY <1>0, <1>3, <2>3 DEF TakeJob, RejectUnknownTemplate, TypeOK, Early
  <2> QED BY <2>1, <2>2, <2>3 DEF Late, WorkerCtxDone
<1>4. ASSUME NEW w \in Workers, WorkerExit(w) PROVE Late(j)'
  <2>1. pc[w] = "select" /\ cur' = cur /\ pc' = [pc EXCEPT ![w] = "exited"]
        /\ UNCHANGED <<starter, status>>
    BY <1>4 DEF WorkerExit, GoTo, poolVars
  <2>2. cur[w] # j
    BY <1>0, <2>1 DEF Early
  <2> QED BY <1>0, <2>1, <2>2 DEF TypeOK, Late, WorkerCtxDone
<1>5. ASSUME NEW w \in Workers, Timeout(w) PROVE Late(j)'
  BY <1>5 DEF Timeout, poolVars, Late, WorkerCtxDone
<1>6. ASSUME NEW w \in Workers, Conversion(w) PROVE Late(j)'
  <2>1. JobOnly(cur[w], w) /\ (Stays(cur[w], w) \/ Ends(cur[w], w)) /\ cur[w] \in Jobs
    BY <1>0, <1>6, ConversionLocal, StagesBusy
  <2>2. UNCHANGED starter
    BY <2>1 DEF JobOnly, poolVars
  <2>3. CASE cur[w] # j
    BY <2>1, <2>2, <2>3, PoolAssumption DEF JobOnly, Stays, Ends, Late, WorkerCtxDone
  <2>4. CASE cur[w] = j
    <3>1. pc[w] \in Early /\ JobCtxDone(w)
      BY <1>0, <2>4 DEF JobCtxDone, Late
    <3>2. StartDownload(w) \/ FinishDownload(w) \/ ValidateSource(w) \/ StartTranscode(w)
      BY <1>6, <3>1 DEF Conversion, FinishTranscode, StartUpload, FinishUpload, CleanupTemp,
         FinishJob, Early
    <3>3. FailJob(w) \/ \E step \in Early : GoTo(w, step)
      BY <3>1, <3>2 DEF StartDownload, FinishDownload, ValidateSource, StartTranscode, Early
    <3>4. CASE FailJob(w)
      <4>1. status'[j] = "failed" /\ cur'[w] = NoJob
        BY <1>0, <2>4, <3>4 DEF FailJob, EndJob, TypeOK
      <4>2. \A v \in Workers \ {w} : pc'[v] = pc[v] /\ cur'[v] = cur[v]
        BY <2>1 DEF JobOnly
      <4> QED BY <2>2, <4>1, <4>2, PoolAssumption DEF Late, WorkerCtxDone
    <3>5. ASSUME NEW step \in Early, GoTo(w, step) PROVE Late(j)'
      BY <1>0, <2>2, <3>5 DEF GoTo, TypeOK, Late, WorkerCtxDone
    <3> QED BY <3>3, <3>4, <3>5
  <2> QED BY <2>3, <2>4
<1> QED BY <1>1, <1>2, <1>3, <1>4, <1>5, <1>6 DEF Next, Worker

\* A job that is pending when the pool's context is cancelled never becomes
\* "completed", whichever worker takes it from the channel and whatever it
\* does with its source.
THEOREM WaitingJobsStayIncomplete == Spec => LateJobsNeverComplete
<1>1. ASSUME NEW j \in Jobs
      PROVE  Spec => [](status[j] = "pending" /\ WorkerCtxDone => [](status[j] # "completed"))
  <2>1. PoolInv /\ status[j] = "pending" /\ WorkerCtxDone => Late(j)
    BY WaitingIsLate
  <2>2. PoolInv /\ Late(j) /\ [Next]_vars => Late(j)'
    BY LateStays
  <2>3. Late(j) => status[j] # "completed"
    BY DEF Late
  <2> QED BY <2>1, <2>2, <2>3, PoolInvariant, PTL DEF Spec
<1> QED BY <1>1 DEF LateJobsNeverComplete
-------------------------------------------------------------------------------
(* A job goes forward only: what the liveness properties rest on, besides  *)
(* fairness.  A worker inside processJob always has a step, or waits for   *)
(* the one file it is sending; and each of its steps leaves it less to do. *)

\* What a worker is sending is a file of the transcoder's list, and one.
SentFileIsListed ==
    \A w \in Workers : pc[w] = "sending" =>
        \E f \in result[cur[w]] :
            \A g \in Files : stored[cur[w]][g] = "sending" <=> g = f

Stages == BusyAt \ {"sending"}

\* The stages that are over for a job whose worker is at p.
Over(p) ==
    CASE p = "fetch"    -> {}
      [] p = "fetching" -> {"fetch"}
      [] p = "validate" -> {"fetch", "fetching"}
      [] p = "probe"    -> {"fetch", "fetching", "validate"}
      [] p = "encode"   -> {"fetch", "fetching", "validate", "probe"}
      [] p \in {"upload", "sending"} -> {"fetch", "fetching", "validate", "probe", "encode"}
      [] p = "finish"   -> Stages \ {"finish"}

\* What is left to do for a job: its stages, and the start and the end of
\* the upload of each file.  Nothing is left for a settled job.
StagesLeft(j) ==
    {s \in Stages : status[j] \notin Settled /\ \A w \in Holders(j) : s \notin Over(pc[w])}
FilesLeft(j) ==
    {u \in Files \X {"start", "end"} :
        /\ status[j] \notin Settled
        /\ \/ stored[j][u[1]] = "absent"
           \/ stored[j][u[1]] = "sending" /\ u[2] = "end"}

\* Nothing that was done for a job is ever to be done again, and a step of
\* its worker does something: with finitely many files, a job ends after
\* finitely many steps of its own, whatever the others do.
JobsMoveOn ==
    [][\A j \in Jobs :
          /\ StagesLeft(j)' \subseteq StagesLeft(j)
          /\ FilesLeft(j)' \subseteq FilesLeft(j)
          /\ (\E w \in Holders(j) : Conversion(w)) =>
                StagesLeft(j)' # StagesLeft(j) \/ FilesLeft(j)' # FilesLeft(j)]_vars

\* A step of a conversion fails or ends the job, passes a stage, or starts
\* or ends the upload of a file.
LEMMA ConversionOutcomes ==
  ASSUME PoolInv, NEW w \in Workers, NEW j \in Jobs, j = cur[w], Conversion(w)
  PROVE  \/ Ends(j, w)
         \/ /\ UNCHANGED <<status, cur, stored>> /\ pc'[w] \in Stages
            /\ pc[w] \in Stages /\ Over(pc[w]) \subseteq Over(pc'[w])
            /\ pc[w] \in Over(pc'[w]) /\ pc[w] \notin Over(pc[w])
            /\ pc' = [pc EXCEPT ![w] = pc'[w]]
         \/ \E f \in result[j] :
               /\ pc[w] = "upload" /\ stored[j][f] = "absent"
               /\ pc' = [pc EXCEPT ![w] = "sending"]
               /\ stored' = [stored EXCEPT ![j][f] = "sending"]
               /\ UNCHANGED <<status, cur, result>>
         \/ \E f \in Files :
               /\ pc[w] = "sending" /\ stored[j][f] = "sending"
               /\ pc' = [pc EXCEPT ![w] = "upload"]
               /\ stored' = [stored EXCEPT ![j][f] = "whole"]
               /\ UNCHANGED <<status, cur>>
<1>0. TypeOK /\ cur[w] \in Jobs
  BY DEF PoolInv
<1>1. FailJob(w) => Ends(j, w)
  BY <1>0, FailJobEnds
<1> DEFINE Passes(step) ==
      /\ GoTo(w, step) /\ UNCHANGED stored /\ pc[w] \in Stages /\ step \in Stages
      /\ Over(pc[w]) \subseteq Over(step) /\ pc[w] \in Over(step) /\ pc[w] \notin Over(pc[w])
<1>2. ASSUME NEW step, Passes(step)
      PROVE  /\ UNCHANGED <<status, cur, stored>> /\ pc'[w] \in Stages
             /\ pc[w] \in Stages /\ Over(pc[w]) \subseteq Over(pc'[w])
             /\ pc[w] \in Over(pc'[w]) /\ pc[w] \notin Over(pc[w])
             /\ pc' = [pc EXCEPT ![w] = pc'[w]]
  <2>1. pc'[w] = step
    BY <1>0, <1>2 DEF GoTo, TypeOK
  <2> QED BY <1>2, <2>1 DEF GoTo
<1>3. CASE StartDownload(w)
  <2>1. FailJob(w) \/ Passes("fetching")
    BY <1>3 DEF StartDownload, dataVars, Over, Stages, BusyAt
  <2> HIDE DEF Passes
  <2> QED BY <1>1, <1>2, <2>1
<1>4. CASE FinishDownload(w)
  <2>1. FailJob(w) \/ Passes("validate")
    BY <1>4 DEF FinishDownload, Over, Stages, BusyAt
  <2> HIDE DEF Passes
  <2> QED BY <1>1, <1>2, <2>1
<1>5. CASE ValidateSource(w)
  <2>1. FailJob(w) \/ Passes("probe")
    BY <1>5 DEF ValidateSource, dataVars, Over, Stages, BusyAt
  <2> HIDE DEF Passes
  <2> QED BY <1>1, <1>2, <2>1
<1>6. CASE StartTranscode(w)
  <2>1. FailJob(w) \/ Passes("encode")
    BY <1>6 DEF StartTranscode, dataVars, Over, Stages, BusyAt
  <2> HIDE DEF Passes
  <2> QED BY <1>1, <1>2, <2>1
<1>7. CASE FinishTranscode(w)
  <2>1. FailJob(w) \/ Passes("upload")
    BY <1>7 DEF FinishTranscode, Over, Stages, BusyAt
  <2> HIDE DEF Passes
  <2> QED BY <1>1, <1>2, <2>1
<1>8. CASE CleanupTemp(w)
  <2>1. Passes("finish")
    BY <1>8 DEF CleanupTemp, Over, Stages, BusyAt
  <2> HIDE DEF Passes
  <2> QED BY <1>2, <2>1
<1>9. CASE FinishJob(w)
  BY <1>0, <1>9, EndJobEnds DEF FinishJob, Settled
<1>10. ASSUME NEW f \in Files, StartUpload(w, f)
       PROVE  \/ Ends(j, w)
              \/ /\ f \in result[j] /\ pc[w] = "upload" /\ stored[j][f] = "absent"
                 /\ pc' = [pc EXCEPT ![w] = "sending"]
                 /\ stored' = [stored EXCEPT ![j][f] = "sending"]
                 /\ UNCHANGED <<status, cur, result>>
  BY <1>1, <1>10 DEF StartUpload, Unsent, GoTo
<1>11. ASSUME NEW f \in Files, FinishUpload(w, f)
       PROVE  \/ Ends(j, w)
              \/ /\ pc[w] = "sending" /\ stored[j][f] = "sending"
                 /\ pc' = [pc EXCEPT ![w] = "upload"]
                 /\ stored' = [stored EXCEPT ![j][f] = "whole"]
                 /\ UNCHANGED <<status, cur>>
  BY <1>1, <1>11 DEF FinishUpload, GoTo
<1> QED BY <1>3, <1>4, <1>5, <1>6, <1>7, <1>8, <1>9, <1>10, <1>11 DEF Conversion

\* The worker's own step.
LEMMA OwnStepMovesOn ==
  ASSUME PoolInv, NEW w \in Workers, NEW j \in Jobs, j = cur[w], Conversion(w)
  PROVE  /\ StagesLeft(j)' \subseteq StagesLeft(j)
         /\ FilesLeft(j)' \subseteq FilesLeft(j)
         /\ StagesLeft(j)' # StagesLeft(j) \/ FilesLeft(j)' # FilesLeft(j)
<1>1. /\ Holders(j) = {w} /\ status[j] = "processing"
      /\ stored \in [Jobs -> [Files -> FileState]]
      /\ pc \in [Workers -> {"none", "select", "exited"} \cup BusyAt] /\ pc[w] \in BusyAt
  BY StagesBusy DEF PoolInv, EveryJobInOnePlace, Holders, TypeOK, FileState
<1>2. StagesLeft(j) = Stages \ Over(pc[w])
  BY <1>1 DEF StagesLeft, Settled
<1>3. CASE Ends(j, w)
  <2>1. StagesLeft(j)' = {} /\ FilesLeft(j)' = {}
    BY <1>3 DEF Ends, StagesLeft, FilesLeft
  <2>2. "finish" \in StagesLeft(j)
    BY <1>1, <1>2 DEF Over, Stages, BusyAt
  <2> QED BY <2>1, <2>2
<1>4. ASSUME UNCHANGED <<status, cur>>, NEW p, pc' = [pc EXCEPT ![w] = p]
      PROVE  StagesLeft(j)' = Stages \ Over(p)
  <2>1. Holders(j)' = {w} /\ pc'[w] = p
    BY <1>1, <1>4 DEF Holders
  <2> QED BY <1>1, <1>4, <2>1 DEF StagesLeft, Settled
<1>5. CASE /\ UNCHANGED <<status, cur, stored>> /\ pc'[w] \in Stages
           /\ pc[w] \in Stages /\ Over(pc[w]) \subseteq Over(pc'[w])
           /\ pc[w] \in Over(pc'[w]) /\ pc[w] \notin Over(pc[w])
           /\ pc' = [pc EXCEPT ![w] = pc'[w]]
  <2>1. StagesLeft(j)' = Stages \ Over(pc'[w])
    BY <1>4, <1>5
  <2>2. FilesLeft(j)' = FilesLeft(j)
    BY <1>5 DEF FilesLeft
  <2> QED BY <1>2, <1>5, <2>1, <2>2
<1>6. ASSUME NEW f \in Files, NEW s \in {"sending", "whole"}, NEW p \in {"upload", "sending"},
             pc[w] \in {"upload", "sending"},
             stored[j][f] = IF s = "whole" THEN "sending" ELSE "absent",
             pc' = [pc EXCEPT ![w] = p], stored' = [stored EXCEPT ![j][f] = s],
             UNCHANGED <<status, cur>>
      PROVE  /\ StagesLeft(j)' = StagesLeft(j)
             /\ FilesLeft(j)' \subseteq FilesLeft(j) /\ FilesLeft(j)' # FilesLeft(j)
  <2>1. Over(p) = Over(pc[w])
    BY <1>6 DEF Over
  <2>2. \A g \in Files : stored'[j][g] = IF g = f THEN s ELSE stored[j][g]
    BY <1>1, <1>6
  <2>3. FilesLeft(j)' \subseteq FilesLeft(j)
    BY <1>1, <1>6, <2>2 DEF FilesLeft
  <2>4. CASE s = "sending"
    <3>1. <<f, "start">> \in FilesLeft(j) /\ <<f, "start">> \notin FilesLeft(j)'
      BY <1>1, <1>6, <2>2, <2>4 DEF FilesLeft, Settled
    <3> QED BY <1>2, <1>4, <1>6, <2>1, <2>3, <3>1
  <2>5. CASE s = "whole"
    <3>1. <<f, "end">> \in FilesLeft(j) /\ <<f, "end">> \notin FilesLeft(j)'
      BY <1>1, <1>6, <2>2, <2>5 DEF FilesLeft, Settled
    <3> QED BY <1>2, <1>4, <1>6, <2>1, <2>3, <3>1
  <2> QED BY <2>4, <2>5
<1>7. result[j] \subseteq Files
  BY DEF PoolInv, TypeOK
<1> QED BY <1>3, <1>5, <1>6, <1>7, ConversionOutcomes

\* Everybody else's steps: only the rejection of a job changes what is left
\* of it.
LEMMA OthersUndoNothing ==
  ASSUME PoolInv, NEW j \in Jobs, [Next]_vars, ~\E w \in Holders(j) : Conversion(w)
  PROVE  StagesLeft(j)' \subseteq StagesLeft(j) /\ FilesLeft(j)' \subseteq FilesLeft(j)
<1>0. TypeOK
  BY DEF PoolInv
<1>1. ASSUME stored'[j] = stored[j], status[j] \in Settled => status'[j] \in Settled,
             \A w \in Holders(j) : w \in Holders(j)' /\ pc'[w] = pc[w]
      PROVE  StagesLeft(j)' \subseteq StagesLeft(j) /\ FilesLeft(j)' \subseteq FilesLeft(j)
  BY <1>1 DEF StagesLeft, FilesLeft
<1>2. ASSUME NEW w \in Workers, cur[w] = j PROVE pc[w] \in BusyAt
  BY <1>2, PoolAssumption DEF PoolInv, Busy
<1>3. CASE ServiceCancel \/ CancelPool \/ CloseQueue \/ PoolStopped \/ Terminated \/ UNCHANGED vars
  BY <1>1, <1>3 DEF ServiceCancel, CancelPool, CloseQueue, PoolStopped, Terminated, vars, jobVars,
     dataVars, Holders
<1>4. CASE StartWorkers
  <2>1. Holders(j) = {}
    BY <1>2, <1>4 DEF StartWorkers, PoolInv, Holders, BusyAt
  <2> QED BY <1>1, <1>4, <2>1 DEF StartWorkers, dataVars
<1>5. ASSUME NEW k \in Jobs, SubmitJob(k)
      PROVE  StagesLeft(j)' \subseteq StagesLeft(j) /\ FilesLeft(j)' \subseteq FilesLeft(j)
  <2>1. UNCHANGED <<pc, cur, stored>> /\ (status[j] \in Settled => status'[j] \in Settled)
    BY <1>0, <1>5 DEF SubmitJob, TypeOK, dataVars, Settled
  <2> QED BY <1>1, <2>1 DEF Holders
<1>6. ASSUME NEW w \in Workers, TakeJob(w) \/ RejectUnknownTemplate(w)
      PROVE  StagesLeft(j)' \subseteq StagesLeft(j) /\ FilesLeft(j)' \subseteq FilesLeft(j)
  <2>1. Receive(w) /\ pc[w] = "select" /\ UNCHANGED stored
    BY <1>6 DEF TakeJob, RejectUnknownTemplate, Receive, dataVars
  <2>2. status[Head(queue)] = "pending" /\ Head(queue) \in Jobs
    BY <2>1, ReceiveMoves
  <2>3. status[j] \in Settled => status'[j] \in Settled
    BY <1>0, <1>6, <2>2 DEF TakeJob, RejectUnknownTemplate, TypeOK, Settled
  <2>4. \A v \in Holders(j) : v \in Holders(j)' /\ pc'[v] = pc[v]
    <3>1. w \notin Holders(j)
      BY <1>2, <2>1 DEF Holders, BusyAt
    <3>2. \A v \in Workers \ {w} : pc'[v] = pc[v] /\ cur'[v] = cur[v]
      BY <1>0, <1>6 DEF TakeJob, RejectUnknownTemplate, TypeOK
    <3> QED BY <3>1, <3>2 DEF Holders
  <2> QED BY <1>1, <2>1, <2>3, <2>4
<1>7. ASSUME NEW w \in Workers, WorkerExit(w) \/ Timeout(w)
      PROVE  StagesLeft(j)' \subseteq StagesLeft(j) /\ FilesLeft(j)' \subseteq FilesLeft(j)
  <2>1. UNCHANGED <<status, cur, stored>>
        /\ \A v \in Workers : pc'[v] = pc[v] \/ pc[v] = "select"
    BY <1>0, <1>7 DEF WorkerExit, Timeout, GoTo, TypeOK, dataVars
  <2>2. \A v \in Holders(j) : v \in Holders(j)' /\ pc'[v] = pc[v]
    BY <1>2, <2>1 DEF Holders, BusyAt
  <2> QED BY <1>1, <2>1, <2>2
<1>8. ASSUME NEW w \in Workers, Conversion(w)
      PROVE  StagesLeft(j)' \subseteq StagesLeft(j) /\ FilesLeft(j)' \subseteq FilesLeft(j)
  <2>1. JobOnly(cur[w], w) /\ cur[w] # j
    BY <1>0, <1>8, ConversionLocal DEF Holders
  <2>2. stored'[j] = stored[j] /\ status'[j] = status[j]
    BY <2>1 DEF JobOnly
  <2>3. \A v \in Holders(j) : v \in Holders(j)' /\ pc'[v] = pc[v]
    BY <2>1 DEF JobOnly, Holders
  <2> QED BY <1>1, <2>2, <2>3
<1> QED BY <1>3, <1>4, <1>5, <1>6, <1>7, <1>8 DEF Next, Starter, Worker

\* Whatever the interleaving, a job is worked through from its first stage
\* to its last and never taken back.
THEOREM JobsGetDone == Spec => JobsMoveOn
<1> DEFINE MovesOn == \A j \in Jobs :
          /\ StagesLeft(j)' \subseteq StagesLeft(j)
          /\ FilesLeft(j)' \subseteq FilesLeft(j)
          /\ (\E w \in Holders(j) : Conversion(w)) =>
                StagesLeft(j)' # StagesLeft(j) \/ FilesLeft(j)' # FilesLeft(j)
<1>1. ASSUME PoolInv, [Next]_vars PROVE MovesOn
  BY <1>1, OwnStepMovesOn, OthersUndoNothing DEF Holders
<1>2. PoolInv /\ [Next]_vars => [MovesOn]_vars
  BY <1>1
<1> HIDE DEF MovesOn
<1>3. Spec => [][MovesOn]_vars
  BY <1>2, PoolInvariant, PTL DEF Spec
<1> QED BY <1>3 DEF MovesOn, JobsMoveOn

\* A worker that sends always sends one file, and one it was told to: the
\* step its stage waits for is there to be taken.
THEOREM SenderKnowsItsFile == Spec => []SentFileIsListed
<1>1. Init => SentFileIsListed
  BY DEF Init, SentFileIsListed
<1>2. ASSUME PoolInv, SentFileIsListed, [Next]_vars, NEW w \in Workers, pc'[w] = "sending"
      PROVE  \E f \in result'[cur'[w]] :
                \A g \in Files : stored'[cur'[w]][g] = "sending" <=> g = f
  <2>0. TypeOK
    BY <1>2 DEF PoolInv
  <2>1. ASSUME NEW j \in Jobs, j = cur[w], Conversion(w)
        PROVE  \E f \in result'[cur'[w]] :
                  \A g \in Files : stored'[cur'[w]][g] = "sending" <=> g = f
    <3>1. PICK f \in result[j] :
              /\ pc[w] = "upload" /\ UNCHANGED <<cur, result>>
              /\ stored' = [stored EXCEPT ![j][f] = "sending"]
      <4>1. w \in DOMAIN pc
        BY <2>0 DEF TypeOK
      <4>2. ~Ends(j, w) /\ pc'[w] \notin Stages
        BY <1>2 DEF Ends, Stages
      <4>3. ~(pc' = [pc EXCEPT ![w] = "upload"])
        BY <1>2, <4>1
      <4> QED BY <1>2, <2>1, <4>2, <4>3, ConversionOutcomes
    <3>2. \A g \in Files : stored[j][g] # "sending"
      BY <1>2, <2>1, <3>1 DEF PoolInv, Busy, BusyAt, StageOK
    <3>3. stored \in [Jobs -> [Files -> FileState]] /\ f \in Files
      BY <2>0, <3>1 DEF TypeOK, FileState
    <3>4. \A g \in Files : stored'[j][g] = IF g = f THEN "sending" ELSE stored[j][g]
      BY <3>1, <3>3
    <3> QED BY <2>1, <3>1, <3>2, <3>4
  <2>2. CASE ~Conversion(w)
    <3>1. pc[w] = "sending" /\ cur'[w] = cur[w] /\ cur[w] \in Jobs
      <4>1. CASE \E v \in Workers \ {w} : Conversion(v)
        BY <1>2, <2>0, <4>1, ConversionLocal DEF JobOnly, TypeOK, BusyAt
      <4>2. CASE ~\E v \in Workers : Conversion(v)
        BY <1>2, <2>0, <4>2 DEF Next, Starter, Worker, ServiceCancel, StartWorkers, CancelPool,
           CloseQueue, PoolStopped, SubmitJob, TakeJob, RejectUnknownTemplate, WorkerExit, Timeout,
           GoTo, Terminated, vars, jobVars, TypeOK, BusyAt
      <4> QED BY <2>2, <4>1, <4>2
    <3>2. result'[cur[w]] = result[cur[w]] /\ stored'[cur[w]] = stored[cur[w]]
      <4>1. ASSUME NEW v \in Workers, Conversion(v), v # w
            PROVE  result'[cur[w]] = result[cur[w]] /\ stored'[cur[w]] = stored[cur[w]]
        <5>1. cur[v] # cur[w] /\ cur[v] \in Jobs
          BY <1>2, <2>0, <3>1, <4>1, StagesBusy DEF PoolInv, EveryJobInOnePlace, Holders
        <5> QED BY <2>0, <3>1, <4>1, <5>1, ConversionLocal DEF JobOnly
      <4>2. CASE ~\E v \in Workers : Conversion(v)
        BY <1>2, <4>2 DEF Next, Starter, Worker, ServiceCancel, StartWorkers, CancelPool,
           CloseQueue, PoolStopped, SubmitJob, TakeJob, RejectUnknownTemplate, Receive, WorkerExit,
           Timeout, Terminated, vars, dataVars
      <4> QED BY <2>2, <4>1, <4>2
    <3> QED BY <1>2, <3>1, <3>2 DEF SentFileIsListed
  <2> QED BY <2>0, <2>1, <2>2, StagesBusy
<1>3. PoolInv /\ SentFileIsListed /\ [Next]_vars => SentFileIsListed'
  BY <1>2 DEF SentFileIsListed
<1> QED BY <1>1, <1>3, PoolInvariant, PTL DEF Spec
===============================================================================
