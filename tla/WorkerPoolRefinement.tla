------------------------- MODULE WorkerPoolRefinement -------------------------
(***************************************************************************)
(* The pool implements the ledger, for any jobs, workers, files and        *)
(* storage: what ConverterService takes for the pool is what worker.go     *)
(* does.  The invariant PoolInv of WorkerPoolProofs says what each step    *)
(* needs to know.                                                          *)
(***************************************************************************)
EXTENDS WorkerPoolProofs

-------------------------------------------------------------------------------
(* What a step of the ledger is, in terms of the pool.                     *)

\* One job goes to another phase, the others stay.
LEMMA MovesOne ==
  ASSUME NEW j \in Jobs, NEW from, NEW to,
         LedgerPhase(j) = from, LedgerPhase(j)' = to,
         \A k \in Jobs \ {j} : LedgerPhase(k)' = LedgerPhase(k)
  PROVE  Ledger!Move(j, from, to)
  BY DEF Ledger!Move

\* A job's phase depends on its state and its verdict only.
LEMMA PhaseStays ==
  ASSUME NEW k \in Jobs, status'[k] = status[k],
         status[k] = "pending" => verdict'[k] = verdict[k]
  PROVE  LedgerPhase(k)' = LedgerPhase(k)
  BY DEF LedgerPhase

\* Whether all files of a job are known to be stored depends on the job's
\* state and files and on whether its worker has come to the end.
LEMMA StoredStays ==
  ASSUME NEW k \in Jobs, status'[k] = "completed" <=> status[k] = "completed",
         result'[k] = result[k], stored'[k] = stored[k],
         \A w \in Workers : cur'[w] = k /\ pc'[w] = "finish" <=> cur[w] = k /\ pc[w] = "finish"
  PROVE  AllStored(k)' <=> AllStored(k)
  BY DEF AllStored, Holders

\* The ledger does not see a step that leaves the channel and the states
\* alone and brings no worker to the end of a job or away from it.
LEMMA Unseen ==
  ASSUME UNCHANGED <<queue, verdict, status, result, stored>>,
         QueueClosed' = QueueClosed,
         \A w \in Workers : /\ cur'[w] = cur[w]
                            /\ pc'[w] = "finish" <=> pc[w] = "finish"
  PROVE  UNCHANGED Ledger!vars
<1>1. \A k \in Jobs : LedgerPhase(k)' = LedgerPhase(k)
  BY PhaseStays
<1>2. \A k \in Jobs : AllStored(k)' <=> AllStored(k)
  BY StoredStays
<1>3. {j \in Jobs : AllStored(j)}' = {j \in Jobs : AllStored(j)}
  BY <1>2
<1>4. [j \in Jobs |-> LedgerPhase(j)]' = [j \in Jobs |-> LedgerPhase(j)]
  BY <1>1
<1> QED BY <1>3, <1>4 DEF Ledger!vars

-------------------------------------------------------------------------------
(* Start, and SubmitJob.                                                   *)

LEMMA InitLedger == Init => Ledger!Init
<1> SUFFICES ASSUME Init PROVE Ledger!Init
  OBVIOUS
<1>1. \A j \in Jobs : LedgerPhase(j) = "unseen" /\ ~AllStored(j)
  BY PoolAssumption DEF Init, LedgerPhase, AllStored, Holders
<1>2. queue = <<>> /\ QueueClosed = FALSE
  BY DEF Init, QueueClosed
<1> QED BY <1>1, <1>2 DEF Ledger!Init

LEMMA StarterLedger ==
  PoolInv /\ (ServiceCancel \/ Starter) => [Ledger!Next]_(Ledger!vars)
<1> SUFFICES ASSUME PoolInv, ServiceCancel \/ Starter PROVE [Ledger!Next]_(Ledger!vars)
  OBVIOUS
<1>1. /\ UNCHANGED <<queue, verdict, status, result, stored, cur>>
      /\ \A w \in Workers : pc'[w] = "finish" <=> pc[w] = "finish"
  BY DEF ServiceCancel, Starter, StartWorkers, CancelPool, CloseQueue, PoolStopped,
         jobVars, dataVars, lineVars, PoolInv
<1>2. CASE ServiceCancel \/ StartWorkers \/ CancelPool
  <2>1. (QueueClosed = FALSE /\ QueueClosed' = FALSE) \/ starter' = starter
    BY <1>2 DEF ServiceCancel, StartWorkers, CancelPool, QueueClosed
  <2>2. QueueClosed' = QueueClosed
    BY <2>1 DEF QueueClosed
  <2> QED BY <1>1, <2>2, Unseen
<1>3. CASE PoolStopped
  <2>1. QueueClosed = TRUE /\ QueueClosed' = TRUE
    BY <1>3 DEF PoolStopped, QueueClosed
  <2> QED BY <1>1, <2>1, Unseen
<1>4. CASE CloseQueue
  <2>1. QueueClosed = FALSE /\ QueueClosed' = TRUE
    BY <1>4 DEF CloseQueue, QueueClosed
  <2>2. \A k \in Jobs : LedgerPhase(k)' = LedgerPhase(k) /\ (AllStored(k)' <=> AllStored(k))
    BY <1>1, PhaseStays, StoredStays
  <2>3. {j \in Jobs : AllStored(j)}' = {j \in Jobs : AllStored(j)}
    BY <2>2
  <2>4. [j \in Jobs |-> LedgerPhase(j)]' = [j \in Jobs |-> LedgerPhase(j)]
    BY <2>2
  <2>5. Ledger!Close
    BY <1>1, <2>1, <2>3, <2>4 DEF Ledger!Close
  <2> QED BY <2>5 DEF Ledger!Next
<1> QED BY <1>2, <1>3, <1>4 DEF Starter

LEMMA SubmitLedger ==
  ASSUME PoolInv, NEW j \in Jobs, SubmitJob(j) PROVE Ledger!Next
<1>1. /\ status[j] = "new" /\ status'[j] = "pending" /\ verdict'[j] \in {"queued", "full", "panic"}
      /\ \A k \in Jobs \ {j} : status'[k] = status[k] /\ verdict'[k] = verdict[k]
      /\ UNCHANGED <<starter, pc, cur, result, stored>>
      /\ Len(queue) \in Nat /\ Len(queue) <= QueueCap
  BY DEF SubmitJob, PoolInv, TypeOK, poolVars, dataVars
<1>2. \A k \in Jobs \ {j} : LedgerPhase(k)' = LedgerPhase(k)
  BY <1>1, PhaseStays
<1>3. \A k \in Jobs : AllStored(k)' <=> AllStored(k)
  BY <1>1, StoredStays
<1>4. {k \in Jobs : AllStored(k)}' = {k \in Jobs : AllStored(k)}
  BY <1>3
<1>5. (~QueueClosed)' = ~QueueClosed
  BY <1>1 DEF QueueClosed
<1>6. LedgerPhase(j) = "unseen"
  BY <1>1 DEF LedgerPhase
<1>7. CASE ~QueueClosed /\ HasRoom /\ verdict' = [verdict EXCEPT ![j] = "queued"]
           /\ queue' = Append(queue, j)
  <2>1. LedgerPhase(j)' = "queued"
    BY <1>1, <1>7 DEF LedgerPhase, PoolInv, TypeOK
  <2>2. Ledger!Move(j, "unseen", "queued")
    BY <1>2, <1>6, <2>1, MovesOne
  <2>3. Ledger!Accept(j)
    BY <1>4, <1>5, <1>7, <2>2 DEF Ledger!Accept, HasRoom
  <2> QED BY <2>3 DEF Ledger!Next
<1>8. CASE /\ QueueClosed \/ ~HasRoom
           /\ \E v \in {"full", "panic"} : verdict' = [verdict EXCEPT ![j] = v]
           /\ queue' = queue
  <2>1. LedgerPhase(j)' = "refused"
    BY <1>1, <1>8 DEF LedgerPhase, PoolInv, TypeOK
  <2>2. Ledger!Move(j, "unseen", "refused")
    BY <1>2, <1>6, <2>1, MovesOne
  <2>3. ~QueueClosed => Len(queue) = QueueCap
    BY <1>1, <1>8, QueueCapNat DEF HasRoom
  <2>4. Ledger!Refuse(j)
    BY <1>4, <1>5, <1>8, <2>2, <2>3 DEF Ledger!Refuse
  <2> QED BY <2>4 DEF Ledger!Next
<1> QED BY <1>7, <1>8 DEF SubmitJob

-------------------------------------------------------------------------------
(* The channel's other end.                                                *)

\* The job of a worker that looks for the next one is nobody's: fewer jobs
\* run than there are workers.
LEMMA PlaceFree ==
  ASSUME PoolInv, NEW w \in Workers, pc[w] = "select"
  PROVE  Cardinality({k \in Jobs : status[k] = "processing"}) < Cardinality(Workers)
<1> DEFINE Running == {k \in Jobs : status[k] = "processing"}
           holder  == [k \in Running |-> CHOOSE v \in Workers : cur[v] = k]
<1>1. \A k \in Running : \E v \in Workers : cur[v] = k
  BY DEF PoolInv, EveryJobInOnePlace, Holders
<1>2. \A k \in Running : holder[k] \in Workers /\ cur[holder[k]] = k
  BY <1>1
<1>3. cur[w] = NoJob
  BY DEF PoolInv, Busy, BusyAt
<1>4. holder \in Injection(Running, Workers \ {w})
  <2>1. \A k \in Running : holder[k] \in Workers \ {w}
    <3>1. \A k \in Running : k # NoJob
      BY PoolAssumption
    <3> HIDE DEF holder, Running
    <3> QED BY <1>2, <1>3, <3>1
  <2>2. holder \in [Running -> Workers \ {w}]
    BY <2>1
  <2> HIDE DEF holder, Running
  <2>3. \A k, l \in Running : holder[k] = holder[l] => k = l
    BY <1>2
  <2> QED BY <2>2, <2>3 DEF Injection, IsInjective
<1> HIDE DEF holder, Running
<1>5. /\ IsFiniteSet(Workers \ {w})
      /\ Cardinality(Workers \ {w}) = Cardinality(Workers) - 1
  BY PoolAssumption, FS_RemoveElement
<1>6. IsFiniteSet(Running) /\ Cardinality(Running) <= Cardinality(Workers \ {w})
  BY <1>4, <1>5, FS_Injection
<1>7. Cardinality(Workers) \in Nat /\ Cardinality(Running) \in Nat
  BY <1>6, PoolAssumption, FS_CardinalityType
<1> QED BY <1>5, <1>6, <1>7 DEF Running

\* TakeJob is the ledger's Begin, RejectUnknownTemplate its Discard.
LEMMA ReceiveLedger ==
  ASSUME PoolInv, NEW w \in Workers, TakeJob(w) \/ RejectUnknownTemplate(w)
  PROVE  Ledger!Next
<1>1. /\ Receive(w) /\ pc[w] = "select" /\ queue # <<>> /\ queue' = Tail(queue)
      /\ UNCHANGED <<starter, verdict, result, stored>>
  BY DEF TakeJob, RejectUnknownTemplate, Receive, poolVars, dataVars
<1>2. PICK j \in Jobs : j = Head(queue) /\ status[j] = "pending" /\ verdict[j] = "queued"
  <2>1. Head(queue) \in Jobs
    BY <1>1 DEF PoolInv, TypeOK
  <2> QED BY <1>1, <2>1, ReceiveMoves
<1>3. \A v \in Workers : cur[v] # j
  BY <1>2 DEF PoolInv, EveryJobInOnePlace, Holders
<1>4. cur[w] = NoJob
  BY <1>1 DEF PoolInv, Busy, BusyAt
<1>5. LedgerPhase(j) = "queued"
  BY <1>2 DEF LedgerPhase
<1>6. (~QueueClosed)' = ~QueueClosed
  BY <1>1 DEF QueueClosed
<1>7. CASE TakeJob(w)
  <2>1. /\ status' = [status EXCEPT ![j] = "processing"]
        /\ cur' = [cur EXCEPT ![w] = j] /\ pc' = [pc EXCEPT ![w] = "fetch"]
    BY <1>2, <1>7 DEF TakeJob
  <2>2. /\ status'[j] = "processing" /\ cur'[w] = j /\ pc'[w] = "fetch"
        /\ \A k \in Jobs \ {j} : status'[k] = status[k]
        /\ \A v \in Workers \ {w} : cur'[v] = cur[v] /\ pc'[v] = pc[v]
    BY <1>2, <2>1 DEF PoolInv, TypeOK
  <2>3. \A k \in Jobs \ {j} : LedgerPhase(k)' = LedgerPhase(k)
    BY <1>1, <2>2, PhaseStays
  <2>4. LedgerPhase(j)' = "running"
    BY <2>2 DEF LedgerPhase
  <2>5. Ledger!Move(j, "queued", "running")
    BY <1>2, <1>5, <2>3, <2>4, MovesOne
  <2>6. \A k \in Jobs : AllStored(k)' <=> AllStored(k)
    <3>1. ASSUME NEW k \in Jobs, NEW v \in Workers
          PROVE  cur'[v] = k /\ pc'[v] = "finish" <=> cur[v] = k /\ pc[v] = "finish"
      BY <1>1, <2>2
    <3> QED BY <1>1, <1>2, <2>2, <3>1, StoredStays
  <2>7. {k \in Jobs : AllStored(k)}' = {k \in Jobs : AllStored(k)}
    BY <2>6
  <2>8. Ledger!Cardinality(Ledger!Running) < Cardinality(Workers)
    <3>1. \A k \in Jobs : LedgerPhase(k) = "running" <=> status[k] = "processing"
      BY DEF LedgerPhase, PoolInv, TypeOK, Settled
    <3>2. Ledger!Running = {k \in Jobs : status[k] = "processing"}
      BY <3>1 DEF Ledger!Running
    <3> QED BY <1>1, <3>2, PlaceFree DEF Ledger!Cardinality, Cardinality
  <2>9. Ledger!Begin(j)
    BY <1>1, <1>2, <1>6, <2>5, <2>7, <2>8 DEF Ledger!Begin
  <2> QED BY <1>2, <2>9 DEF Ledger!Next
<1>8. CASE RejectUnknownTemplate(w)
  <2>1. status' = [status EXCEPT ![j] = "failed"] /\ UNCHANGED <<cur, pc>>
    BY <1>2, <1>8 DEF RejectUnknownTemplate
  <2>2. status'[j] = "failed" /\ \A k \in Jobs \ {j} : status'[k] = status[k]
    BY <1>2, <2>1 DEF PoolInv, TypeOK
  <2>3. \A k \in Jobs \ {j} : LedgerPhase(k)' = LedgerPhase(k)
    BY <1>1, <2>2, PhaseStays
  <2>4. LedgerPhase(j)' = "abandoned"
    BY <2>2 DEF LedgerPhase
  <2>5. Ledger!Move(j, "queued", "abandoned")
    BY <1>2, <1>5, <2>3, <2>4, MovesOne
  <2>6. \A k \in Jobs : AllStored(k)' <=> AllStored(k)
    BY <1>1, <1>2, <2>1, <2>2, StoredStays
  <2>7. {k \in Jobs : AllStored(k)}' = {k \in Jobs : AllStored(k)}
    BY <2>6
  <2>8. Ledger!Discard(j)
    BY <1>1, <1>2, <1>6, <2>5, <2>7 DEF Ledger!Discard
  <2> QED BY <1>2, <2>8 DEF Ledger!Next
<1> QED BY <1>7, <1>8

-------------------------------------------------------------------------------
(* The stages of a conversion.                                             *)

\* A stage keeps the job, and only the clean-up brings it to the end; or it
\* gives the job up; or the end reports it completed.
GoesOn(j, w)  == Stays(j, w) /\ pc[w] # "finish" /\ pc'[w] # "finish"
Ready(j, w)   == Stays(j, w) /\ pc[w] # "finish" /\ pc'[w] = "finish"
Fails(j, w)   == Ends(j, w) /\ pc[w] # "finish" /\ status'[j] = "failed"
Reports(j, w) == Ends(j, w) /\ pc[w] = "finish" /\ status'[j] = "completed"

LEMMA ConversionKinds ==
  ASSUME TypeOK, NEW w \in Workers, Conversion(w)
  PROVE  GoesOn(cur[w], w) \/ Ready(cur[w], w) \/ Fails(cur[w], w) \/ Reports(cur[w], w)
<1>0. pc[w] \in BusyAt /\ cur[w] \in Jobs
  BY StagesBusy
<1>1. ASSUME NEW step \in BusyAt, GoTo(w, step), pc[w] # "finish"
      PROVE  GoesOn(cur[w], w) \/ Ready(cur[w], w)
  BY <1>1, GoToStays DEF GoesOn, Ready
<1>2. ASSUME FailJob(w), pc[w] # "finish" PROVE Fails(cur[w], w)
  BY <1>0, <1>2, FailJobEnds DEF Fails
<1>3. CASE FinishJob(w)
  BY <1>0, <1>3, EndJobEnds DEF FinishJob, Reports, Settled
<1>4. CASE ~FinishJob(w)
  <2>1. pc[w] # "finish" /\ (FailJob(w) \/ \E step \in BusyAt : GoTo(w, step))
    BY <1>4 DEF Conversion, StartDownload, FinishDownload, ValidateSource, StartTranscode,
       FinishTranscode, StartUpload, FinishUpload, CleanupTemp, BusyAt
  <2> QED BY <1>1, <1>2, <2>1
<1> QED BY <1>3, <1>4

\* A conversion's steps are the ledger's Secure, GiveUp and Deliver, or none.
LEMMA ConversionLedger ==
  ASSUME PoolInv, PoolInv', NEW w \in Workers, Conversion(w)
  PROVE  [Ledger!Next]_(Ledger!vars)
<1>1. PICK j \in Jobs : j = cur[w]
  BY StagesBusy DEF PoolInv
<1>2. /\ TypeOK /\ pc[w] \in BusyAt /\ StageOK(w) /\ status[j] = "processing"
      /\ \A v \in Workers : cur[v] = j => v = w
  BY <1>1, StagesBusy DEF PoolInv, Busy, EveryJobInOnePlace, Holders
<1>3. /\ JobOnly(j, w) /\ UNCHANGED <<starter, queue, verdict>>
      /\ \A k \in Jobs \ {j} : status'[k] = status[k]
  BY <1>1, <1>2, ConversionLocal DEF JobOnly, poolVars, lineVars
<1>4. GoesOn(j, w) \/ Ready(j, w) \/ Fails(j, w) \/ Reports(j, w)
  BY <1>1, <1>2, ConversionKinds
<1>5. cur'[w] \in {j, NoJob}
  BY <1>4 DEF GoesOn, Ready, Fails, Reports, Stays, Ends
<1>6. \A k \in Jobs \ {j} : LedgerPhase(k)' = LedgerPhase(k)
  BY <1>3, PhaseStays
<1>7. ASSUME NEW k \in Jobs \ {j} PROVE AllStored(k)' <=> AllStored(k)
  <2>1. \A v \in Workers : cur'[v] = k /\ pc'[v] = "finish" <=> cur[v] = k /\ pc[v] = "finish"
    BY <1>1, <1>3, <1>5, PoolAssumption DEF JobOnly
  <2> QED BY <1>3, <2>1, StoredStays DEF JobOnly
<1>8. (~QueueClosed)' = ~QueueClosed
  BY <1>3 DEF QueueClosed
<1>9. LedgerPhase(j) = "running"
  BY <1>2 DEF LedgerPhase
<1>10. AllStored(j) <=> pc[w] = "finish"
  BY <1>1, <1>2 DEF AllStored, Holders, StageOK
<1>11. \A v \in Workers : cur'[v] = j => v = w
  BY <1>2, <1>3 DEF JobOnly
<1>12. CASE GoesOn(j, w)
  <2>1. status'[j] = "processing" /\ ~AllStored(j)'
    BY <1>2, <1>11, <1>12 DEF GoesOn, Stays, AllStored, Holders
  <2>2. LedgerPhase(j)' = "running"
    BY <2>1 DEF LedgerPhase
  <2>3. [k \in Jobs |-> LedgerPhase(k)]' = [k \in Jobs |-> LedgerPhase(k)]
    BY <1>6, <1>9, <2>2
  <2>4. {k \in Jobs : AllStored(k)}' = {k \in Jobs : AllStored(k)}
    BY <1>7, <1>10, <1>12, <2>1 DEF GoesOn
  <2> QED BY <1>3, <1>8, <2>3, <2>4 DEF Ledger!vars
<1>13. CASE Ready(j, w)
  <2>1. status'[j] = "processing" /\ AllStored(j)'
    <3>1. status'[j] = "processing" /\ cur'[w] = j /\ pc'[w] = "finish"
      BY <1>2, <1>13 DEF Ready, Stays
    <3>2. StageOK(w)'
      BY <3>1 DEF PoolInv, Busy, BusyAt
    <3> QED BY <3>1, <3>2 DEF StageOK, AllStored, Holders
  <2>2. LedgerPhase(j)' = "running"
    BY <2>1 DEF LedgerPhase
  <2>3. [k \in Jobs |-> LedgerPhase(k)]' = [k \in Jobs |-> LedgerPhase(k)]
    BY <1>6, <1>9, <2>2
  <2>4. {k \in Jobs : AllStored(k)}' = {k \in Jobs : AllStored(k)} \cup {j}
    BY <1>7, <2>1
  <2>5. j \in Ledger!Running
    BY <1>9 DEF Ledger!Running
  <2>6. Ledger!Secure(j)
    BY <1>3, <1>8, <2>3, <2>4, <2>5 DEF Ledger!Secure
  <2> QED BY <2>6 DEF Ledger!Next
<1>14. CASE Fails(j, w)
  <2>1. status'[j] = "failed" /\ ~AllStored(j)'
    BY <1>1, <1>11, <1>14, PoolAssumption DEF Fails, Ends, AllStored, Holders
  <2>2. LedgerPhase(j)' = "abandoned"
    BY <2>1 DEF LedgerPhase
  <2>3. Ledger!Move(j, "running", "abandoned")
    BY <1>6, <1>9, <2>2, MovesOne
  <2>4. ~AllStored(j) /\ {k \in Jobs : AllStored(k)}' = {k \in Jobs : AllStored(k)}
    BY <1>7, <1>10, <1>14, <2>1 DEF Fails
  <2>5. Ledger!GiveUp(j)
    BY <1>3, <1>8, <2>3, <2>4 DEF Ledger!GiveUp
  <2> QED BY <2>5 DEF Ledger!Next
<1>15. CASE Reports(j, w)
  <2>1. status'[j] = "completed" /\ AllStored(j)'
    <3>1. status'[j] = "completed"
      BY <1>15 DEF Reports
    <3>2. RestOK(j)'
      BY DEF PoolInv
    <3> QED BY <3>1, <3>2 DEF RestOK, AllStored
  <2>2. LedgerPhase(j)' = "delivered"
    BY <2>1 DEF LedgerPhase
  <2>3. Ledger!Move(j, "running", "delivered")
    BY <1>6, <1>9, <2>2, MovesOne
  <2>4. AllStored(j) /\ {k \in Jobs : AllStored(k)}' = {k \in Jobs : AllStored(k)}
    BY <1>7, <1>10, <1>15, <2>1 DEF Reports
  <2>5. Ledger!Deliver(j)
    BY <1>3, <1>8, <2>3, <2>4 DEF Ledger!Deliver
  <2> QED BY <2>5 DEF Ledger!Next
<1> QED BY <1>4, <1>12, <1>13, <1>14, <1>15

-------------------------------------------------------------------------------
(* Every step.                                                             *)

\* A worker that leaves, a deadline that passes and a stutter are no step of
\* the ledger.
LEMMA QuietLedger ==
  PoolInv /\ ((\E w \in Workers : WorkerExit(w) \/ Timeout(w)) \/ UNCHANGED vars)
    => UNCHANGED Ledger!vars
<1> SUFFICES ASSUME PoolInv, (\E w \in Workers : WorkerExit(w) \/ Timeout(w)) \/ UNCHANGED vars
             PROVE  UNCHANGED Ledger!vars
  OBVIOUS
<1>1. UNCHANGED <<starter, queue, verdict, status, result, stored, cur>>
  BY DEF WorkerExit, GoTo, Timeout, vars, poolVars, jobVars, dataVars, lineVars
<1>2. \A v \in Workers : pc'[v] = "finish" <=> pc[v] = "finish"
  BY DEF WorkerExit, GoTo, Timeout, vars, jobVars, PoolInv, TypeOK
<1>3. QueueClosed' = QueueClosed
  BY <1>1 DEF QueueClosed
<1> QED BY <1>1, <1>2, <1>3, Unseen

LEMMA NextLedger == PoolInv /\ PoolInv' /\ [Next]_vars => [Ledger!Next]_(Ledger!vars)
<1> SUFFICES ASSUME PoolInv, PoolInv', [Next]_vars PROVE [Ledger!Next]_(Ledger!vars)
  OBVIOUS
<1>1. CASE ServiceCancel \/ Starter
  BY <1>1, StarterLedger
<1>2. CASE \E j \in Jobs : SubmitJob(j)
  BY <1>2, SubmitLedger
<1>3. CASE \E w \in Workers : Worker(w)
  BY <1>3, ReceiveLedger, QuietLedger, ConversionLedger DEF Worker
<1>4. CASE Terminated \/ UNCHANGED vars
  BY <1>4, QuietLedger DEF Terminated
<1> QED BY <1>1, <1>2, <1>3, <1>4 DEF Next

\* Whatever the pool's size, its storage and the jobs' fates, worker.go keeps
\* the ledger: jobs start in the order SubmitJob took them, no more at once
\* than there are workers, and each settles once, well only if it is stored.
THEOREM PoolImplementsLedger == Spec => ImplementsLedger
<1>1. Init => Ledger!Init
  BY InitLedger
<1>2. PoolInv /\ PoolInv' /\ [Next]_vars => [Ledger!Next]_(Ledger!vars)
  BY NextLedger
<1> QED BY <1>1, <1>2, PoolInvariant, PTL DEF Spec, ImplementsLedger, Ledger!Spec
===============================================================================
