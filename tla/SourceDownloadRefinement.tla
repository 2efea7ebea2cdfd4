------------------------ MODULE SourceDownloadRefinement ------------------------
(***************************************************************************)
(* A download, step by step, is what WorkerPool says of its three stages.  *)
(***************************************************************************)
EXTENDS SourceDownloadProofs

mapped == <<Stages, Unsettled, Expired, States, TempDirs>>

StageInv == SourceInv /\ FileByStage

\* What holds while a download's steps are told apart.
LEMMA StageInvariant == Spec => []StageInv
<1>1. Init => FileByStage
  BY DEF Init, FileByStage
<1>2. StageInv /\ [Next]_vars => StageInv'
  BY NextKeepsSourceInv, NextKeepsFileByStage DEF StageInv
<1> QED BY <1>1, <1>2, InitSourceInv, PTL DEF Spec, StageInv

-------------------------------------------------------------------------------
(* How the mapped state moves.                                             *)

\* A job that goes on to a step at which it has not given up.
LEMMA GoesOn ==
  ASSUME SourceInv, NEW j \in Jobs, NEW step \in Steps \ {"failed", "nodir"},
         ~GivenUp(j), GoTo(j, step), UNCHANGED ctxDone
  PROVE  /\ Stages' = [Stages EXCEPT ![j] = StageOf(step)] /\ Stages[j] = StageOf(pc[j])
         /\ UNCHANGED <<Unsettled, Expired, States>>
         /\ Unsettled[j] = j /\ Expired[j] = ctxDone[j]
<1>1. pc' = [pc EXCEPT ![j] = step] /\ pc \in [Jobs -> Steps] /\ ctxDone \in [Jobs -> BOOLEAN]
  BY DEF GoTo, SourceInv, Typed
<1>2. \A k \in Jobs : GivenUp(k)' = GivenUp(k)
  BY <1>1 DEF GivenUp
<1>3. Stages' = [Stages EXCEPT ![j] = StageOf(step)] /\ Stages[j] = StageOf(pc[j])
  BY <1>1 DEF Stages
<1>4. UNCHANGED <<Unsettled, Expired, States>>
  BY <1>2 DEF Unsettled, Expired, States
<1> QED BY <1>1, <1>3, <1>4 DEF Unsettled, Expired

\* A job that gives up.
LEMMA EndsJob ==
  ASSUME SourceInv, NEW j \in Jobs, NEW step \in {"failed", "nodir"},
         ~GivenUp(j), GoTo(j, step), UNCHANGED ctxDone
  PROVE  /\ Stages' = [Stages EXCEPT ![j] = "select"] /\ Stages[j] = StageOf(pc[j])
         /\ Unsettled[j] = j /\ Unsettled' = [Unsettled EXCEPT ![j] = NoJob]
         /\ States' = [States EXCEPT ![Unsettled[j]] = "failed"]
         /\ Expired' = [Expired EXCEPT ![j] = FALSE]
<1>1. pc' = [pc EXCEPT ![j] = step] /\ pc \in [Jobs -> Steps] /\ ctxDone \in [Jobs -> BOOLEAN]
  BY DEF GoTo, SourceInv, Typed
<1>2. \A k \in Jobs : GivenUp(k)' = (GivenUp(k) \/ k = j)
  BY <1>1 DEF GivenUp
<1>3. StageOf(step) = "select"
  BY DEF StageOf
<1>4. Stages' = [Stages EXCEPT ![j] = "select"] /\ Stages[j] = StageOf(pc[j])
  BY <1>1, <1>3 DEF Stages
<1>5. Unsettled[j] = j /\ Unsettled' = [Unsettled EXCEPT ![j] = NoJob]
  BY <1>2 DEF Unsettled
<1>6. States' = [States EXCEPT ![j] = "failed"] /\ Expired' = [Expired EXCEPT ![j] = FALSE]
  BY <1>2 DEF States, Expired
<1> QED BY <1>4, <1>5, <1>6

-------------------------------------------------------------------------------
(* Each step is one of the pool's, or happens within one.                  *)

LEMMA Fetches ==
  ASSUME StageInv, NEW local, local = LocalJobs, NEW j \in Jobs,
         StartDownload(j) \/ RefuseDownload(j) \/ NoDirectory(j)
  PROVE  Pool(local)!StartDownload(j)
<1>1. /\ pc[j] = "fetch" /\ ~GivenUp(j) /\ UNCHANGED <<file, ctxDone>>
      /\ StageOf(pc[j]) = "fetch" /\ SourceInv /\ pc \in [Jobs -> Steps]
  BY DEF StartDownload, RefuseDownload, NoDirectory, GivenUp, StageOf, StageInv, SourceInv, Typed
<1>2. \/ pc' = [pc EXCEPT ![j] = "request"] /\ MayAsk(j)
      \/ \E step \in {"failed", "nodir"} : GoTo(j, step)
  BY DEF StartDownload, RefuseDownload, NoDirectory, Ask, GoTo
<1>3. UNCHANGED TempDirs
  <2>1. file[j] = NoFile
    BY <1>1 DEF StageInv, FileByStage
  <2>2. \A k \in Jobs \ {j} : pc'[k] = pc[k] /\ file'[k] = file[k]
    BY <1>1, <1>2 DEF GoTo
  <2>3. file'[j] = NoFile
    BY <1>1, <2>1
  <2> QED BY <2>1, <2>2, <2>3 DEF TempDirs
<1>4. CASE pc' = [pc EXCEPT ![j] = "request"] /\ MayAsk(j)
  <2>1. StageOf("request") = "fetching" /\ "request" \in Steps \ {"failed", "nodir"}
    BY DEF StageOf, Steps
  <2>0. GoTo(j, "request")
    BY <1>4 DEF GoTo
  <2>2. /\ Stages' = [Stages EXCEPT ![j] = "fetching"] /\ Stages[j] = "fetch"
        /\ UNCHANGED <<Unsettled, Expired, States>>
        /\ Unsettled[j] = j /\ Expired[j] = ctxDone[j]
    BY <1>1, <2>1, <2>0, GoesOn
  <2>3. j \in local \/ ~Expired[j]
    BY <1>4, <2>2 DEF MayAsk, LocalJobs
  <2> QED
    BY <1>3, <2>2, <2>3 DEF Pool!StartDownload, Pool!GoTo, Pool!DownloadMayStart,
       Pool!JobCtxDone, Pool!WorkerCtxDone, Pool!poolVars, Pool!lineVars, Pool!dataVars
<1>5. ASSUME NEW step \in {"failed", "nodir"}, GoTo(j, step)
      PROVE  Pool(local)!StartDownload(j)
  <2>1. /\ Stages' = [Stages EXCEPT ![j] = "select"] /\ Stages[j] = "fetch"
        /\ Unsettled' = [Unsettled EXCEPT ![j] = NoJob]
        /\ States' = [States EXCEPT ![Unsettled[j]] = "failed"]
        /\ Expired' = [Expired EXCEPT ![j] = FALSE]
    BY <1>1, <1>5, EndsJob
  <2> QED
    BY <1>3, <2>1 DEF Pool!StartDownload, Pool!FailJob, Pool!EndJob,
       Pool!poolVars, Pool!lineVars, Pool!dataVars
<1> QED BY <1>2, <1>4, <1>5

\* The answer and its body come within the stage; only its end is a step.
LEMMA Downloads ==
  ASSUME StageInv, NEW local, NEW j \in Jobs,
         Answered(j) \/ Copy(j) \/ CopyEnds(j) \/ AttemptFails(j)
  PROVE  Pool(local)!FinishDownload(j) \/ UNCHANGED mapped
<1>1. /\ pc[j] \in {"request", "copy"} /\ ~GivenUp(j) /\ UNCHANGED ctxDone
      /\ StageOf(pc[j]) = "fetching" /\ SourceInv /\ pc \in [Jobs -> Steps]
      /\ file \in [Jobs -> Seq(Locations) \cup {NoFile}]
  BY DEF Answered, Copy, CopyEnds, AttemptFails, GivenUp, StageOf, StageInv, SourceInv, Typed
<1>2. \/ /\ \E step \in {"request", "copy"} : pc' = [pc EXCEPT ![j] = step]
         /\ file' = [file EXCEPT ![j] = file'[j]]
      \/ GoTo(j, "validate") /\ pc[j] = "copy" /\ file' = file
      \/ GoTo(j, "failed") /\ file' = file
  <2>1. CASE Copy(j)
    <3>1. pc' = [pc EXCEPT ![j] = "copy"]
      BY <1>1, <2>1 DEF Copy
    <3> QED BY <1>1, <2>1, <3>1 DEF Copy, Dir
  <2>2. CASE Answered(j)
    BY <1>1, <2>2 DEF Answered, GoTo, Dir
  <2>3. CASE CopyEnds(j)
    BY <2>3 DEF CopyEnds
  <2>4. CASE AttemptFails(j)
    BY <1>1, <2>4 DEF AttemptFails, Ask, GoTo
  <2> QED BY <2>1, <2>2, <2>3, <2>4
<1>3. TempDirs \in [Jobs -> SUBSET {"source"}] /\ TempDirs[j] = {}
  BY <1>1 DEF TempDirs
<1>4. ASSUME NEW step \in {"request", "copy"}, pc' = [pc EXCEPT ![j] = step],
             file' = [file EXCEPT ![j] = file'[j]]
      PROVE  UNCHANGED mapped \/ Pool(local)!FinishDownload(j)
  <2>1. step \in Steps \ {"failed", "nodir"} /\ StageOf(step) = "fetching"
    BY DEF Steps, StageOf
  <2>0. GoTo(j, step)
    BY <1>4 DEF GoTo
  <2>2. Stages' = [Stages EXCEPT ![j] = "fetching"] /\ Stages[j] = "fetching"
        /\ UNCHANGED <<Unsettled, Expired, States>>
    BY <1>1, <2>1, <2>0, GoesOn
  <2>3. UNCHANGED Stages
    BY <2>2 DEF Stages
  <2>4. UNCHANGED TempDirs
    <3>1. \A k \in Jobs : \/ pc'[k] = pc[k] /\ file'[k] = file[k]
                          \/ k = j /\ pc[k] \in {"request", "copy"}
                             /\ pc'[k] \in {"request", "copy"}
      BY <1>1, <1>4
    <3> QED BY <3>1 DEF TempDirs
  <2> QED BY <2>2, <2>3, <2>4 DEF mapped
<1>5. CASE GoTo(j, "validate") /\ pc[j] = "copy" /\ file' = file
  <2>1. "validate" \in Steps \ {"failed", "nodir"} /\ StageOf("validate") = "validate"
    BY DEF Steps, StageOf
  <2>2. /\ Stages' = [Stages EXCEPT ![j] = "validate"] /\ Stages[j] = "fetching"
        /\ UNCHANGED <<Unsettled, Expired, States>> /\ Unsettled[j] = j
    BY <1>1, <1>5, <2>1, GoesOn
  <2>3. file[j] # NoFile
    BY <1>5 DEF StageInv, FileByStage
  <2>4. TempDirs' = [TempDirs EXCEPT ![j] = @ \cup {"source"}]
    BY <1>1, <1>3, <1>5, <2>3 DEF TempDirs, GoTo
  <2> QED
    BY <2>2, <2>4 DEF Pool!FinishDownload, Pool!GoTo, Pool!poolVars, Pool!lineVars
<1>6. CASE GoTo(j, "failed") /\ file' = file
  <2>1. /\ Stages' = [Stages EXCEPT ![j] = "select"] /\ Stages[j] = "fetching"
        /\ Unsettled' = [Unsettled EXCEPT ![j] = NoJob] /\ Unsettled[j] = j
        /\ States' = [States EXCEPT ![Unsettled[j]] = "failed"]
        /\ Expired' = [Expired EXCEPT ![j] = FALSE]
    BY <1>1, <1>6, EndsJob
  <2>2. \E left \in SUBSET {"source"} : TempDirs' = [TempDirs EXCEPT ![j] = @ \cup left]
    <3>1. TempDirs' = [TempDirs EXCEPT ![j] = IF file[j] = NoFile THEN {} ELSE {"source"}]
      BY <1>1, <1>6 DEF TempDirs, GoTo
    <3> QED BY <1>3, <3>1
  <2> QED
    BY <2>1, <2>2 DEF Pool!FinishDownload, Pool!FailJob, Pool!EndJob, Pool!poolVars,
       Pool!lineVars
<1> QED BY <1>2, <1>4, <1>5, <1>6

LEMMA Validates ==
  ASSUME StageInv, NEW local, NEW j \in Jobs, Validate(j)
  PROVE  Pool(local)!ValidateSource(j)
<1>1. /\ pc[j] = "validate" /\ ~GivenUp(j) /\ UNCHANGED <<file, ctxDone>>
      /\ StageOf(pc[j]) = "validate" /\ SourceInv /\ pc \in [Jobs -> Steps]
      /\ GoTo(j, "convert") \/ GoTo(j, "failed")
  BY DEF Validate, GivenUp, StageOf, StageInv, SourceInv, Typed
<1>2. UNCHANGED TempDirs /\ "source" \in TempDirs[j]
  <2>1. file[j] # NoFile
    BY <1>1 DEF StageInv, FileByStage
  <2> QED BY <1>1, <2>1 DEF TempDirs, GoTo
<1>3. CASE GoTo(j, "convert")
  <2>1. "convert" \in Steps \ {"failed", "nodir"} /\ StageOf("convert") = "probe"
    BY DEF Steps, Ended, StageOf
  <2>2. /\ Stages' = [Stages EXCEPT ![j] = "probe"] /\ Stages[j] = "validate"
        /\ UNCHANGED <<Unsettled, Expired, States>> /\ Unsettled[j] = j
    BY <1>1, <1>3, <2>1, GoesOn
  <2> QED
    BY <1>2, <2>2 DEF Pool!ValidateSource, Pool!GoTo, Pool!poolVars, Pool!lineVars,
       Pool!dataVars
<1>4. CASE GoTo(j, "failed")
  <2>1. /\ Stages' = [Stages EXCEPT ![j] = "select"] /\ Stages[j] = "validate"
        /\ Unsettled' = [Unsettled EXCEPT ![j] = NoJob]
        /\ States' = [States EXCEPT ![Unsettled[j]] = "failed"]
        /\ Expired' = [Expired EXCEPT ![j] = FALSE]
    BY <1>1, <1>4, EndsJob
  <2> QED
    BY <1>2, <2>1 DEF Pool!ValidateSource, Pool!FailJob, Pool!EndJob, Pool!poolVars,
       Pool!lineVars, Pool!dataVars
<1> QED BY <1>1, <1>3, <1>4

LEMMA TimesOut ==
  ASSUME StageInv, NEW local, NEW j \in Jobs, ContextEnds(j)
  PROVE  Pool(local)!Timeout(j) \/ UNCHANGED mapped
<1>1. /\ pc[j] \in {"fetch", "request", "copy", "validate"} /\ ~ctxDone[j]
      /\ ctxDone' = [ctxDone EXCEPT ![j] = TRUE] /\ ctxDone \in [Jobs -> BOOLEAN]
      /\ UNCHANGED <<pc, file>>
  BY DEF ContextEnds, StageInv, SourceInv, Typed, Steps
<1>2. UNCHANGED <<Stages, Unsettled, States, TempDirs>> /\ ~GivenUp(j)
  BY <1>1 DEF Stages, Unsettled, States, TempDirs, GivenUp
<1>3. Expired' = [Expired EXCEPT ![j] = TRUE] /\ ~Expired[j]
  BY <1>1, <1>2 DEF Expired, GivenUp
<1>4. Stages[j] \in {"fetch", "fetching", "validate"}
  BY <1>1 DEF Stages, StageOf
<1> QED
  BY <1>2, <1>3, <1>4 DEF Pool!Timeout, Pool!Busy, Pool!BusyAt, Pool!JobCtxDone,
     Pool!WorkerCtxDone, Pool!poolVars, Pool!lineVars, Pool!dataVars

-------------------------------------------------------------------------------
(* The theorem.                                                            *)

\* Whatever the backends do between the routing of a URL and the validation of
\* its file is what WorkerPool's StartDownload, FinishDownload, ValidateSource
\* and Timeout allow a worker in these stages.
THEOREM DownloadsAreStages == Spec => ImplementsStages
<1> DEFINE Stage == \E local \in SUBSET Jobs : local = LocalJobs /\ \E j \in Jobs :
          \/ Pool(local)!StartDownload(j) \/ Pool(local)!FinishDownload(j)
          \/ Pool(local)!ValidateSource(j) \/ Pool(local)!Timeout(j)
<1>1. ASSUME StageInv, [Next]_vars
      PROVE  Stage \/ UNCHANGED <<Stages, Unsettled, Expired, States, TempDirs>>
  <2>1. CASE UNCHANGED vars
    BY <2>1 DEF vars, Stages, Unsettled, Expired, States, TempDirs, GivenUp
  <2>2. ASSUME NEW j \in Jobs, Download(j) \/ ContextEnds(j)
        PROVE  Stage \/ UNCHANGED <<Stages, Unsettled, Expired, States, TempDirs>>
    <3>1. PICK local \in SUBSET Jobs : local = LocalJobs
      BY DEF LocalJobs
    <3>2. \/ Pool(local)!StartDownload(j) \/ Pool(local)!FinishDownload(j)
          \/ Pool(local)!ValidateSource(j) \/ Pool(local)!Timeout(j)
          \/ UNCHANGED mapped
      BY <1>1, <2>2, <3>1, Fetches, Downloads, Validates, TimesOut DEF Download
    <3> QED BY <3>1, <3>2 DEF mapped
  <2> QED BY <1>1, <2>1, <2>2 DEF Next, AllEnded
<1>2. StageInv /\ [Next]_vars => [Stage]_<<Stages, Unsettled, Expired, States, TempDirs>>
  BY <1>1
<1> HIDE DEF Stage
<1>3. Spec => [][Stage]_<<Stages, Unsettled, Expired, States, TempDirs>>
  BY <1>2, StageInvariant, PTL DEF Spec
<1> QED BY <1>3 DEF Stage, ImplementsStages
===============================================================================
