---------------------------- MODULE FFmpegRunProofs ----------------------------
(***************************************************************************)
(* Proofs about FFmpegRun, for any number of runs, whatever ffprobe tells  *)
(* of the source and ffmpeg counts, and any pipe and buffer.               *)
(***************************************************************************)
EXTENDS FFmpegRun, SequenceTheorems, WellFoundedInduction, TLAPS

-------------------------------------------------------------------------------
(* Numbers.                                                                *)

\* Every nonempty set of naturals has a least element: what the first video
\* stream, the first frame of a line and the end of a line are chosen by.
LEMMA LeastElement ==
  ASSUME NEW S \in SUBSET Nat, S # {}
  PROVE  \E i \in S : \A k \in S : i <= k
<1>1. PICK i \in S : \A k \in S : <<k, i>> \notin OpToRel(<, Nat)
  BY WFMin, NatLessThanWellFounded
<1>2. \A k \in S : ~(k < i)
  BY <1>1 DEF OpToRel
<1> QED BY <1>2

-------------------------------------------------------------------------------
(* What ffprobe says.                                                      *)

\* The total is a natural number, whatever the duration and the rate.
LEMMA TotalIsNatural ==
  ASSUME media \in Medias
  PROVE  TotalFrames \in Nat
<1>1. CASE VideoStreams = {}
  BY <1>1 DEF TotalFrames
<1>2. CASE VideoStreams # {}
  <2> DEFINE first == CHOOSE i \in VideoStreams : \A k \in VideoStreams : i <= k
  <2>1. media.streams \in Seq(Stream) /\ media.duration \in Nat /\ Unit \in Nat \ {0}
    BY MediaAssumption, RunAssumption
  <2>2. VideoStreams \in SUBSET Nat
    BY <2>1 DEF VideoStreams
  <2>3. first \in VideoStreams
    BY <1>2, <2>2, LeastElement
  <2>4. first \in DOMAIN media.streams
    BY <2>3 DEF VideoStreams
  <2>5. VideoRate = parseFrameRate(media.streams[first].rate)
    BY DEF VideoRate
  <2> HIDE DEF first
  <2>6. VideoRate[1] \in Nat /\ VideoRate[2] \in Nat \ {0}
    BY <2>4, <2>5, MediaAssumption
  <2>7. media.duration * VideoRate[1] \in Nat /\ VideoRate[2] * Unit \in Nat \ {0}
    BY <2>1, <2>6
  <2>8. (media.duration * VideoRate[1]) \div (VideoRate[2] * Unit) \in Nat
    BY <2>7
  <2> QED BY <1>2, <2>8 DEF TotalFrames
<1> QED BY <1>1, <1>2

-------------------------------------------------------------------------------
(* What the scanner hands over.                                            *)

\* A step that leaves the file alone leaves the total.
LEMMA SameFile ==
  ASSUME media' = media
  PROVE  Chunk' = Chunk /\ TotalFrames' = TotalFrames
  BY DEF Chunk, TotalFrames, VideoStreams, VideoRate

\* The first line of what the scanner holds is a part of it.
LEMMA FirstLineIsThere ==
  ASSUME NEW b \in Seq(Chunk), b # <<>>
  PROVE  FirstLine(b) \in 1..Len(b)
<1>1. LineEndsIn(b) \in SUBSET Nat /\ LineEndsIn(b) \subseteq 1..Len(b)
  BY DEF LineEndsIn
<1>2. CASE HasLine(b)
  <2>1. \E i \in LineEndsIn(b) : \A k \in LineEndsIn(b) : i <= k
    BY <1>1, <1>2, LeastElement DEF HasLine
  <2>2. FirstLine(b) \in LineEndsIn(b)
    BY <1>2, <2>1 DEF FirstLine
  <2> QED BY <1>1, <2>2
<1>3. CASE ~HasLine(b)
  BY <1>3, EmptySeq DEF FirstLine
<1> QED BY <1>2, <1>3

\* The frame parseProgress finds is a count of ffmpeg's.
LEMMA ParsedFrameIsOne ==
  ASSUME NEW line \in Seq(Chunk), ParsedFrames(line) # {}
  PROVE  ParsedFrame(line) \in Counts
<1>1. ParsedFrames(line) \in SUBSET Nat
  BY DEF ParsedFrames
<1>2. PICK i \in ParsedFrames(line) : ParsedFrame(line) = line[i].frame
  BY <1>1, LeastElement DEF ParsedFrame
<1>3. line[i] \in Chunk /\ line[i].frame # NoFrame
  BY <1>2 DEF ParsedFrames
<1> QED BY <1>2, <1>3 DEF Chunk

-------------------------------------------------------------------------------
(* The inductive invariant: a progress is set only after ffprobe was asked *)
(* and never before the total, and the job's goroutine goes on to the next *)
(* run only when the one before has ended well.                            *)

RunOrder ==
    /\ total \in {0, TotalFrames}
    /\ run = 0 => progress = None /\ total = 0
    /\ run = 0 => \A r \in Runs : reader[r] = "none"
    /\ \A r \in Runs : r < run => proc[r] = "exited"
    /\ state = "completed" => run = NRuns + 1

\* The type invariant in parts, by who writes the variables.
JobTyped ==
    /\ ctxDone \in BOOLEAN
    /\ state \in {"processing", "completed", "failed"}
    /\ progress \in {None, Full} \cup (Counts \X ({total} \ {0}))
    /\ run \in 0..(NRuns + 1)
    /\ media \in Medias /\ total \in Nat

ProcTyped ==
    /\ proc \in [Runs -> {"none", "running"} \cup Ended]
    /\ toWrite \in [Runs -> 0..MaxChunks]
    /\ pipe \in [Runs -> Seq(Chunk)] /\ \A r \in Runs : Len(pipe[r]) <= PipeCap

ReaderTyped ==
    /\ reader \in [Runs -> {"none", "scanning", "calling", "stopped"}]
    /\ buf \in [Runs -> Seq(Chunk)]
    /\ report \in [Runs -> {0} \cup Counts]
    /\ \A r \in Runs : reader[r] = "calling" => report[r] \in Counts

RunInv == JobTyped /\ ProcTyped /\ ReaderTyped /\ RunOrder

LEMMA InitRunInv == Init => RunInv
<1> SUFFICES ASSUME Init PROVE RunInv
  OBVIOUS
<1>1. JobTyped
  <2>1. progress \in {None, Full} /\ state = "processing"
    BY DEF Init
  <2>2. run \in 0..(NRuns + 1) /\ total \in Nat
    BY RunAssumption DEF Init
  <2> QED BY <2>1, <2>2 DEF Init, JobTyped
<1>2. ProcTyped
  <2>1. <<>> \in Seq(Chunk) /\ Len(<<>>) = 0
    BY EmptySeq
  <2> QED BY <2>1, RunAssumption DEF Init, ProcTyped
<1>3. ReaderTyped
  <2>1. <<>> \in Seq(Chunk)
    BY EmptySeq
  <2> QED BY <2>1 DEF Init, ReaderTyped
<1>4. RunOrder
  BY RunAssumption DEF Init, RunOrder, Runs
<1> QED BY <1>1, <1>2, <1>3, <1>4 DEF RunInv

\* ffprobe's answer.
LEMMA ProbeKeeps == RunInv /\ Probe => RunInv'
<1> SUFFICES ASSUME RunInv, Probe PROVE RunInv'
  OBVIOUS
<1>1. media \in Medias /\ media' = media
  BY DEF Probe, JobFails, fileVars, RunInv, JobTyped
<1>2. TotalFrames \in Nat /\ Chunk' = Chunk /\ TotalFrames' = TotalFrames
  BY <1>1, TotalIsNatural, SameFile
<1>3. JobTyped'
  BY <1>1, <1>2, RunAssumption DEF Probe, JobFails, fileVars, RunInv, RunOrder, JobTyped
<1>4. ProcTyped' /\ ReaderTyped'
  BY <1>1, <1>2 DEF Probe, RunInv, ProcTyped, ReaderTyped, procVars, readerVars
<1>5. RunOrder'
  BY <1>1, <1>2, RunAssumption
     DEF Probe, JobFails, fileVars, procVars, readerVars, RunInv, RunOrder, Runs
<1> QED BY <1>3, <1>4, <1>5 DEF RunInv

\* Of what a step does not touch, its type and order stay.
LEMMA StillTyped ==
  ASSUME RunInv, media' = media
  PROVE  /\ UNCHANGED jobVars => JobTyped'
         /\ UNCHANGED procVars => ProcTyped'
         /\ UNCHANGED readerVars => ReaderTyped'
<1>1. Chunk' = Chunk
  BY SameFile
<1>2. ASSUME UNCHANGED jobVars PROVE JobTyped'
  BY <1>2 DEF RunInv, JobTyped, jobVars, fileVars
<1>3. ASSUME UNCHANGED procVars PROVE ProcTyped'
  BY <1>1, <1>3 DEF RunInv, ProcTyped, procVars
<1>4. ASSUME UNCHANGED readerVars PROVE ReaderTyped'
  BY <1>1, <1>4 DEF RunInv, ReaderTyped, readerVars
<1> QED BY <1>2, <1>3, <1>4

\* cmd.Start, or its refusal.
LEMMA StartRunKeeps == RunInv /\ StartRun => RunInv'
<1> SUFFICES ASSUME RunInv, StartRun PROVE RunInv'
  OBVIOUS
<1>1. media' = media
  BY DEF StartRun, JobFails, jobVars, fileVars
<1>2. TotalFrames' = TotalFrames /\ Chunk' = Chunk
  BY <1>1, SameFile
<1>3. JobTyped'
  <2>1. CASE UNCHANGED jobVars
    BY <1>1, <2>1, StillTyped
  <2>2. CASE JobFails
    BY <1>1, <2>2 DEF JobFails, fileVars, RunInv, JobTyped
  <2> QED BY <2>1, <2>2 DEF StartRun
<1>4. ProcTyped'
  <2>1. CASE UNCHANGED procVars
    BY <1>1, <2>1, StillTyped
  <2>2. CASE ~UNCHANGED procVars
    BY <1>2, <2>2 DEF StartRun, RunInv, ProcTyped
  <2> QED BY <2>1, <2>2
<1>5. ReaderTyped'
  BY <1>1, <1>2 DEF StartRun, RunInv, ReaderTyped, readerVars
<1>6. RunOrder'
  <2>1. run' = run /\ run \in Runs /\ run # 0 /\ total' = total
    BY RunAssumption DEF StartRun, JobFails, jobVars, fileVars, Runs
  <2>2. state' # "completed"
    BY DEF StartRun, JobFails, jobVars
  <2>3. \A r \in Runs : r < run => proc'[r] = proc[r]
    <3>1. proc' = proc \/ proc' = [proc EXCEPT ![run] = "running"]
      BY DEF StartRun, procVars
    <3>2. \A r \in Runs : r < run => r # run
      BY <2>1 DEF Runs
    <3> QED BY <2>1, <3>1, <3>2 DEF RunInv, ProcTyped
  <2> QED BY <1>2, <2>1, <2>2, <2>3 DEF RunInv, RunOrder
<1> QED BY <1>3, <1>4, <1>5, <1>6 DEF RunInv

\* Wait's return: the job's goroutine goes on only after an exit in order.
LEMMA WaitReturnsKeeps == RunInv /\ WaitReturns => RunInv'
<1> SUFFICES ASSUME RunInv, WaitReturns PROVE RunInv'
  OBVIOUS
<1>1. media' = media
  BY DEF WaitReturns, JobFails, fileVars
<1>2. TotalFrames' = TotalFrames /\ Chunk' = Chunk
  BY <1>1, SameFile
<1>3. JobTyped'
  BY <1>1, RunAssumption DEF WaitReturns, JobFails, fileVars, RunInv, JobTyped, Runs
<1>4. ProcTyped'
  <2>1. <<>> \in Seq(Chunk) /\ Len(<<>>) = 0
    BY EmptySeq
  <2> QED BY <1>2, <2>1, RunAssumption DEF WaitReturns, RunInv, ProcTyped
<1>5. ReaderTyped'
  BY <1>1, StillTyped DEF WaitReturns
<1>6. RunOrder'
  BY <1>2, RunAssumption
     DEF WaitReturns, RanWell, JobFails, fileVars, readerVars, RunInv, RunOrder, JobTyped, Runs
<1> QED BY <1>3, <1>4, <1>5, <1>6 DEF RunInv

\* The worker's final status, and the end of the context.
LEMMA JobEndsKeeps == RunInv /\ (FinishJob \/ ContextEnds) => RunInv'
<1> SUFFICES ASSUME RunInv, FinishJob \/ ContextEnds PROVE RunInv'
  OBVIOUS
<1>1. media' = media /\ UNCHANGED <<procVars, readerVars>>
  BY DEF FinishJob, ContextEnds, fileVars
<1>2. TotalFrames' = TotalFrames
  BY <1>1, SameFile
<1>3. JobTyped'
  BY <1>1 DEF FinishJob, ContextEnds, fileVars, RunInv, JobTyped
<1>4. ProcTyped' /\ ReaderTyped'
  BY <1>1, StillTyped
<1>5. RunOrder'
  BY <1>1, <1>2, RunAssumption
     DEF FinishJob, ContextEnds, fileVars, procVars, readerVars, RunInv, RunOrder, JobTyped, Runs
<1> QED BY <1>3, <1>4, <1>5 DEF RunInv

\* The ffmpeg process: only one that is running changes its state.
LEMMA ProcessKeeps == ASSUME NEW r \in Runs PROVE RunInv /\ Process(r) => RunInv'
<1> SUFFICES ASSUME RunInv, Process(r) PROVE RunInv'
  OBVIOUS
<1>1. media' = media /\ UNCHANGED <<jobVars, readerVars>>
  BY DEF Process, Write, Exit, Fail, Kill, jobVars, fileVars
<1>2. TotalFrames' = TotalFrames /\ Chunk' = Chunk
  BY <1>1, SameFile
<1>3. JobTyped' /\ ReaderTyped'
  BY <1>1, StillTyped
<1>4. ProcTyped'
  <2>1. CASE Write(r)
    <3>1. PICK c \in Chunk : pipe' = [pipe EXCEPT ![r] = Append(@, c)]
      BY <2>1 DEF Write
    <3>2. pipe[r] \in Seq(Chunk) /\ Len(pipe[r]) \in Nat /\ Len(pipe[r]) < PipeCap
      BY <2>1, LenProperties DEF Write, RunInv, ProcTyped
    <3>3. Append(pipe[r], c) \in Seq(Chunk) /\ Len(Append(pipe[r], c)) = Len(pipe[r]) + 1
      BY <3>2, AppendProperties
    <3>4. Len(Append(pipe[r], c)) <= PipeCap
      BY <3>2, <3>3, RunAssumption
    <3>5. toWrite' \in [Runs -> 0..MaxChunks] /\ proc' = proc
      BY <2>1, RunAssumption DEF Write, RunInv, ProcTyped
    <3> QED BY <1>2, <3>1, <3>3, <3>4, <3>5 DEF RunInv, ProcTyped
  <2>2. CASE ~Write(r)
    BY <1>2, <2>2 DEF Process, Exit, Fail, Kill, RunInv, ProcTyped, Ended
  <2> QED BY <2>1, <2>2
<1>5. RunOrder'
  BY <1>1, <1>2
     DEF Process, Write, Exit, Fail, Kill, jobVars, fileVars, readerVars,
         RunInv, RunOrder, JobTyped, ProcTyped, Runs
<1> QED BY <1>3, <1>4, <1>5 DEF RunInv

\* The scanning goroutine: what it holds are chunks, what it reports is a
\* frame of the file, and its callback knows the total.
LEMMA ReaderKeeps == ASSUME NEW r \in Runs PROVE RunInv /\ Reader(r) => RunInv'
<1> SUFFICES ASSUME RunInv, Reader(r) PROVE RunInv'
  OBVIOUS
<1>1. media \in Medias /\ media' = media /\ UNCHANGED <<ctxDone, state, run, total, proc, toWrite>>
  BY DEF Reader, Fill, Scan, Callback, StopScanning, jobVars, fileVars, procVars,
         RunInv, JobTyped
<1>2. TotalFrames' = TotalFrames /\ Chunk' = Chunk
  BY <1>1, SameFile
<1>3. reader[r] # "none" /\ reader' = [reader EXCEPT ![r] = reader'[r]]
  BY DEF Reader, Fill, Scan, Callback, StopScanning, RunInv, ReaderTyped
<1>4. JobTyped'
  <2>1. CASE UNCHANGED jobVars
    BY <1>1, <2>1, StillTyped
  <2>2. CASE Callback(r)
    <3>1. report[r] \in Counts
      BY <2>2 DEF Callback, RunInv, ReaderTyped
    <3>2. progress' \in {None} \cup (Counts \X ({total} \ {0}))
      BY <2>2, <3>1 DEF Callback, RunInv, JobTyped
    <3> QED BY <1>1, <3>2 DEF RunInv, JobTyped
  <2> QED BY <2>1, <2>2 DEF Reader, Fill, Scan, StopScanning
<1>5. ProcTyped'
  <2>1. CASE Fill(r)
    <3>1. <<>> \in Seq(Chunk) /\ Len(<<>>) = 0
      BY EmptySeq
    <3> QED BY <1>1, <1>2, <2>1, <3>1, RunAssumption DEF Fill, RunInv, ProcTyped
  <2>2. CASE UNCHANGED procVars
    BY <1>1, <2>2, StillTyped
  <2> QED BY <2>1, <2>2 DEF Reader, Scan, Callback, StopScanning, procVars, jobVars
<1>6. ReaderTyped'
  <2>1. CASE Fill(r)
    <3>1. buf[r] \o pipe[r] \in Seq(Chunk)
      BY ConcatProperties DEF RunInv, ProcTyped, ReaderTyped
    <3> QED BY <1>1, <1>2, <2>1, <3>1 DEF Fill, RunInv, ReaderTyped
  <2>2. CASE Scan(r)
    <3> DEFINE n    == FirstLine(buf[r])
               line == SubSeq(buf[r], 1, n)
               rest == SubSeq(buf[r], n + 1, Len(buf[r]))
    <3>1. buf[r] \in Seq(Chunk) /\ buf[r] # <<>>
      BY <2>2 DEF Scan, HasLine, LineEndsIn, RunInv, ReaderTyped
    <3>2. n \in 1..Len(buf[r]) /\ Len(buf[r]) \in Nat
      BY <3>1, FirstLineIsThere, LenProperties
    <3>3. \A i \in 1..Len(buf[r]) : buf[r][i] \in Chunk
      BY <3>1, ElementOfSeq
    <3>4. line \in Seq(Chunk)
      BY <3>2, <3>3, SubSeqProperties
    <3>5. rest \in Seq(Chunk)
      BY <3>2, <3>3, SubSeqProperties
    <3>6. ParsedFrames(line) # {} => ParsedFrame(line) \in Counts
      BY <3>4, ParsedFrameIsOne
    <3>7. buf' = [buf EXCEPT ![r] = rest]
      BY <2>2 DEF Scan
    <3>8. /\ report' \in [Runs -> {0} \cup Counts]
          /\ \A s \in Runs : reader'[s] = "calling" => report'[s] \in Counts
          /\ reader' \in [Runs -> {"none", "scanning", "calling", "stopped"}]
      <4>1. \/ /\ ParsedFrames(line) # {}
               /\ report' = [report EXCEPT ![r] = ParsedFrame(line)]
               /\ reader' = [reader EXCEPT ![r] = "calling"]
            \/ UNCHANGED <<report, reader>>
        BY <2>2 DEF Scan
      <4> HIDE DEF line
      <4> QED BY <3>6, <4>1 DEF RunInv, ReaderTyped
    <3> HIDE DEF rest
    <3> QED BY <1>1, <1>2, <3>5, <3>7, <3>8 DEF RunInv, ReaderTyped
  <2>3. CASE Callback(r) \/ StopScanning(r)
    BY <1>1, <1>2, <2>3 DEF Callback, StopScanning, RunInv, ReaderTyped
  <2> QED BY <2>1, <2>2, <2>3 DEF Reader
<1>7. run # 0
  BY <1>3 DEF RunInv, RunOrder
<1>8. RunOrder'
  BY <1>1, <1>2, <1>7 DEF RunInv, RunOrder
<1> QED BY <1>4, <1>5, <1>6, <1>8 DEF RunInv

LEMMA NextKeepsRunInv == RunInv /\ [Next]_vars => RunInv'
<1>1. ASSUME RunInv, UNCHANGED vars PROVE RunInv'
  <2>1. media' = media /\ UNCHANGED <<jobVars, procVars, readerVars>>
    BY <1>1 DEF vars, jobVars, fileVars
  <2>2. JobTyped' /\ ProcTyped' /\ ReaderTyped' /\ TotalFrames' = TotalFrames
    BY <1>1, <2>1, StillTyped, SameFile
  <2>3. RunOrder'
    BY <1>1, <2>1, <2>2 DEF RunInv, RunOrder, jobVars, fileVars, procVars, readerVars
  <2> QED BY <2>2, <2>3 DEF RunInv
<1>2. ASSUME RunInv, Next PROVE RunInv'
  BY <1>1, <1>2, ProbeKeeps, StartRunKeeps, WaitReturnsKeeps, JobEndsKeeps,
     ProcessKeeps, ReaderKeeps DEF Next, JobStep, Terminated
<1> QED BY <1>1, <1>2

\* What holds of every reachable state: each part has its type, the total is
\* ffprobe's once it was asked, and the runs before the present one ended well.
THEOREM RunInvariant == Spec => []RunInv
  BY InitRunInv, NextKeepsRunInv, PTL DEF Spec

-------------------------------------------------------------------------------
(* The properties.                                                         *)

\* Each part of a job's run has its type, for any files, pipe and buffer: a
\* progress is none, 1.0, or a count of ffmpeg's over a known total.
THEOREM RunTypeCorrect == Spec => []TypeOK
<1>1. RunInv => TypeOK
  BY DEF RunInv, JobTyped, ProcTyped, ReaderTyped, TypeOK
<1> QED BY <1>1, RunInvariant, PTL

\* A job is completed only if each of its ffmpeg processes ended well, for
\* any number of runs and whatever the readers do (video_info.go:227).
THEOREM CompletedJobsRanAll == Spec => []CompletedMeansAllRan
<1>1. RunInv => CompletedMeansAllRan
  BY RunAssumption DEF RunInv, RunOrder, CompletedMeansAllRan, Runs
<1> QED BY <1>1, RunInvariant, PTL

-------------------------------------------------------------------------------
(* The processes and their readers.                                        *)

\* A job has one ffmpeg process at a time, and none once it is settled.
OneProcessAtATime ==
    \A r \in Runs : proc[r] = "running" => r = run /\ state = "processing"

\* A process has a reader from its start on, and the reader stops at the end
\* of the input or at a line that fills its buffer, and nowhere else.
ReaderOK(r) ==
    /\ reader[r] = "none" <=> proc[r] = "none"
    /\ reader[r] = "stopped" =>
          TokenFull(r) \/ (buf[r] = <<>> /\ NothingMoreToRead(r))

ProcessInv ==
    /\ OneProcessAtATime
    /\ \A r \in Runs : r > run => proc[r] = "none"
    /\ \A r \in Runs : ReaderOK(r)

\* As long as no line fills the buffer, a process that runs can go on, or its
\* reader can: the two never wait for each other.
ReaderKeepsPace ==
    \A r \in Runs : proc[r] = "running" /\ ~TokenFull(r) =>
        \/ toWrite[r] = 0 \/ Len(pipe[r]) < PipeCap
        \/ reader[r] = "calling"
        \/ reader[r] = "scanning" /\ HasLine(buf[r])
        \/ reader[r] = "scanning" /\ Len(buf[r]) < TokenCap /\ pipe[r] # <<>>

\* What is left to do for a process and its reader: a chunk is written, read
\* and handed over, and each of the two ends once.
ReaderWork(r) ==
    IF reader[r] = "calling" THEN 2 ELSE IF reader[r] = "scanning" THEN 1 ELSE 0
ProcWork(r) == IF proc[r] = "running" THEN 1 ELSE 0
Weigh(unwritten, unread, held, ofReader, ofProc) ==
    4 * unwritten + 3 * unread + 2 * held + ofReader + ofProc
WorkLeft(r) ==
    Weigh(toWrite[r], Len(pipe[r]), Len(buf[r]), ReaderWork(r), ProcWork(r))

\* Each of their steps leaves less, and nobody else's leaves more but the
\* start of the process.
WorkShrinks ==
    [][\A r \in Runs :
          /\ WorkLeft(r) \in Nat
          /\ Process(r) \/ Reader(r) => WorkLeft(r)' < WorkLeft(r)
          /\ proc[r] # "none" => WorkLeft(r)' <= WorkLeft(r)]_vars

\* What a step of the job's goroutine, or of the clock, does to the runs: it
\* may start the process it is at, or take what is in that one's pipe.
LEMMA JobStepOnRuns ==
  ASSUME RunInv, JobStep \/ ContextEnds \/ UNCHANGED vars
  PROVE  \/ /\ StartRun /\ run \in Runs /\ proc[run] = "none" /\ state = "processing"
            /\ proc' = [proc EXCEPT ![run] = "running"]
            /\ reader' = [reader EXCEPT ![run] = "scanning"]
            /\ UNCHANGED <<jobVars, pipe, buf, report>>
         \/ /\ UNCHANGED <<proc, toWrite, reader, buf, run>>
            /\ pipe' = pipe \/ (run \in Runs /\ proc[run] \in Ended /\ pipe' = [pipe EXCEPT ![run] = <<>>])
            /\ state' = state \/ \A r \in Runs : r = run => proc[r] # "running"
         \/ /\ UNCHANGED <<proc, toWrite, reader, buf, pipe>>
            /\ run = 0 /\ run' = 1 /\ state' = state
         \/ /\ UNCHANGED <<proc, toWrite, reader, buf, state>>
            /\ run \in Runs /\ run' = run + 1 /\ proc[run] = "exited"
            /\ pipe' = [pipe EXCEPT ![run] = <<>>]
<1>1. CASE ContextEnds \/ UNCHANGED vars
  BY <1>1 DEF ContextEnds, vars, jobVars, procVars, readerVars
<1>2. CASE Probe
  BY <1>2 DEF Probe, JobFails, procVars, readerVars, Runs
<1>3. CASE StartRun
  BY <1>3 DEF StartRun, JobFails, procVars, readerVars
<1>4. CASE WaitReturns
  BY <1>4 DEF WaitReturns, JobFails, RanWell, readerVars, Ended
<1>5. CASE FinishJob
  <2>1. \A r \in Runs : r # run
    BY <1>5, RunAssumption DEF FinishJob, Runs
  <2> QED BY <1>5, <2>1 DEF FinishJob, procVars, readerVars
<1> QED BY <1>1, <1>2, <1>3, <1>4, <1>5 DEF JobStep

LEMMA JobStepKeepsProcesses ==
  ASSUME RunInv, ProcessInv, JobStep \/ ContextEnds \/ UNCHANGED vars
  PROVE  ProcessInv'
<1>1. /\ run \in 0 .. (NRuns + 1) /\ NRuns \in Nat
      /\ proc \in [Runs -> {"none", "running"} \cup Ended]
      /\ reader \in [Runs -> {"none", "scanning", "calling", "stopped"}]
      /\ pipe \in [Runs -> Seq(Chunk)]
  BY RunAssumption DEF RunInv, JobTyped, ProcTyped, ReaderTyped
<1>2. CASE /\ run \in Runs /\ proc[run] = "none" /\ state = "processing"
           /\ proc' = [proc EXCEPT ![run] = "running"]
           /\ reader' = [reader EXCEPT ![run] = "scanning"]
           /\ UNCHANGED <<jobVars, pipe, buf, report>>
  <2>1. UNCHANGED <<run, state>>
    BY <1>2 DEF jobVars
  <2>2. OneProcessAtATime' /\ \A r \in Runs : r > run' => proc'[r] = "none"
    BY <1>1, <1>2, <2>1 DEF ProcessInv, OneProcessAtATime, Runs
  <2>3. ASSUME NEW r \in Runs PROVE ReaderOK(r)'
    <3>1. CASE r = run
      BY <1>1, <1>2, <3>1 DEF ReaderOK
    <3>2. CASE r # run
      BY <1>1, <1>2, <3>2 DEF ProcessInv, ReaderOK, TokenFull, NothingMoreToRead
    <3> QED BY <3>1, <3>2
  <2> QED BY <2>2, <2>3 DEF ProcessInv
<1>3. ASSUME UNCHANGED <<proc, reader, buf>>,
             pipe' = pipe \/ (run \in Runs /\ pipe' = [pipe EXCEPT ![run] = <<>>])
      PROVE  \A r \in Runs : ReaderOK(r)'
  <2> SUFFICES ASSUME NEW r \in Runs PROVE ReaderOK(r)'
    OBVIOUS
  <2>1. pipe[r] = <<>> => pipe'[r] = <<>>
    BY <1>1, <1>3
  <2> QED BY <1>3, <2>1 DEF ProcessInv, ReaderOK, TokenFull, NothingMoreToRead
<1>4. CASE /\ UNCHANGED <<proc, toWrite, reader, buf, run>>
           /\ pipe' = pipe \/ (run \in Runs /\ pipe' = [pipe EXCEPT ![run] = <<>>])
           /\ state' = state \/ \A r \in Runs : r = run => proc[r] # "running"
  BY <1>3, <1>4 DEF ProcessInv, OneProcessAtATime
<1>5. CASE /\ UNCHANGED <<proc, toWrite, reader, buf, pipe>>
           /\ run = 0 /\ run' = 1 /\ state' = state
  <2>1. \A r \in Runs : proc[r] = "none"
    BY <1>5, <1>1 DEF ProcessInv, Runs
  <2> QED BY <1>3, <1>5, <2>1 DEF ProcessInv, OneProcessAtATime
<1>6. CASE /\ UNCHANGED <<proc, toWrite, reader, buf, state>>
           /\ run \in Runs /\ run' = run + 1 /\ proc[run] = "exited"
           /\ pipe' = [pipe EXCEPT ![run] = <<>>]
  <2>1. \A r \in Runs : proc[r] # "running"
    BY <1>6 DEF ProcessInv, OneProcessAtATime
  <2>2. \A r \in Runs : r > run + 1 => r > run
    BY <1>6 DEF Runs
  <2> QED BY <1>3, <1>6, <2>1, <2>2 DEF ProcessInv, OneProcessAtATime
<1> QED BY <1>2, <1>4, <1>5, <1>6, JobStepOnRuns

LEMMA ProcessKeepsProcesses ==
  ASSUME RunInv, ProcessInv, NEW r \in Runs, Process(r) PROVE ProcessInv'
<1>1. /\ UNCHANGED <<run, state, reader, buf>>
      /\ proc[r] = "running"
      /\ \/ proc' = proc /\ \E c \in Chunk : pipe' = [pipe EXCEPT ![r] = Append(@, c)]
         \/ pipe' = pipe /\ \E e \in Ended : proc' = [proc EXCEPT ![r] = e]
      /\ proc \in [Runs -> {"none", "running"} \cup Ended]
      /\ pipe \in [Runs -> Seq(Chunk)]
  BY DEF Process, Write, Exit, Fail, Kill, jobVars, readerVars, Ended, RunInv, ProcTyped
<1>2. OneProcessAtATime' /\ \A s \in Runs : s > run' => proc'[s] = "none"
  BY <1>1 DEF ProcessInv, OneProcessAtATime, Ended
<1>3. ASSUME NEW s \in Runs PROVE ReaderOK(s)'
  <2>1. CASE s = r
    <3>1. reader[r] # "none" /\ proc'[r] # "none" /\ (reader[r] = "stopped" => TokenFull(r))
      BY <1>1 DEF ProcessInv, ReaderOK, NothingMoreToRead, Ended
    <3> QED BY <1>1, <2>1, <3>1 DEF ReaderOK, TokenFull
  <2>2. CASE s # r
    BY <1>1, <2>2 DEF ProcessInv, ReaderOK, TokenFull, NothingMoreToRead
  <2> QED BY <2>1, <2>2
<1> QED BY <1>2, <1>3 DEF ProcessInv

LEMMA ReaderKeepsProcesses ==
  ASSUME RunInv, ProcessInv, NEW r \in Runs, Reader(r) PROVE ProcessInv'
<1>1. /\ UNCHANGED <<run, state, proc>>
      /\ reader[r] \in {"scanning", "calling"}
      /\ reader' = [reader EXCEPT ![r] = reader'[r]] /\ reader'[r] # "none"
      /\ buf' = [buf EXCEPT ![r] = buf'[r]] /\ pipe' = [pipe EXCEPT ![r] = pipe'[r]]
      /\ reader'[r] = "stopped" => StopScanning(r)
  BY DEF Reader, Fill, Scan, Callback, StopScanning, jobVars, procVars, RunInv, ReaderTyped,
     ProcTyped
<1>2. ASSUME NEW s \in Runs PROVE ReaderOK(s)'
  <2>1. CASE s = r
    <3>1. reader'[r] # "none" /\ proc'[r] # "none"
      BY <1>1 DEF ProcessInv, ReaderOK
    <3>2. CASE StopScanning(r)
      BY <2>1, <3>1, <3>2 DEF StopScanning, ReaderOK, TokenFull, NothingMoreToRead, procVars,
         jobVars
    <3> QED BY <1>1, <2>1, <3>1, <3>2 DEF ReaderOK
  <2>2. CASE s # r
    <3>1. reader'[s] = reader[s] /\ buf'[s] = buf[s] /\ pipe'[s] = pipe[s]
      BY <1>1, <2>2 DEF RunInv, ReaderTyped, ProcTyped
    <3> QED BY <1>1, <3>1 DEF ProcessInv, ReaderOK, TokenFull, NothingMoreToRead
  <2> QED BY <2>1, <2>2
<1> QED BY <1>1, <1>2 DEF ProcessInv, OneProcessAtATime

LEMMA ProcessInvariant == Spec => [](RunInv /\ ProcessInv)
<1>1. Init => ProcessInv
  BY DEF Init, ProcessInv, OneProcessAtATime, ReaderOK
<1>2. RunInv /\ ProcessInv /\ [Next]_vars => ProcessInv'
  BY JobStepKeepsProcesses, ProcessKeepsProcesses, ReaderKeepsProcesses DEF Next, Terminated
<1> QED BY <1>1, <1>2, RunInvariant, PTL DEF Spec

\* No ffmpeg process outlives its job, and the profiles of a job are encoded
\* one after another, whenever the context ends (video_info.go:186-227).
THEOREM NoProcessOutlivesItsJob == Spec => []OneProcessAtATime
<1>1. ProcessInv => OneProcessAtATime
  BY DEF ProcessInv
<1> QED BY <1>1, ProcessInvariant, PTL

\* A full pipe is always being read while the lines fit the scanner's buffer:
\* what the end of an encoding rests on, besides fairness.
THEOREM PipesAreRead == Spec => []ReaderKeepsPace
<1>1. ASSUME RunInv, ProcessInv, NEW r \in Runs, proc[r] = "running", ~TokenFull(r),
             Len(pipe[r]) >= PipeCap
      PROVE  \/ reader[r] = "calling"
             \/ reader[r] = "scanning" /\ HasLine(buf[r])
             \/ reader[r] = "scanning" /\ Len(buf[r]) < TokenCap /\ pipe[r] # <<>>
  <2>1. reader[r] \in {"scanning", "calling"}
    BY <1>1 DEF ProcessInv, ReaderOK, NothingMoreToRead, Ended, RunInv, ReaderTyped
  <2>2. pipe[r] # <<>>
    BY <1>1, EmptySeq, RunAssumption
  <2>3. Len(buf[r]) \in Nat /\ TokenCap \in Nat
    BY RunAssumption, <1>1, LenProperties DEF RunInv, ReaderTyped
  <2> QED BY <1>1, <2>1, <2>2, <2>3 DEF TokenFull
<1>2. ASSUME RunInv PROVE \A r \in Runs : Len(pipe[r]) \in Nat /\ PipeCap \in Nat
  BY <1>2, LenProperties, RunAssumption DEF RunInv, ProcTyped
<1>3. RunInv /\ ProcessInv => ReaderKeepsPace
  BY <1>1, <1>2 DEF ReaderKeepsPace
<1> QED BY <1>3, ProcessInvariant, PTL

Lighter(x, y) == x \in Nat /\ x < y

\* The arithmetic of it: a chunk written, read, handed over or dropped, or a
\* goroutine or a process that goes on, weighs less.
LEMMA WeighShrinks ==
  ASSUME NEW w \in Nat, NEW u \in Nat, NEW h \in Nat, NEW g \in Nat, NEW p \in Nat
  PROVE  /\ Weigh(w, u, h, g, p) \in Nat
         /\ w > 0 => Lighter(Weigh(w - 1, u + 1, h, g, p), Weigh(w, u, h, g, p))
         /\ u > 0 => Lighter(Weigh(w, 0, h + u, g, p), Weigh(w, u, h, g, p))
         /\ \A k \in Nat : k <= u => Weigh(w, k, h, g, p) <= Weigh(w, u, h, g, p)
         /\ \A k \in Nat, v \in {1, 2} :
               k <= h - 1 => Lighter(Weigh(w, u, k, v, p), Weigh(w, u, h, 1, p))
         /\ g > 0 => Lighter(Weigh(w, u, h, g - 1, p), Weigh(w, u, h, g, p))
         /\ Lighter(Weigh(w, u, h, g, 0), Weigh(w, u, h, g, 1))
BY DEF Weigh, Lighter

\* What counts of a run's state, as numbers.
LEMMA WorkTyped ==
  ASSUME RunInv, NEW r \in Runs
  PROVE  /\ toWrite[r] \in Nat /\ Len(pipe[r]) \in Nat /\ Len(buf[r]) \in Nat
         /\ ReaderWork(r) \in Nat /\ ProcWork(r) \in Nat
         /\ WorkLeft(r) \in Nat
<1>1. toWrite[r] \in Nat /\ Len(pipe[r]) \in Nat /\ Len(buf[r]) \in Nat
  BY LenProperties, RunAssumption DEF RunInv, ProcTyped, ReaderTyped
<1>2. ReaderWork(r) \in Nat /\ ProcWork(r) \in Nat
  BY DEF ReaderWork, ProcWork
<1> QED BY <1>1, <1>2, WeighShrinks DEF WorkLeft

\* A step that leaves a run's state alone leaves its work as it is.
LEMMA SameWork ==
  ASSUME RunInv, NEW r \in Runs, toWrite'[r] = toWrite[r], Len(pipe'[r]) \in Nat,
         Len(pipe'[r]) <= Len(pipe[r]), buf'[r] = buf[r], reader'[r] = reader[r],
         proc'[r] = proc[r]
  PROVE  WorkLeft(r)' <= WorkLeft(r)
<1>1. ReaderWork(r)' = ReaderWork(r) /\ ProcWork(r)' = ProcWork(r)
  BY DEF ReaderWork, ProcWork
<1> QED BY <1>1, WorkTyped, WeighShrinks DEF WorkLeft

\* A process' or its reader's own step.
LEMMA OwnStepShrinks ==
  ASSUME RunInv, NEW r \in Runs, Process(r) \/ Reader(r)
  PROVE  Lighter(WorkLeft(r)', WorkLeft(r))
<1>1. /\ toWrite[r] \in Nat /\ Len(pipe[r]) \in Nat /\ Len(buf[r]) \in Nat
      /\ ReaderWork(r) \in Nat /\ ProcWork(r) \in Nat
      /\ pipe[r] \in Seq(Chunk) /\ buf[r] \in Seq(Chunk)
      /\ proc \in [Runs -> {"none", "running"} \cup Ended] /\ toWrite \in [Runs -> 0..MaxChunks]
      /\ pipe \in [Runs -> Seq(Chunk)] /\ buf \in [Runs -> Seq(Chunk)]
      /\ reader \in [Runs -> {"none", "scanning", "calling", "stopped"}]
  BY WorkTyped DEF RunInv, ProcTyped, ReaderTyped
<1>2. CASE Write(r)
  <2>1. PICK c \in Chunk : pipe' = [pipe EXCEPT ![r] = Append(@, c)]
    BY <1>2 DEF Write
  <2>2. Len(pipe'[r]) = Len(pipe[r]) + 1
    BY <1>1, <2>1, AppendProperties
  <2>3. toWrite[r] > 0 /\ toWrite'[r] = toWrite[r] - 1 /\ proc' = proc /\ reader' = reader /\ buf' = buf
    BY <1>1, <1>2 DEF Write, readerVars
  <2>4. ReaderWork(r)' = ReaderWork(r) /\ ProcWork(r)' = ProcWork(r)
    BY <2>3 DEF ReaderWork, ProcWork
  <2> QED BY <1>1, <2>2, <2>3, <2>4, WeighShrinks DEF WorkLeft
<1>3. CASE Exit(r) \/ Fail(r) \/ Kill(r)
  <2>1. /\ proc[r] = "running" /\ proc'[r] # "running"
        /\ UNCHANGED <<toWrite, pipe, reader, buf>>
    BY <1>1, <1>3 DEF Exit, Fail, Kill, readerVars
  <2>2. ReaderWork(r)' = ReaderWork(r) /\ ProcWork(r) = 1 /\ ProcWork(r)' = 0
    BY <2>1 DEF ReaderWork, ProcWork
  <2> QED BY <1>1, <2>1, <2>2, WeighShrinks DEF WorkLeft
<1>4. CASE Fill(r)
  <2>1. Len(pipe[r]) > 0
    BY <1>1, <1>4, EmptySeq DEF Fill
  <2>2. buf'[r] = buf[r] \o pipe[r] /\ pipe'[r] = <<>> /\ UNCHANGED <<proc, toWrite, reader>>
    BY <1>1, <1>4 DEF Fill
  <2>3. Len(buf'[r]) = Len(buf[r]) + Len(pipe[r]) /\ Len(pipe'[r]) = 0
    BY <1>1, <2>2, ConcatProperties, EmptySeq
  <2>4. ReaderWork(r)' = ReaderWork(r) /\ ProcWork(r)' = ProcWork(r)
    BY <2>2 DEF ReaderWork, ProcWork
  <2> QED BY <1>1, <2>1, <2>2, <2>3, <2>4, WeighShrinks DEF WorkLeft
<1>5. CASE Scan(r)
  <2> DEFINE n == FirstLine(buf[r])
             m == Len(buf[r])
  <2>1. buf[r] # <<>> /\ reader[r] = "scanning" /\ UNCHANGED <<proc, toWrite, pipe>>
    BY <1>1, <1>5 DEF Scan, HasLine, LineEndsIn, procVars
  <2>2. n \in 1..m
    BY <1>1, <2>1, FirstLineIsThere
  <2>3. \A i \in 1..m : buf[r][i] \in Chunk
    BY <1>1, ElementOfSeq
  <2>4. buf' = [buf EXCEPT ![r] = SubSeq(@, n + 1, m)]
    BY <1>5 DEF Scan
  <2>5. UNCHANGED reader \/ reader' = [reader EXCEPT ![r] = "calling"]
    BY <1>5 DEF Scan
  <2>6. ReaderWork(r) = 1 /\ ReaderWork(r)' \in {1, 2} /\ ProcWork(r)' = ProcWork(r)
    BY <1>1, <2>1, <2>5 DEF ReaderWork, ProcWork
  <2> HIDE DEF n, m
  <2>7. buf'[r] = SubSeq(buf[r], n + 1, m)
    BY <1>1, <2>4
  <2>8. m \in Nat /\ m = Len(buf[r])
    BY <1>1 DEF m
  <2>9. \A i \in n + 1 .. m : buf[r][i] \in Chunk
    BY <2>2, <2>3, <2>8
  <2>10. Len(SubSeq(buf[r], n + 1, m)) = IF n + 1 <= m THEN m - (n + 1) + 1 ELSE 0
    BY <2>2, <2>8, <2>9, SubSeqProperties
  <2>11. Len(buf'[r]) \in Nat /\ Len(buf'[r]) <= Len(buf[r]) - 1
    BY <2>2, <2>7, <2>8, <2>10
  <2> QED BY <1>1, <2>1, <2>6, <2>11, WeighShrinks DEF WorkLeft
<1>6. CASE Callback(r) \/ StopScanning(r)
  <2>1. /\ UNCHANGED <<proc, toWrite, pipe, buf>>
        /\ \/ reader[r] = "calling" /\ reader'[r] = "scanning"
           \/ reader[r] = "scanning" /\ reader'[r] = "stopped"
    BY <1>1, <1>6 DEF Callback, StopScanning, procVars, jobVars
  <2>2. ReaderWork(r) > 0 /\ ReaderWork(r)' = ReaderWork(r) - 1 /\ ProcWork(r)' = ProcWork(r)
    BY <2>1 DEF ReaderWork, ProcWork
  <2> QED BY <1>1, <2>1, <2>2, WeighShrinks DEF WorkLeft
<1> QED BY <1>2, <1>3, <1>4, <1>5, <1>6 DEF Process, Reader

\* Whoever else steps, a started run has no more to do than before.
LEMMA OthersAddNothing ==
  ASSUME RunInv, NEW r \in Runs, proc[r] # "none", [Next]_vars
  PROVE  WorkLeft(r)' <= WorkLeft(r)
<1>1. CASE JobStep \/ ContextEnds \/ UNCHANGED vars
  <2>1. /\ proc'[r] = proc[r] /\ toWrite'[r] = toWrite[r] /\ reader'[r] = reader[r]
        /\ buf'[r] = buf[r]
    <3>1. \/ UNCHANGED <<proc, toWrite, reader, buf>>
          \/ StartRun /\ proc[run] = "none"
      BY <1>1, JobStepOnRuns
    <3>2. CASE StartRun /\ proc[run] = "none"
      BY <3>2 DEF StartRun, JobFails, procVars, readerVars, RunInv, ProcTyped, ReaderTyped
    <3> QED BY <3>1, <3>2
  <2>2. pipe'[r] = pipe[r] \/ pipe'[r] = <<>>
    BY <1>1, JobStepOnRuns DEF RunInv, ProcTyped
  <2>3. Len(pipe'[r]) \in Nat /\ Len(pipe'[r]) <= Len(pipe[r])
    BY <2>2, EmptySeq, WorkTyped
  <2> QED BY <2>1, <2>3, SameWork
<1>2. ASSUME NEW s \in Runs, Process(s) \/ Reader(s) PROVE WorkLeft(r)' <= WorkLeft(r)
  <2>1. CASE s = r
    <3>1. Lighter(WorkLeft(r)', WorkLeft(r)) /\ WorkLeft(r) \in Nat
      BY <1>2, <2>1, OwnStepShrinks, WorkTyped
    <3> QED BY <3>1 DEF Lighter
  <2>2. CASE s # r
    <3>1. /\ proc'[r] = proc[r] /\ toWrite'[r] = toWrite[r] /\ reader'[r] = reader[r]
          /\ pipe'[r] = pipe[r] /\ buf'[r] = buf[r]
      BY <1>2, <2>2 DEF Process, Write, Exit, Fail, Kill, Reader, Fill, Scan, Callback,
         StopScanning, procVars, readerVars, jobVars, RunInv, ProcTyped, ReaderTyped
    <3> QED BY <3>1, WorkTyped, SameWork
  <2> QED BY <2>1, <2>2
<1> QED BY <1>1, <1>2 DEF Next, Terminated

\* Each run comes to an end of its work: with PipesAreRead, what the liveness
\* properties of the encoding need besides fairness.
THEOREM RunsComeToAnEnd == Spec => WorkShrinks
<1> DEFINE Shrinks == \A r \in Runs :
          /\ WorkLeft(r) \in Nat
          /\ Process(r) \/ Reader(r) => WorkLeft(r)' < WorkLeft(r)
          /\ proc[r] # "none" => WorkLeft(r)' <= WorkLeft(r)
<1>1. ASSUME RunInv, [Next]_vars PROVE Shrinks
  BY <1>1, WorkTyped, OwnStepShrinks, OthersAddNothing DEF Lighter
<1>2. RunInv /\ [Next]_vars => [Shrinks]_vars
  BY <1>1
<1> HIDE DEF Shrinks
<1>3. Spec => [][Shrinks]_vars
  BY <1>2, RunInvariant, PTL DEF Spec
<1> QED BY <1>3 DEF Shrinks, WorkShrinks
===============================================================================
