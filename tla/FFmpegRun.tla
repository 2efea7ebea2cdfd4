------------------------------- MODULE FFmpegRun -------------------------------
(***************************************************************************)
(* The ffmpeg runs of one job: getVideoInfo makes a number of frames out   *)
(* of what ffprobe prints, runFFmpegWithProgress runs one process after    *)
(* another, each with a goroutine that scans its standard error, and the   *)
(* progress callback and the worker write the job's status.                *)
(*                                                                         *)
(* Standard error is a sequence of chunks.  A chunk carries a frame number *)
(* or none, and says whether it ends a line: bufio.Scanner hands over      *)
(* whole lines and gives up on a line that fills its buffer.  ffmpeg       *)
(* itself and the pipe are external: bounded pipe, a writer that blocks    *)
(* while it is full.  A chunk stands for as many bytes as make PipeCap of  *)
(* them a full pipe and TokenCap of them a full buffer.  A progress is the *)
(* quotient of a pair of numbers.                                          *)
(***************************************************************************)
EXTENDS Integers, Sequences, FiniteSets

CONSTANTS NRuns,      \* ffmpeg runs of the job, one per profile
          Medias,     \* source files, as ffprobe describes them
          Unit,       \* how many of ffprobe's units of time are a second
          Counts,     \* the frame counters ffmpeg may report: it counts the
                      \* frames it writes, whatever the source has
          MaxChunks,  \* bound: the chunks one run writes
          PipeCap,    \* chunks the pipe holds
          TokenCap,   \* chunks of one line that fill the scanner's buffer
          LineEnds    \* the values of a chunk's "ends a line" flag

\* parseFrameRate, of a text as it is split at its slash: "30000/1001" or
\* "25"; what is neither, or is divided by zero, is the rate 0.
parseFrameRate(text) ==
    IF Len(text) = 2 /\ text[2] # 0 THEN text
    ELSE IF Len(text) = 1 THEN <<text[1], 1>> ELSE <<0, 1>>

ASSUME RunAssumption ==
    /\ NRuns \in Nat \ {0} /\ Unit \in Nat \ {0} /\ Counts \subseteq Nat
    /\ MaxChunks \in Nat /\ PipeCap \in Nat \ {0} /\ TokenCap \in Nat \ {0}
    /\ LineEnds \subseteq BOOLEAN /\ LineEnds # {}

\* A stream as ffprobe describes it.
Stream == [kind : STRING, rate : Seq(Int)]

\* A duration is any number of units, often an estimate, 0 if there is none;
\* nothing relates it to the frames.
ASSUME MediaAssumption ==
    \A m \in Medias :
        /\ m.duration \in Nat /\ m.streams \in Seq(Stream)
        /\ \A i \in DOMAIN m.streams :
              parseFrameRate(m.streams[i].rate) \in Nat \X (Nat \ {0})

Runs == 1..NRuns

VARIABLES
    ctxDone,   \* the job's context is cancelled or past its deadline
    state,     \* job.Status.State
    progress,  \* job.Status.Progress
    run,       \* the run the job's goroutine is at: 0 while ffprobe is asked,
               \* NRuns + 1 when all ended
    media,     \* the source file, as ffprobe describes it
    total,     \* inputInfo.TotalFrames
    proc,      \* the ffmpeg process of each run
    toWrite,   \* chunks each process still has to write
    pipe,      \* standard error: written, not yet read
    reader,    \* the scanning goroutine of each run
    buf,       \* what its scanner has read and not yet handed over
    report     \* the frame it is about to pass to the callback

procVars   == <<proc, toWrite, pipe>>
readerVars == <<reader, buf, report>>
fileVars   == <<media, total>>
jobVars    == <<ctxDone, state, progress, run, fileVars>>
vars == <<jobVars, procVars, readerVars>>

NoFrame == -1

Chunk == [frame : {NoFrame} \cup Counts, eol : LineEnds]
Ended == {"exited", "failed", "killed"}

None == <<0, 1>>
Full == <<1, 1>>

\* Each part has its values, and no progress is anything but none, a count
\* ffmpeg reported over a total that is known, or the final 1.0.
TypeOK ==
    /\ ctxDone \in BOOLEAN
    /\ state \in {"processing", "completed", "failed"}
    /\ progress \in {None, Full} \cup (Counts \X ({total} \ {0}))
    /\ run \in 0..(NRuns + 1)
    /\ media \in Medias /\ total \in Nat
    /\ proc \in [Runs -> {"none", "running"} \cup Ended]
    /\ toWrite \in [Runs -> 0..MaxChunks]
    /\ pipe \in [Runs -> Seq(Chunk)] /\ \A r \in Runs : Len(pipe[r]) <= PipeCap
    /\ reader \in [Runs -> {"none", "scanning", "calling", "stopped"}]
    /\ buf \in [Runs -> Seq(Chunk)]
    /\ report \in [Runs -> {0} \cup Counts]

Init ==
    /\ ctxDone = FALSE
    /\ state = "processing"
    /\ progress = None
    /\ run = 0
    /\ media \in Medias
    /\ total = 0
    /\ proc = [r \in Runs |-> "none"]
    /\ toWrite = [r \in Runs |-> 0]
    /\ pipe = [r \in Runs |-> <<>>]
    /\ reader = [r \in Runs |-> "none"]
    /\ buf = [r \in Runs |-> <<>>]
    /\ report = [r \in Runs |-> 0]

-------------------------------------------------------------------------------
(* What ffprobe says.                                                      *)

VideoStreams == {i \in DOMAIN media.streams : media.streams[i].kind = "video"}
VideoRate    ==
    parseFrameRate(media.streams[CHOOSE i \in VideoStreams :
                                     \A k \in VideoStreams : i <= k].rate)

\* int(duration * rate) of the first video stream.
TotalFrames ==
    IF VideoStreams # {} THEN (media.duration * VideoRate[1]) \div (VideoRate[2] * Unit) ELSE 0

-------------------------------------------------------------------------------
(* The job's goroutine.                                                    *)

JobFails == state' = "failed" /\ UNCHANGED <<ctxDone, progress, run, fileVars>>

\* The job's temp directory is made and ffprobe asked.
Probe ==
    /\ state = "processing" /\ run = 0
    /\ \/ /\ ~ctxDone
          /\ total' = TotalFrames
          /\ run' = 1
          /\ UNCHANGED <<ctxDone, state, progress, media>>
       \/ JobFails
    /\ UNCHANGED <<procVars, readerVars>>

\* cmd.Start, refused if the context is done; then the scanning goroutine.
StartRun ==
    /\ state = "processing" /\ run \in Runs /\ proc[run] = "none"
    /\ \/ /\ ~ctxDone
          /\ proc' = [proc EXCEPT ![run] = "running"]
          /\ \E n \in 0..MaxChunks : toWrite' = [toWrite EXCEPT ![run] = n]
          /\ reader' = [reader EXCEPT ![run] = "scanning"]
          /\ UNCHANGED <<jobVars, pipe, buf, report>>
       \/ JobFails /\ UNCHANGED <<procVars, readerVars>>

SlipIgnoreExit(r) == proc[r] \in Ended

RanWell(r) == proc[r] = "exited"

\* cmd.Wait returns once the process has ended and closes the read end of
\* the pipe: what the scanner has not read is gone.  It waits for no reader.
WaitReturns ==
    /\ state = "processing" /\ run \in Runs /\ proc[run] \in Ended
    /\ pipe' = [pipe EXCEPT ![run] = <<>>]
    /\ \/ RanWell(run) /\ run' = run + 1 /\ UNCHANGED <<ctxDone, state, progress, fileVars>>
       \/ ~RanWell(run) /\ JobFails
    /\ UNCHANGED <<proc, toWrite, readerVars>>

\* Transcode returns, the rest of the job goes well or not, and the worker
\* writes the final status.
FinishJob ==
    /\ state = "processing" /\ run = NRuns + 1
    /\ \/ state' = "completed" /\ progress' = Full
       \/ state' = "failed" /\ UNCHANGED progress
    /\ UNCHANGED <<ctxDone, run, fileVars, procVars, readerVars>>

\* The deadline passes or the pool is cancelled.
ContextEnds ==
    /\ ~ctxDone
    /\ ctxDone' = TRUE
    /\ UNCHANGED <<state, progress, run, fileVars, procVars, readerVars>>

-------------------------------------------------------------------------------
(* The ffmpeg process.                                                     *)

Write(r) ==
    /\ proc[r] = "running"
    /\ toWrite[r] > 0
    /\ Len(pipe[r]) < PipeCap
    /\ \E c \in Chunk : pipe' = [pipe EXCEPT ![r] = Append(@, c)]
    /\ toWrite' = [toWrite EXCEPT ![r] = @ - 1]
    /\ UNCHANGED <<jobVars, proc, readerVars>>

\* It ends well once it has written everything, or fails at any time.
Exit(r) ==
    /\ proc[r] = "running"
    /\ toWrite[r] = 0
    /\ proc' = [proc EXCEPT ![r] = "exited"]
    /\ UNCHANGED <<jobVars, toWrite, pipe, readerVars>>

Fail(r) ==
    /\ proc[r] = "running"
    /\ proc' = [proc EXCEPT ![r] = "failed"]
    /\ UNCHANGED <<jobVars, toWrite, pipe, readerVars>>

SlipNeverKilled(r) == FALSE

MayKill(r) == ctxDone

\* exec.CommandContext kills the process when the context is done.
Kill(r) ==
    /\ proc[r] = "running"
    /\ MayKill(r)
    /\ proc' = [proc EXCEPT ![r] = "killed"]
    /\ UNCHANGED <<jobVars, toWrite, pipe, readerVars>>

-------------------------------------------------------------------------------
(* The scanning goroutine.                                                 *)

LineEndsIn(b) == {i \in DOMAIN b : b[i].eol}
HasLine(b)    == LineEndsIn(b) # {}

\* How many chunks of b make its first line, or all of b when it has no end.
FirstLine(b) ==
    IF HasLine(b) THEN CHOOSE i \in LineEndsIn(b) : \A k \in LineEndsIn(b) : i <= k
                  ELSE Len(b)

\* parseProgress matches the first frame number of a line, if there is one.
ParsedFrames(line) == {i \in DOMAIN line : line[i].frame # NoFrame}
ParsedFrame(line)  ==
    line[CHOOSE i \in ParsedFrames(line) : \A k \in ParsedFrames(line) : i <= k].frame

SlipEndOnSuccess(r) == pipe[r] = <<>> /\ proc[r] = "exited"

\* The read end is closed by Wait, the write end by the end of the process.
NothingMoreToRead(r) == pipe[r] = <<>> /\ proc[r] \in Ended

SlipReadAfterExit(r) == proc[r] \in Ended

MayRead(r) == TRUE

Fill(r) ==
    /\ reader[r] = "scanning"
    /\ MayRead(r)
    /\ ~HasLine(buf[r]) /\ Len(buf[r]) < TokenCap
    /\ pipe[r] # <<>>
    /\ buf' = [buf EXCEPT ![r] = @ \o pipe[r]]
    /\ pipe' = [pipe EXCEPT ![r] = <<>>]
    /\ UNCHANGED <<jobVars, proc, toWrite, reader, report>>

\* A line goes to parseProgress, and so does an unfinished one once nothing
\* more can be read.
Scan(r) ==
    /\ reader[r] = "scanning"
    /\ \/ HasLine(buf[r])
       \/ buf[r] # <<>> /\ Len(buf[r]) < TokenCap /\ NothingMoreToRead(r)
    /\ buf' = [buf EXCEPT ![r] = SubSeq(@, FirstLine(@) + 1, Len(@))]
    /\ LET line == SubSeq(buf[r], 1, FirstLine(buf[r])) IN
         \/ /\ ParsedFrames(line) # {}
            /\ report' = [report EXCEPT ![r] = ParsedFrame(line)]
            /\ reader' = [reader EXCEPT ![r] = "calling"]
         \/ ParsedFrames(line) = {} /\ UNCHANGED <<report, reader>>
    /\ UNCHANGED <<jobVars, procVars>>

SlipAddProgress(r) ==
    /\ reader[r] = "calling"
    /\ progress' = <<progress[1] + report[r], total>>
    /\ reader' = [reader EXCEPT ![r] = "scanning"]
    /\ UNCHANGED <<ctxDone, state, run, fileVars, procVars, buf, report>>

\* The callback writes the job's status without asking who else does.
Callback(r) ==
    /\ reader[r] = "calling"
    /\ progress' = IF total > 0 THEN <<report[r], total>> ELSE None
    /\ reader' = [reader EXCEPT ![r] = "scanning"]
    /\ UNCHANGED <<ctxDone, state, run, fileVars, procVars, buf, report>>

\* Scan returns false at the end of the input, and for good on a line that
\* fills the buffer.
StopScanning(r) ==
    /\ reader[r] = "scanning"
    /\ \/ buf[r] = <<>> /\ NothingMoreToRead(r)
       \/ ~HasLine(buf[r]) /\ Len(buf[r]) >= TokenCap
    /\ reader' = [reader EXCEPT ![r] = "stopped"]
    /\ UNCHANGED <<jobVars, procVars, buf, report>>

-------------------------------------------------------------------------------
JobStep    == Probe \/ StartRun \/ WaitReturns \/ FinishJob
Process(r) == Write(r) \/ Exit(r) \/ Fail(r) \/ Kill(r)
Reader(r)  == Fill(r) \/ Scan(r) \/ Callback(r) \/ StopScanning(r)

\* The job is settled; its scanning goroutines may go on.
Terminated == state # "processing" /\ UNCHANGED vars

Next ==
    \/ JobStep
    \/ ContextEnds
    \/ \E r \in Runs : Process(r) \/ Reader(r)
    \/ Terminated

Spec == Init /\ [][Next]_vars

\* Goroutines that can run do, a process that is not blocked goes on to its
\* end, and a killed one dies.  Nothing makes the context end.
Fairness ==
    /\ WF_vars(JobStep)
    /\ \A r \in Runs :
         /\ WF_vars(Write(r) \/ Exit(r))
         /\ WF_vars(Kill(r))
         /\ WF_vars(Reader(r))

FairSpec == Spec /\ Fairness

-------------------------------------------------------------------------------
\* A job is completed only if each of its ffmpeg processes ended well.
CompletedMeansAllRan ==
    state = "completed" => \A r \in Runs : proc[r] = "exited"

\* When the context ends, so does the job, whatever ffmpeg and the scanner
\* are doing.
CancelledRunEnds == ctxDone ~> state # "processing"

\* An ffmpeg run never needs its timeout to end: somebody keeps reading what
\* it writes (README.md:863, "Execute FFmpeg with progress monitoring").
EncodingEnds ==
    \A r \in Runs : proc[r] = "running" ~> (proc[r] # "running" \/ ctxDone)

\* It needs it only when a line fills the scanner's buffer: as long as the
\* lines fit, the reader keeps pace and the process ends by itself.
TokenFull(r) == ~HasLine(buf[r]) /\ Len(buf[r]) >= TokenCap
EncodingEndsWhileLinesFit ==
    \A r \in Runs :
        proc[r] = "running" ~> (proc[r] # "running" \/ ctxDone \/ TokenFull(r))

\* No scanning goroutine outlives its process for ever.
ReadersEnd == \A r \in Runs : proc[r] \in Ended ~> reader[r] \in {"none", "stopped"}
===============================================================================
