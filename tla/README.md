# video-converter-service: models, checks and proofs

The service takes events about uploaded videos, converts each video with ffmpeg
as a job template says, and stores the results. This directory holds TLA+
modules that model it, TLC runs over small instances of them, and theorems the
TLAPS prover checks for all instances. Paths below are relative to the
repository (`src/...` in `PROJECT.json`).

## The system

| Part | Code | State | Operations |
|---|---|---|---|
| worker pool | `internal/worker` | the channel `jobQueue`, the pool's context, each job's status | `Start` with its shutdown, `SubmitJob`, `workerLoop`, `processJob`, `executeConversion` |
| ffmpeg execution | `internal/transcoder/video_info.go` | the process, its standard error, the scanning goroutine | `getVideoInfo`, `runFFmpegWithProgress`, the progress callback |
| transcoding pipeline | `internal/transcoder`, `worker/helpers.go` | the job's temp directory, the result's list of files | `Transcode`, `processOutput`, `transcodeHLS`, `transcodeProgressive`, `uploadOutputFiles` |
| storage backends | `internal/storage` | files and blobs | `DownloadFile`, `UploadFile(s)`; factories |
| event router | `internal/events/router.go` | the webhook server and its open requests | `Start`, `handleEventGridWebhook`, `detectSourceType` |
| service lifecycle | `cmd/video-converter/main.go` | contexts, the WaitGroup, the status and health servers | `runProductionMode` |
| configuration | `internal/config` | `Config` | `Load`, `loadFromEnv`, `validate` |
| health and status endpoints, test modes | `main.go` | none | constant answers; one sequential conversion |

A webhook handler turns each video event of a batch into a job and calls
`SubmitJob`, which never waits: the job goes into the channel, is refused because
the channel is full, or the send panics because the channel is closed. A fixed
number of workers receive from the channel, each runs a job's stages in order:
download, validate, transcode, upload, clean up. A signal cancels one context;
the router stops listening, and the pool cancels its own context, closes the
channel and waits for its workers.

What is hard here is the shutdown (a select between a cancelled context and a
closed channel, handlers that still submit, servers that have not come to listen
yet), stages that wait for a peer and end only by the job's timeout, stages that
fail half-way, a second download attempt that writes the first one's file, a
scanning goroutine that nobody waits for, at-least-once delivery by Event Grid, a
crash with jobs in memory, and names of files that change between the temp
directory and the storage. `PROJECT.json` lists each such
place with the properties that watch it.

What makes each part correct:

- pool: an accepted job is in one place, leaves the queue once, settles once,
  and is completed only with its outputs stored; a stuck stage ends; a shutdown
  ends and leaves nothing running;
- download: what goes to the transcoder is whole and is what the job's URL names,
  and when the configured account has failed, the URL itself is asked;
- ffmpeg: a run ends, a cancelled one ends at once, a job is completed only if
  its processes were;
- pipeline: what a completed job lists is in storage, uncollided and complete,
  and a player finds it;
- router and lifecycle: no answered event is lost silently, a handler never waits
  for a worker, a signal leads to the exit, no job is running and no server serving
  then;
- configuration: the environment goes before the file and the file before the
  defaults, and what the validation accepts can run.

## Modules

| Module | Models |
|---|---|
| `JobLedger` | abstract: what queue and pool promise together, a bounded line of jobs, served in order, at most so many at once, each settled once |
| `WorkerPool` | `worker.go` and the stages of a job; implements `JobLedger` |
| `WorkerPoolProofs`, `WorkerPoolRefinement` | the theorems about `WorkerPool`; that it implements `JobLedger` |
| `SourceDownload` | routing a URL to a backend, the download's attempts and its file, the validation; each step is one of `WorkerPool`'s stages |
| `FFmpegRun` | what ffprobe says of a file, the ffmpeg processes of one job, their pipe, the scanner and the callback |
| `TranscodePipeline` | one job from its template to the storage |
| `ConverterService` | webhook handlers, router, pool (as `JobLedger`) and the shutdown together, with crash and restart |
| `ServiceConfig` | defaults, file, environment and validation, as functions |
| `ServiceProcess` | `runProductionMode` from loading the configuration to the exit: servers, ports, signal |
| `SourceDownloadRefinement` | the proof that downloads are `WorkerPool`'s stages |
| `SourceDownloadProofs`, `FFmpegRunProofs`, `TranscodePipelineProofs`, `ConverterServiceProofs`, `ServiceProcessProofs` | the theorems about the module each is named after |
| `MC...` | small constants for TLC |

**WorkerPool.** `starter` is the goroutine in `Start`; `StartWorkers`, `CancelPool`,
`CloseQueue` and `PoolStopped` are the four statements between which others can
run. `SubmitJob(j)` sets the status and does the select in one step, because the
job is not shared before the send. `pc[w]` is where a worker is: `select` is the
select of `workerLoop`, where `TakeJob`, `RejectUnknownTemplate` and `WorkerExit`
may be enabled together, as Go chooses at random. Each stage that waits for a
disk, a peer or ffmpeg is a `Start...` and a `Finish...` action, so that other
workers, the clock (`Timeout`) and the shutdown come in between; each may fail,
and `FailJob` is `processJob`'s error path, which removes no file. `temp`,
`result` and `stored` say what is in the job's temp directory, which files the
transcoder listed, and how far each is in the storage (a local copy that fails
leaves a torn file). The local backend does not look at the context, the remote
ones do; the S3 backend never succeeds.

**SourceDownload.** A URL is a scheme, a host and a path, with the substrings
`detectSourceType` looks for in its host. `Attempts(u)` is the list of locations
the backend asks, in order: the Azure client asks the configured account before
the URL itself, S3 asks nobody, the HTTP client refuses other schemes, and with a
key that the Azure client does not take (`BadKey`) no Azure backend is made and
nobody is asked. `file[j]`
is the sequence of the locations its units came from, so that a file put together
from two answers, or another blob of the same name, shows. `Answered` empties the
file as `os.Create` does, `Copy` adds a unit while the disk has room,
`AttemptFails` may happen at any point of an attempt. All jobs share one disk.
`ImplementsStages` maps each step to `StartDownload`, `FinishDownload` or
`ValidateSource` of `WorkerPool`, or to a stutter, which ties the coarse stages
there to what the backends do.

**FFmpegRun.** A file is a record of what ffprobe tells of it; `Probe` computes the
total as `getVideoInfo` does, cutting the product to a whole number. Standard error
is a sequence of chunks with a frame number or none and a flag for the end of a
line. The number is any of `Counts`: ffmpeg counts the frames it writes, ffprobe's
duration is often an estimate, and nothing in the code relates the two. ffmpeg, the
pipe, `bufio.Scanner` and
`exec.CommandContext` are external and modelled as the code uses them: a bounded
pipe with a writer that blocks, whole lines, giving up on a line that fills the
buffer, a process killed when the context ends, and a `Wait` that does not wait
for the reader.

**TranscodePipeline.** Files are named as the code names them, with the profile's
directory in the temp directory and without it in the destination
(`helpers.go:79`); a file's content is the output, profile and kind it was made
for, so that overwriting shows. A template is a sequence of outputs; the
configuration checks nothing of it, so `WellFormed` states what the paths need. A
package is compared in lower case (`ToLower`, which the templates of the run need).

**ConverterService.** Each delivery of a batch is a request with its own handler.
Event Grid may deliver a batch again at any time after the first. The pool's
variables are those of `JobLedger`, and its steps are the ledger's: what
`WorkerPool` is checked to implement. A handler that is still reading its body
when the process ends is simply cut off. `Crash` may come at any step: open
requests are cut, jobs in memory are lost, and `Restart` is the container runtime
starting the service again (`docker-compose.yml:58`, `restart: unless-stopped`)
with a new channel.

**ServiceConfig and ServiceProcess.** A configuration is a function of its fields;
`Loaded(file, env)` is what `Load` makes of a file and an environment, junk
included. `ServiceProcess` starts from any file and environment of small sets;
`main` is the statement `runProductionMode` has come to, `server[s]` where each
`ListenAndServe` is. It takes its port in `Bind` and registers its listener in
`Serve`, so that a `Shutdown` may come before, between and after. A signal before
`Notify` kills the process.

Operators named `Slip...` belong to no model: each is the form a plausible mistake
would give to the definition that follows it, and `PROJECT.json` ("mutants")
names the property that notices it.

## Runs

| Run | Instance | Shows |
|---|---|---|
| `pool_pair` | 2 workers, 2 jobs, 2 files, local storage | all safety properties of the pool, that it implements `JobLedger`, and that `PoolInv` holds |
| `pool_live` | 1 worker, 3 jobs, queue of 2, Azure storage | `QueuedJobsSettle`, `ShutdownCompletes`, `LateJobsNeverComplete`; the full queue and an unknown template occur |
| `src_run` | 2 jobs, 8 URLs, no key, a good and a bad one, with and without a timeout, a disk of 3 units | a converted source is whole and the one named; a location that fails does not keep the URL itself from being asked; a download ends with its context; `WorkerPool`'s stages are implemented |
| `ff_run` | 2 ffmpeg runs of up to 3 chunks, a pipe of 1, 2 files | a run needs its timeout only for an overlong line; cancelled runs and readers end; a completed job's processes ended well |
| `trans_files` | 8 templates | completed jobs have their files in storage; nothing is stored early |
| `svc_run` | 2 batches, one delivered twice, queue of 1, 1 worker, 1 crash | what an answered batch means, panics only in a shutdown, exit after a signal, handlers that end though no worker moves |
| `start_run` | 6 files, 7 environments, one port taken | precedence of the configuration, what the pool assumes of it, servers that come up, an end in good order |

The runs that end in a counterexample show where a document says one thing and
the code does another; `PROJECT.json` quotes the documents.

| Run | Shows |
|---|---|
| `ff_hang` | an overlong line of standard error makes ffmpeg block until the timeout (`video_info.go:213`) |
| `src_docs` | an https URL with `s3.` in its host fails without being asked (`router.go:322`) |
| `trans_master` | the master playlist names paths that are never uploaded (`helpers.go:79`, `hls.go:246`) |
| `svc_twice` | a batch delivered twice makes two jobs of a video (`router.go:258`) |
| `start_docker` | the storage type `docker` is accepted by `validate` and ends the process in `NewStorage` (`factory.go:31`) |

Seen while modelling, without a run of their own:

- a failed job leaves its files in the temp directory (`worker.go:189`, against
  README.md:867), and jobs still queued at a shutdown are dropped
  (`worker.go:108`, against REQUIREMENTS.md:356);
- an event whose job the full queue refuses is answered 200 (`router.go:203`);
- progress may pass the 1.0 of models.go:28 by any amount (`video_info.go:220`): the
  total is made of the duration ffprobe prints, the frames are those ffmpeg writes
  (`-r` in `extra_args` alone makes them more), and the quotient is not capped;
- a callback of a scanning goroutine that `Wait` did not wait for may write its share
  over the 1.0 of a completed job (`worker.go:200`, `video_info.go:227`);
- HLS files that cannot be read are left out of a completed job (`hls.go:150`);
  a template with an unknown package is found out only after the outputs before
  it were transcoded (`transcoder.go:181`), since templates are not validated at
  the start;
- `config.yaml.example:65` names the storage type `azure_blob`, which `validate`
  refuses;
- an account key that is not base64 fails the download of public blobs, too
  (`azure.go:45`), and with a good one the configured account is asked first even
  for the URL of another (`azure.go:100`);
- blobs of sovereign clouds do not match `.blob.core.windows.net` and are fetched
  as any URL is, without the account's key (`router.go:317`);
- a test mode waits a fixed time where its comment says that it monitors the job
  (`main.go:392`).

### Bounds, and why they are enough

- Pool: two workers and two jobs are the least with concurrent conversions and
  shutdown between them; a single worker with three jobs fills its queue of two
  while a job runs. Two files give an upload that fails after another succeeded.
  The theorems remove these bounds for the safety properties.
- Download: two jobs are the least that share a disk; sources of three units and
  less, a disk of three and a limit of two let a file be too large, the disk fill
  up and an attempt break off half-way. The URLs have every type, each scheme and
  hosts whose names match more than one type.
- ffmpeg: a pipe of one chunk and a buffer that one unfinished chunk fills make
  three chunks block the writer; two runs let a reader outlive its own.
  `MaxChunks` bounds what ffmpeg writes. Of the two files one has a rate that is
  no whole number and a total of 4, the other no known rate and so no total;
  `Counts` has a counter below the total and one above it, and `Unit` says how fine
  ffprobe's durations are.
- Pipeline: the templates have every shape of an output (list or single, either
  package, unknown package or profile, nothing to do) and every kind of name
  collision; one file of kind `ts` stands for a playlist's segments, which share
  directory, stem and fate.
- Service: five video deliveries against a place and a queue of one fill the queue
  and refuse jobs; the second batch has the validation event. `MaxDeliveries` bounds
  the redeliveries, `MaxCrashes` the crashes: one crash, with the redelivery after
  it, is a whole recovery, and a second starts from the same kind of state.
- Process: the files and environments set each kind of field (port, number, text,
  level, templates) in one place, in both and with junk, let two ports meet and
  one be taken.

### Fairness

Goroutines that can run do (the Go scheduler), timers fire, local disk operations
end. In `WorkerPool` the answer of a peer or of ffmpeg is owed only once the job's
context is done, because the HTTP client, the Azure client and
`exec.CommandContext` abort then. In `FFmpegRun` a process that is not blocked goes
on; the context need not end. In `ConverterService` handlers go on once the body
has arrived, which is not owed, and a running job settles, as `QueuedJobsSettle`
says of the pool; a crashed process is started again. A worker need not take
another job, so that `HandledRequestsEnd` cannot rest on room in the queue. In
`SourceDownload` a request is answered or ended for sure only once its context is done. In
`ServiceProcess` the pool returns after the cancellation, as `ShutdownCompletes`
says of it. Nobody owes a submission, a delivery, a signal or a timeout of the
job's context before its time.

Deadlock is checked in every run; the final states (the process or the pool has
stopped, the job is settled) stutter explicitly.

## Proofs

`WorkerPoolProofs` proves for any finite set of workers, any jobs, files and
storage, from `PoolAssumption` alone:

- `TypeCorrect`: `Spec => []TypeOK`. `TypeOK` is split by who changes what (the
  starter, the channel, the workers, the files), and each stage keeps its part.
  The bound on the channel comes from `HasRoom`.
- `PoolInvariant`: `Spec => []PoolInv`. `EveryJobInOnePlace` is close to inductive,
  but the properties of files are not: that a completed job is stored needs what
  is known at each stage before (`StageOK`: no file touched before the upload, at
  most one on its way, none torn while the job goes on), that a job no worker holds
  has no file on its way (`RestOK`), and that two workers never hold one job, so
  that a step of one leaves the other's files alone (`ConversionLocal`). Receiving
  from the channel shifts the positions of the rest (`PlacesAfterReceive`).
- `JobsStayInOnePlace`, `CompletedJobsAreStored`, `StagesFindTheirFiles`,
  `StartReturnsQuiet` follow from the invariant, and `SettledJobsAreFinal` from the
  invariant and a case for each action.
- `WaitingJobsStayIncomplete`: a job that is pending when the context is cancelled
  may still be taken, but `Late` says that its worker never gets past the call of the
  transcoder, the first stage that looks at the context whatever the backend.
- `JobsGetDone`: the stages and files a job has left (`StagesLeft`, `FilesLeft`) only
  ever dwindle, and each step of its own worker takes something away; `SenderKnowsItsFile`
  adds that an upload on its way is of one listed file, so that it can be ended.

`WorkerPoolRefinement` proves `PoolImplementsLedger`, `Spec => Ledger!Spec` under the
mapping of `WorkerPool`. Every step of the pool is one of the ledger's or leaves
its variables alone. The one that needs an argument is taking a job: the ledger
lets at most `MaxRunning` jobs run, and the pool counts none. `PlaceFree` maps each
running job to the worker that holds it; `PoolInv` makes this an injection that
misses the worker that is about to take a job.

The other proof modules have an inductive invariant of their own, checked with
TLC on the run's instance before it was proved:

- `SourceDownloadProofs`, from `SourceAssumption`: `SourceInv` says that a file that
  is being filled holds only units of the location asked now, and no more than it
  has (`Copied`, which the emptying of the file at each answer keeps), that the
  locations still to be asked end with the URL's own (`Trying`), and that a remote
  job that has come through had time (`InTime`). From it follow
  `ConvertedIsWhole`, `ConvertedIsNamed`, `RemoteJobsNeedTime` and, step by step,
  `FallbackIsReached`. `TypeCorrect` has the bound on the shared disk in it: the
  units on it are a set of pairs of a job and a position (`OnDisk`), which only
  `Copy` makes larger, by one and only while there is room (`CopyFits`); that the
  set is finite is part of the invariant, so the number of jobs need not be.
  `DownloadsComeToAnEnd` is a lexicographic measure: each step of a download takes
  it a stage on, leaves a location fewer to try, gets the answer, or adds a unit
  the source still has, and leaves every other job where it is.
  `SourceDownloadRefinement` proves `DownloadsAreStages`: each step of a backend is
  one of `WorkerPool`'s for a worker in that stage, or leaves what the pool sees as
  it is; when a job has a file (`FileByStage`) is what it needs besides.
- `FFmpegRunProofs`, from `MediaAssumption` and `RunAssumption`: `RunInv` says that
  the runs before the present one have exited without an error and a job is
  completed only after the last (`RunOrder`), which gives `CompletedJobsRanAll`, and
  that a progress is set only once the total is what `Probe` computed, so that no
  share is one of zero frames; of the files it assumes types only. `ProcessInv` adds
  that a job has one process at a time (`NoProcessOutlivesItsJob`) and that a reader stops only
  at the end of its input or at an overlong line, which gives `PipesAreRead`: as
  long as lines fit, writer and reader never wait for each other. The weighed sum
  `WorkLeft` falls with every step of either (`RunsComeToAnEnd`).
- `TranscodePipelineProofs`, from `TemplateAssumption`: `PipelineInv` says that the
  disk has only files of the template, that a progressive file once made stays as
  it was and is listed (`MoviesKept`), and that storage has what the disk has of
  each file sent (`SentKept`). `DestinationsDiffer` is what all three rest on: in a
  well-formed template two files with one destination are one file, since a
  directory names one output and a base name one profile and kind. The theorems are
  `ListedFilesAreStored`, `ProgressiveOutputsAreStored`, `NothingIsStoredEarly`, and
  `StoresOnlyGrow`: no run, playlist or upload of a well-formed template replaces a
  file. It needs `StoresFresh`, which ties what is on the disk to the place in the
  template (`MadeBefore`) and what is in storage to what has left the map.
- `ConverterServiceProofs`, from `ServiceAssumption`: `ServiceInv` says which parts of
  the process are up together (`PartsAgree`) and that a handler has decided each
  event it has passed (`HandlerOK`). `AnsweredBatchesAreDecided`, `ExitFindsPoolIdle`
  and the action property `PanicsOnlyInShutdown` follow. `QueueStaysSound` carries
  what is known of the channel through crashes, which empty it; `JobsOnlyGoForward`
  lists the ways a job may go and says that only a crash loses one; `LivesAreLedgers`
  shows that between a start and the next end every step is one of `JobLedger`'s. A
  crash is none, so the service as a whole is not a `JobLedger`, each of its lives is.
- `ServiceProcessProofs`, from `ProcessAssumption`: `ProcessInv` says that main begins
  with an accepted configuration (`Begun`), that a server that was shut down never
  serves (`Stopped`), and that a port has one owner (`OnePort`). The theorems are
  `RunsWithPrecedence`, `PoolHasWhatItNeeds`, `ExitIsQuiet`, and so the assumption the
  pool's proofs start from is what a process that serves has. `DownInv` says what main
  has done by each statement of the way down: `OnlySignalsStopIt`,
  `ServersFailForTheirPorts` and `NobodyIsAwaitedInVain` follow, and
  `ProcessGoesForward` ranks the parts' states and finds no way back.

Every invariant a passing run checks has its theorem now. Only model-checked are the
liveness properties, since fairness and ENABLED are beyond the prover. What they
need besides fairness is proved: that work left only shrinks, and that nobody waits
for what cannot come.

| Liveness property, checked by TLC | Theorems about its safety part |
|---|---|
| `QueuedJobsSettle`, `ShutdownCompletes` | `JobsGetDone`, `SenderKnowsItsFile`, `StartReturnsQuiet` |
| `DownloadEnds` | `DownloadsComeToAnEnd` |
| `EncodingEndsWhileLinesFit`, `ReadersEnd`, `CancelledRunEnds` | `PipesAreRead`, `RunsComeToAnEnd`, `NoProcessOutlivesItsJob` |
| `ServersComeUp`, `SignalEndsProcess` | `ServersFailForTheirPorts`, `NobodyIsAwaitedInVain`, `ProcessGoesForward` |
| `SignalLeadsToExit`, `HandledRequestsEnd` | `JobsOnlyGoForward` |

The counterexample runs are TLC's alone, too.

## Not modelled

Codecs, ffmpeg's arguments and the content of videos; notifications, which only
log; the WebSocket listener, a placeholder that connects to nothing and whose
retries are never reached, as `connectWebSocket` returns only when the context is
done; the answers of the health and status endpoints, which are constants; the
command's test modes, sequential helpers for development; `DeleteFile`,
`ListFiles` and `GetFileURL`, which the service never calls; a job's
`output.destination`, which nothing reads; the space that outputs take. A crash
leaves temp directories that nothing ever removes: there is no clean-up at the
start to model. That job ids are distinct is assumed (a second and four random
bytes).

## Plan

What is left would extend the proofs. For `ConverterService`: a rank of requests and
of main, as `ServiceProcess` has one, which would give `SignalLeadsToExit` and
`HandledRequestsEnd` the safety part that `JobsOnlyGoForward` gives only for jobs.
For `WorkerPool`: that the shutdown's own statements and the workers' exits only go
forward. For `ServiceConfig`: that `Loaded` gives way field by field, as lemmas about
the function. A retry queue or a persistent job store, if the service gains one,
belongs in `WorkerPool` and `ConverterService`, where `Crash` loses the jobs today.
