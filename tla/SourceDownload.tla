----------------------------- MODULE SourceDownload -----------------------------
(***************************************************************************)
(* How a job comes by its source: the type the router gives the URL, the   *)
(* backend the factory makes of it, what that backend asks of whom, the    *)
(* file it writes and the validation the worker does.  It details the      *)
(* stages StartDownload, FinishDownload and ValidateSource of WorkerPool,  *)
(* with one worker for each job.                                           *)
(*                                                                         *)
(* A location is a host and a path.  Its content is so many units, and a   *)
(* file is the sequence of the locations its units came from, so that a    *)
(* file put together from two answers shows.  Peers are outside: any       *)
(* request may be refused and any answer break off.                        *)
(***************************************************************************)
EXTENDS Integers, Sequences, FiniteSets

CONSTANTS Jobs,       \* jobs that download at the same time
          Urls,       \* the URLs a job may name
          Accounts,   \* hosts of the Azure accounts that may be configured, with
                      \* a key the client takes
          NoKey,      \* no account key is configured
          BadKey,     \* one is that the client does not take: no base64
          Timeouts,   \* the values JobTimeoutMinutes may have
          Size,       \* location -> units of its content
          Unframed,   \* locations that send a body without saying how long it is
          MaxSource,  \* MaxTempDiskGB, in units; 0 for no limit
          DiskRoom,   \* units the disk with the temp directories holds
          NoFile, NoJob

\* A URL's marks are the substrings detectSourceType looks for in its host.
\* A bucket or an account whose name ends in "s3" has the mark "s3", too.
Url == [scheme : {"http", "https", "s3", "file", ""}, host : STRING,
        marks : SUBSET {"blob", "s3"}, path : Seq(STRING)]

ASSUME SourceAssumption ==
    /\ Urls \subseteq Url
    /\ \A l \in DOMAIN Size : Size[l] \in Nat
    /\ \A u \in Urls : \A h \in Accounts \cup {u.host} : <<h, u.path>> \in DOMAIN Size
    /\ NoFile \notin Seq(DOMAIN Size)
    /\ MaxSource \in Nat /\ DiskRoom \in Nat
    /\ Timeouts \subseteq Int

VARIABLES
    config,    \* the account and the timeout the service was started with
    url,       \* job.Source.URI
    pc,        \* what each job does next
    todo,      \* the locations its backend still tries, the present one first
    file,      \* the file "source" in each job's temp directory
    asked,     \* history: the locations a request was made to
    ctxDone    \* the job's context is past its deadline or cancelled

vars == <<config, url, pc, todo, file, asked, ctxDone>>

Here(u) == <<u.host, u.path>>
Ended   == {"convert", "failed", "nodir"}

Init ==
    /\ config \in [account : Accounts \cup {NoKey, BadKey}, timeout : Timeouts]
    /\ url \in [Jobs -> Urls]
    /\ pc = [j \in Jobs |-> "fetch"]
    /\ todo = [j \in Jobs |-> <<>>]
    /\ file = [j \in Jobs |-> NoFile]
    /\ asked = [j \in Jobs |-> {}]
    /\ ctxDone = [j \in Jobs |-> config.timeout <= 0]

-------------------------------------------------------------------------------
(* Where a source is looked for.                                           *)

\* detectSourceType: the host is looked at before the scheme.
SourceType(u) ==
    CASE "blob" \in u.marks                            -> "azure-blob"
      [] u.marks = {"s3"}                              -> "s3"
      [] u.marks = {} /\ u.scheme \in {"file", ""}     -> "local"
      [] u.marks = {} /\ u.scheme \notin {"file", ""}  -> "http"

SlipAccountOnly(u) ==
    IF config.account = NoKey THEN <<Here(u)>> ELSE << <<config.account, u.path>> >>

\* The Azure backend asks the configured account, if it has a key, for the
\* container and the blob of the URL, and then for the URL as it is.
AzureAttempts(u) ==
    IF config.account = NoKey THEN <<Here(u)>>
                              ELSE << <<config.account, u.path>>, Here(u) >>

\* NewAzureStorage fails with its client, whatever the URL names.
AzureMade == config.account # BadKey

\* parseAzureBlobURL wants a container and a blob.
NamesBlob(u) == Len(u.path) >= 2

\* The HTTP client has no transport for other schemes.
HTTPAttempts(u) == IF u.scheme \in {"http", "https"} THEN <<Here(u)>> ELSE <<>>

\* The S3 backend parses the URL and then downloads nothing.
S3Attempts(u) == <<>>

\* What the backend tries that NewDownloadOnlyStorage makes for the type, if
\* it makes one and the backend can read the URL.
Attempts(u) ==
    CASE SourceType(u) = "azure-blob" ->
            IF AzureMade /\ NamesBlob(u) THEN AzureAttempts(u) ELSE <<>>
      [] SourceType(u) = "local"      -> <<Here(u)>>
      [] SourceType(u) = "http"       -> HTTPAttempts(u)
      [] SourceType(u) = "s3"         -> S3Attempts(u)

-------------------------------------------------------------------------------
(* The steps of a download.                                                *)

SlipNoContext(j) == TRUE

\* A request with a context that is done is not sent; a local copy has none.
MayAsk(j) == SourceType(url[j]) = "local" \/ ~ctxDone[j]

GoTo(j, step) == pc' = [pc EXCEPT ![j] = step]

\* The request for the first of the given locations goes out.
Ask(j, locations) ==
    /\ MayAsk(j)
    /\ todo' = [todo EXCEPT ![j] = locations]
    /\ asked' = [asked EXCEPT ![j] = @ \cup {Head(locations)}]
    /\ GoTo(j, "request")

StartDownload(j) ==
    /\ pc[j] = "fetch"
    /\ Attempts(url[j]) # <<>>
    /\ Ask(j, Attempts(url[j]))
    /\ UNCHANGED <<config, url, file, ctxDone>>

RefuseDownload(j) ==
    /\ pc[j] = "fetch"
    /\ Attempts(url[j]) = <<>> \/ ~MayAsk(j)
    /\ GoTo(j, "failed")
    /\ UNCHANGED <<config, url, todo, file, asked, ctxDone>>

\* The Azure backend makes the job's directory before it asks anybody.
NoDirectory(j) ==
    /\ pc[j] = "fetch"
    /\ SourceType(url[j]) = "azure-blob" /\ Attempts(url[j]) # <<>>
    /\ GoTo(j, "nodir")
    /\ UNCHANGED <<config, url, todo, file, asked, ctxDone>>

SlipCommonDir(j) == CHOOSE k \in Jobs : TRUE

\* filepath.Join(TempDir, jobID): whose directory a job's file lies in.
Dir(j) == j

SlipAppend(j) == IF file[Dir(j)] = NoFile THEN <<>> ELSE file[Dir(j)]

\* os.Create empties a file that is there.
Created(j) == <<>>

Answered(j) ==
    /\ pc[j] = "request"
    /\ GoTo(j, "copy")
    /\ file' = [file EXCEPT ![Dir(j)] = Created(j)]
    /\ UNCHANGED <<config, url, todo, asked, ctxDone>>

Length(j) == IF file[j] = NoFile THEN 0 ELSE Len(file[j])
Source(j) == Head(todo[j])

\* The disk is shared by all jobs: each unit of each file takes its room.
OnDisk   == UNION {{j} \X (1 .. Length(j)) : j \in Jobs}
DiskUsed == Cardinality(OnDisk)

\* io.Copy: the next unit arrives, and the disk has room for it.
Copy(j) ==
    /\ pc[j] = "copy"
    /\ Length(Dir(j)) < Size[Source(j)]
    /\ DiskUsed < DiskRoom
    /\ file' = [file EXCEPT ![Dir(j)] = Append(@, Source(j))]
    /\ UNCHANGED <<config, url, pc, todo, asked, ctxDone>>

\* The body has come to its end; where nothing says how long it is, a
\* connection that breaks looks the same.
EndOfBody(j) == Length(Dir(j)) >= Size[Source(j)] \/ Source(j) \in Unframed

CopyEnds(j) ==
    /\ pc[j] = "copy"
    /\ EndOfBody(j)
    /\ GoTo(j, "validate")
    /\ UNCHANGED <<config, url, todo, file, asked, ctxDone>>

SlipRetrySame(j) == todo[j]

\* What is left to try when the present location has failed.
Remaining(j) == Tail(todo[j])

\* The request is refused or aborted, the answer breaks off, or the disk is
\* full: the backend goes on to the next location it knows, or gives up.
AttemptFails(j) ==
    /\ pc[j] \in {"request", "copy"}
    /\ \/ Remaining(j) # <<>> /\ Ask(j, Remaining(j))
       \/ /\ Remaining(j) = <<>> \/ ~MayAsk(j)
          /\ GoTo(j, "failed")
          /\ UNCHANGED <<todo, asked>>
    /\ UNCHANGED <<config, url, file, ctxDone>>

\* validateSourceFile.
Acceptable(j) ==
    /\ Length(Dir(j)) # 0
    /\ MaxSource > 0 => Length(Dir(j)) <= MaxSource

Validate(j) ==
    /\ pc[j] = "validate"
    /\ GoTo(j, IF Acceptable(j) THEN "convert" ELSE "failed")
    /\ UNCHANGED <<config, url, todo, file, asked, ctxDone>>

ContextEnds(j) ==
    /\ pc[j] \notin Ended
    /\ ~ctxDone[j]
    /\ ctxDone' = [ctxDone EXCEPT ![j] = TRUE]
    /\ UNCHANGED <<config, url, pc, todo, file, asked>>

Download(j) ==
    \/ StartDownload(j) \/ RefuseDownload(j) \/ NoDirectory(j)
    \/ Answered(j) \/ Copy(j) \/ CopyEnds(j) \/ AttemptFails(j)
    \/ Validate(j)

AllEnded == (\A j \in Jobs : pc[j] \in Ended) /\ UNCHANGED vars

Next ==
    \/ \E j \in Jobs : Download(j) \/ ContextEnds(j)
    \/ AllEnded

Spec == Init /\ [][Next]_vars

\* A remote peer owes an answer only to nobody: its request ends for sure
\* once the context is done.  The disk does what it is asked.
WaitsForPeer(j) == pc[j] \in {"request", "copy"} /\ SourceType(url[j]) # "local"

Fairness ==
    \A j \in Jobs : WF_vars((WaitsForPeer(j) => ctxDone[j]) /\ Download(j))

FairSpec == Spec /\ Fairness

-------------------------------------------------------------------------------
(* Properties *)

Locations == DOMAIN Size

\* A job has a file once an answer has come, and only its backend's
\* locations are tried; the disk never holds more than it can.
TypeOK ==
    /\ config.account \in Accounts \cup {NoKey, BadKey} /\ config.timeout \in Timeouts
    /\ url \in [Jobs -> Urls]
    /\ pc \in [Jobs -> {"fetch", "request", "copy", "validate"} \cup Ended]
    /\ \A j \in Jobs : todo[j] \in Seq(Locations) /\ asked[j] \subseteq Locations
    /\ \A j \in Jobs : file[j] # NoFile => file[j] \in Seq(Locations)
    /\ \A j \in Jobs : pc[j] \in {"copy", "validate", "convert"} => file[j] # NoFile
    /\ ctxDone \in [Jobs -> BOOLEAN]
    /\ DiskUsed <= DiskRoom

\* The file whose path DownloadFile returns.
Got(j) == file[Dir(j)]

\* What goes to the transcoder comes from one answer and is all of it,
\* although an attempt before it may have written some, the disk may have
\* filled up and the connection broken: only a body of unknown length can be
\* cut short unnoticed (helpers.go:39, azure.go:98-110).
ConvertedSourceIsWhole ==
    \A j \in Jobs : pc[j] = "convert" =>
        \E l \in Locations :
            /\ Got(j) \in Seq({l}) \ {<<>>}
            /\ l \notin Unframed => Len(Got(j)) = Size[l]

\* REQUIREMENTS.md:274, "Events specify the source file": what goes to the
\* transcoder is what the job's URL names, unless the URL names another
\* Azure account than the configured one, which is asked first (azure.go:100).
Foreign(u) ==
    /\ SourceType(u) = "azure-blob"
    /\ config.account \notin {NoKey, BadKey, u.host}

ConvertedSourceIsNamed ==
    \A j \in Jobs : pc[j] = "convert" /\ ~Foreign(url[j]) =>
        Got(j) \in Seq({Here(url[j])})

\* A download that has asked anybody does not fail, within its time, before
\* the URL of the job itself was asked, whatever the configured account
\* answered and however far its answer came (azure.go:98-104).  What came
\* whole and is refused by validateSourceFile is not asked for again.
FallbackReachesURL ==
    [][\A j \in Jobs :
          pc[j] \in {"request", "copy"} /\ pc'[j] = "failed" /\ ~ctxDone[j]
          => Here(url[j]) \in asked[j]]_vars

\* README.md:623-625: local paths, blobs and "other HTTP/HTTPS URLs" are
\* sources.
Documented(u) ==
    \/ u.scheme \in {"http", "https"} /\ ("blob" \in u.marks => NamesBlob(u))
    \/ u.scheme \in {"file", ""} /\ u.marks = {}

\* The download of such a source does not fail, within its time and with an
\* account key in order, before the URL was asked, a directory that cannot be
\* made ("nodir") aside.
DocumentedSourcesAreTried ==
    [][\A j \in Jobs :
          /\ pc[j] \in {"fetch", "request", "copy"} /\ pc'[j] = "failed"
          /\ Documented(url[j]) /\ AzureMade /\ ~ctxDone[j]
          => Here(url[j]) \in asked[j]]_vars

\* JobTimeoutMinutes is not checked (config.go:299): with zero or less it is
\* no "without limit", but a service that converts no remote source at all.
ZeroTimeoutFailsRemoteJobs ==
    config.timeout <= 0 =>
        \A j \in Jobs : pc[j] = "convert" => SourceType(url[j]) = "local"

\* A peer that never answers holds a job until its context ends, no longer.
DownloadEnds == \A j \in Jobs : ctxDone[j] ~> pc[j] \in Ended

-------------------------------------------------------------------------------
(* The stages of WorkerPool.                                               *)

StageOf(step) ==
    CASE step = "fetch"                -> "fetch"
      [] step \in {"request", "copy"}  -> "fetching"
      [] step = "validate"             -> "validate"
      [] step = "convert"              -> "probe"
      [] step \in {"failed", "nodir"}  -> "select"

GivenUp(j) == pc[j] \in {"failed", "nodir"}
Stages     == [j \in Jobs |-> StageOf(pc[j])]
Unsettled  == [j \in Jobs |-> IF GivenUp(j) THEN NoJob ELSE j]
Expired    == [j \in Jobs |-> ctxDone[j] /\ ~GivenUp(j)]
States     == [j \in Jobs |-> IF GivenUp(j) THEN "failed" ELSE "processing"]
TempDirs   == [j \in Jobs |-> IF file[j] = NoFile \/ pc[j] \in {"request", "copy"}
                              THEN {} ELSE {"source"}]

\* These stages see nothing of the outputs and of the output storage.
Pool(local) == INSTANCE WorkerPool WITH
    Workers        <- Jobs,     Files         <- {},
    Templated      <- Jobs,     LocalSource   <- local,
    HasAzureClient <- FALSE,    OutputStorage <- "local",
    starter        <- "serving",
    ctxDone        <- FALSE,
    queue          <- <<>>,
    verdict        <- [j \in Jobs |-> "queued"],
    status         <- States,   pc            <- Stages,
    cur            <- Unsettled, expired      <- Expired,
    temp           <- TempDirs,
    result         <- [j \in Jobs |-> {}],
    stored         <- [j \in Jobs |-> <<>>]

LocalJobs == {j \in Jobs : SourceType(url[j]) = "local"}

\* Every step of a download is one of the steps WorkerPool allows a worker in
\* these stages, or happens within one: which look at the context, and what
\* each leaves in the temp directory.
ImplementsStages ==
    [][\E local \in SUBSET Jobs : local = LocalJobs /\ \E j \in Jobs :
          \/ Pool(local)!StartDownload(j) \/ Pool(local)!FinishDownload(j)
          \/ Pool(local)!ValidateSource(j) \/ Pool(local)!Timeout(j)
      ]_<<Stages, Unsettled, Expired, States, TempDirs>>
================================================================================
