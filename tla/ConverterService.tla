---------------------------- MODULE ConverterService ----------------------------
(***************************************************************************)
(* The service as main.go wires it: the webhook handlers of the event      *)
(* router submit jobs to the worker pool, and runProductionMode takes all  *)
(* of it down on a signal.  The pool is its abstraction JobLedger, which   *)
(* WorkerPool implements.                                                  *)
(*                                                                         *)
(* Event Grid is outside: it delivers a batch of events at least once and  *)
(* may deliver it again, as after a lost or late answer, even while the    *)
(* first delivery is being handled.  Each delivery is one HTTP request     *)
(* with its own handler goroutine.                                         *)
(*                                                                         *)
(* The process may crash at any step, and the container runtime starts it  *)
(* again (docker-compose.yml, restart: unless-stopped).  Nothing of the    *)
(* router or the queue is persisted.                                       *)
(***************************************************************************)
EXTENDS Naturals, Sequences, FiniteSets

CONSTANTS Batches,         \* each batch of events: a sequence of Kind
          MaxDeliveries,   \* bound: how often Event Grid delivers a batch
          Capacity,        \* MaxConcurrentJobs*2, the room of the job queue
          MaxRunning,      \* MaxConcurrentJobs
          MaxCrashes       \* bound: how often the process crashes

\* What the handler makes of an event: a subscription validation with a code
\* in it, a created blob with a video's extension, or anything it skips (of
\* another type, not a video, or without the fields it looks for).
Kind == {"validation", "video", "skipped"}

ASSUME ServiceAssumption ==
    /\ \A b \in DOMAIN Batches : Batches[b] \in Seq(Kind)
    /\ MaxDeliveries \in [DOMAIN Batches -> Nat]
    /\ Capacity \in Nat /\ MaxRunning \in Nat /\ MaxCrashes \in Nat

Deliveries == UNION {{b} \X (1 .. MaxDeliveries[b]) : b \in DOMAIN Batches}
Events(d)  == Batches[d[1]]

\* The job of an event is new for each delivery: generateJobID takes the time
\* and four random bytes, nothing of the event.
JobOf(d, i) == <<d, i>>
Jobs == UNION {{JobOf(d, i) : i \in DOMAIN Events(d)} : d \in Deliveries}

VARIABLES
    crashes,   \* how often the process has crashed
    main,      \* how far runProductionMode has come
    router,    \* how far Router.Start has come
    pool,      \* how far Worker.Start has come
    request,   \* the webhook request of each delivery
    at,        \* the event its handler is at
    phase, line, safe, open   \* the pool's jobs, as in JobLedger

Ledger == INSTANCE JobLedger

jobVars == <<phase, line, safe, open>>
reqVars == <<request, at>>
vars    == <<crashes, main, router, pool, reqVars, jobVars>>

Init ==
    /\ crashes = 0
    /\ main = "running"
    /\ router = "starting"
    /\ pool = "starting"
    /\ request = [d \in Deliveries |-> "unsent"]
    /\ at = [d \in Deliveries |-> 1]
    /\ Ledger!Init

Alive     == main \notin {"exited", "down"}
CtxDone   == main \notin {"running", "down"}
Listening == router = "serving"

-------------------------------------------------------------------------------
(* The webhook.                                                            *)

\* Event Grid sends the request; only a first delivery comes unprompted, but
\* nothing keeps the next one from coming early.
Deliver(d) ==
    /\ Listening
    /\ request[d] = "unsent"
    /\ d[2] > 1 => request[<<d[1], d[2] - 1>>] # "unsent"
    /\ request' = [request EXCEPT ![d] = "reading"]
    /\ UNCHANGED <<crashes, main, router, pool, at, jobVars>>

\* The body has arrived and decodes; or the key is wrong, the body is cut
\* short or is no JSON array, and nothing of it is looked at.
Decode(d) ==
    /\ Alive
    /\ request[d] = "reading"
    /\ \E next \in {"handling", "rejected"} :
          request' = [request EXCEPT ![d] = next]
    /\ UNCHANGED <<crashes, main, router, pool, at, jobVars>>

Handling(d, kind) ==
    /\ Alive
    /\ request[d] = "handling"
    /\ at[d] \in DOMAIN Events(d)
    /\ Events(d)[at[d]] = kind

NextEvent(d) == at' = [at EXCEPT ![d] = @ + 1] /\ UNCHANGED request

Answer(d) == request' = [request EXCEPT ![d] = "answered"] /\ UNCHANGED at

SkipEvent(d) ==
    /\ Handling(d, "skipped")
    /\ NextEvent(d)
    /\ UNCHANGED <<crashes, main, router, pool, jobVars>>

\* The validation code is echoed with status 200 and the handler returns.
Validate(d) ==
    /\ Handling(d, "validation")
    /\ Answer(d)
    /\ UNCHANGED <<crashes, main, router, pool, jobVars>>

SlipStopAtError(d) == Answer(d)

\* processEventGridEvent's error is logged; the loop goes on.
AfterRefusal(d) == NextEvent(d)

SlipNoDefault(d, j) == FALSE

\* The default of SubmitJob's select: "job queue is full".
QueueFull(d, j) == Ledger!Refuse(j) /\ open /\ AfterRefusal(d)

\* SubmitJob never waits: the job is taken, it finds the queue full, or the
\* send panics on the closed channel, which net/http recovers by dropping the
\* connection.
SubmitEvent(d) ==
    /\ Handling(d, "video")
    /\ LET j == JobOf(d, at[d]) IN
         \/ Ledger!Accept(j) /\ NextEvent(d)
         \/ QueueFull(d, j)
         \/ /\ Ledger!Refuse(j) /\ ~open
            /\ request' = [request EXCEPT ![d] = "aborted"]
            /\ UNCHANGED at
    /\ UNCHANGED <<crashes, main, router, pool>>

AnswerOK(d) ==
    /\ Alive
    /\ request[d] = "handling"
    /\ at[d] > Len(Events(d))
    /\ Answer(d)
    /\ UNCHANGED <<crashes, main, router, pool, jobVars>>

Handler(d) ==
    \/ SkipEvent(d) \/ Validate(d) \/ SubmitEvent(d) \/ AnswerOK(d)

-------------------------------------------------------------------------------
(* Router.Start.                                                           *)

StartRouter ==
    /\ Alive /\ router = "starting"
    /\ router' = "serving"
    /\ UNCHANGED <<crashes, main, pool, reqVars, jobVars>>

\* server.Shutdown closes the listener first.
StopListening ==
    /\ Alive /\ router = "serving" /\ CtxDone
    /\ router' = "draining"
    /\ UNCHANGED <<crashes, main, pool, reqVars, jobVars>>

Open == {d \in Deliveries : request[d] \in {"reading", "handling"}}

SlipWaitForHandlers == Open = {}

\* Shutdown returns when no request is open, or with an error that is logged
\* when its five seconds are over.
DrainOver == TRUE

RouterReturns ==
    /\ Alive /\ router = "draining"
    /\ DrainOver
    /\ router' = "returned"
    /\ UNCHANGED <<crashes, main, pool, reqVars, jobVars>>

-------------------------------------------------------------------------------
(* Worker.Start and the workers.                                           *)

StartPool ==
    /\ Alive /\ pool = "starting"
    /\ pool' = "serving"
    /\ UNCHANGED <<crashes, main, router, reqVars, jobVars>>

SlipCloseUnasked ==
    /\ Alive /\ pool = "serving"
    /\ Ledger!Close
    /\ pool' = "closed"
    /\ UNCHANGED <<crashes, main, router, reqVars>>

SlipNeverClose ==
    /\ Alive /\ pool = "serving" /\ CtxDone
    /\ pool' = "closed"
    /\ UNCHANGED <<crashes, main, router, reqVars, jobVars>>

ClosePool ==
    /\ Alive /\ pool = "serving" /\ CtxDone
    /\ Ledger!Close
    /\ pool' = "closed"
    /\ UNCHANGED <<crashes, main, router, reqVars>>

\* A worker between two jobs leaves when the context is done, so that jobs
\* still in the line stay there.
PoolReturns ==
    /\ Alive /\ pool = "closed"
    /\ Ledger!Running = {}
    /\ pool' = "returned"
    /\ UNCHANGED <<crashes, main, router, reqVars, jobVars>>

Settle(j) == Ledger!Deliver(j) \/ Ledger!GiveUp(j)

WorkOn(j) ==
    /\ Alive
    /\ pool \in {"serving", "closed"}
    /\ \/ Ledger!Begin(j) \/ Ledger!Discard(j)
       \/ j \notin safe /\ Ledger!Secure(j)
       \/ Settle(j)
    /\ UNCHANGED <<crashes, main, router, pool, reqVars>>

-------------------------------------------------------------------------------
(* runProductionMode.                                                      *)

\* SIGINT or SIGTERM; cancel() of the context of router and pool.
Signal ==
    /\ main = "running"
    /\ main' = "cancelled"
    /\ UNCHANGED <<crashes, router, pool, reqVars, jobVars>>

\* The status and the health server are shut down, within thirty seconds.
StopServers ==
    /\ main = "cancelled"
    /\ main' = "waiting"
    /\ UNCHANGED <<crashes, router, pool, reqVars, jobVars>>

SlipForgetPool == router = "returned"

\* The goroutines the service's WaitGroup counts.
AllReturned == router = "returned" /\ pool = "returned"

Exit ==
    /\ main = "waiting"
    /\ AllReturned
    /\ main' = "exited"
    /\ UNCHANGED <<crashes, router, pool, reqVars, jobVars>>

-------------------------------------------------------------------------------
(* Crash and restart.                                                      *)

InMemory(j) == phase[j] \in {"queued", "running"}

\* Connections drop, and with the process goes all it knew of its jobs.
Crash ==
    /\ Alive /\ crashes < MaxCrashes
    /\ crashes' = crashes + 1
    /\ main' = "down" /\ router' = "down" /\ pool' = "down"
    /\ request' = [d \in Deliveries |->
                     IF d \in Open THEN "cut" ELSE request[d]]
    /\ phase' = [j \in Jobs |-> IF InMemory(j) THEN "lost" ELSE phase[j]]
    /\ at' = [d \in Deliveries |-> IF d \in Open THEN 1 ELSE at[d]]
    /\ line' = <<>> /\ safe' = {} /\ open' = FALSE

\* runProductionMode from its beginning: a new router, and a pool with a new
\* channel.
Restart ==
    /\ main = "down"
    /\ main' = "running" /\ router' = "starting" /\ pool' = "starting"
    /\ open' = TRUE
    /\ UNCHANGED <<crashes, reqVars, phase, line, safe>>

-------------------------------------------------------------------------------
RouterStep == StartRouter \/ StopListening \/ RouterReturns
PoolStep   == StartPool \/ ClosePool \/ PoolReturns
MainStep   == StopServers \/ Exit

Terminated == main = "exited" /\ UNCHANGED vars

Next ==
    \/ Crash \/ Restart
    \/ Signal \/ MainStep \/ RouterStep \/ PoolStep
    \/ \E d \in Deliveries : Deliver(d) \/ Decode(d) \/ Handler(d)
    \/ \E j \in Jobs : WorkOn(j)
    \/ Terminated

Spec == Init /\ [][Next]_vars

\* Goroutines that can run do run, timers fire and a running job settles, as
\* WorkerPool shows; a worker need not come to take another job, as jobs may
\* last for hours; Event Grid may keep a request's body back for ever, and
\* no signal need come.
Fairness ==
    /\ WF_vars(Restart)
    /\ WF_vars(RouterStep) /\ WF_vars(PoolStep) /\ WF_vars(MainStep)
    /\ \A d \in Deliveries : WF_vars(Handler(d))
    /\ \A j \in Jobs : WF_vars(Settle(j) /\ WorkOn(j))

FairSpec == Spec /\ Fairness

-------------------------------------------------------------------------------
(* Properties *)

\* Each part is where it can be, and no handler runs past its events.
TypeOK ==
    /\ crashes \in 0..MaxCrashes
    /\ main \in {"running", "cancelled", "waiting", "exited", "down"}
    /\ router \in {"starting", "serving", "draining", "returned", "down"}
    /\ pool \in {"starting", "serving", "closed", "returned", "down"}
    /\ request \in [Deliveries -> {"unsent", "reading", "rejected", "handling",
                                   "answered", "aborted", "cut"}]
    /\ at \in [Deliveries -> Nat \ {0}]
    /\ \A d \in Deliveries : at[d] <= Len(Events(d)) + 1
    /\ phase \in [Jobs -> Ledger!Phase \cup {"lost"}]
    /\ open = (pool \in {"starting", "serving"})

Validations(d) == {i \in DOMAIN Events(d) : Events(d)[i] = "validation"}

\* A video of an answered batch is lost only by the queue's refusal or by a
\* crash after its job was accepted: the job was taken or turned away,
\* whatever became of the batch's other events, unless a validation event
\* comes before it.
AnsweredMeansDecided ==
    \A d \in Deliveries : request[d] = "answered" =>
        \A i \in DOMAIN Events(d) :
            Events(d)[i] = "video" /\ (\A v \in Validations(d) : i < v)
                => phase[JobOf(d, i)] # "unseen"

\* The process is not left while a worker is at a job: whatever was running
\* when the signal came has been delivered or given up.
ExitLeavesNoRunningJob == main = "exited" => Ledger!Running = {}

\* A handler panics only in a shutdown, never in a process that has come up
\* again, and at a job that is nowhere in the pool: Event Grid sees the
\* connection drop and can deliver the batch again.
AbortOnlyInShutdown ==
    [][\A d \in Deliveries : request'[d] = "aborted" /\ request[d] # "aborted" =>
         /\ CtxDone
         /\ at[d] <= Len(Events(d))
         /\ phase'[JobOf(d, at[d])] = "refused"]_vars

\* Once the signal has come the process exits or crashes, whatever the senders
\* of open requests do.
SignalLeadsToExit == main = "cancelled" ~> main \in {"exited", "down"}

\* A handler that has its batch comes to an end whatever the workers do: no
\* job need be finished, or even taken out of a full queue, for the sender to
\* be answered or to see its connection drop (worker.go:95).
HandledRequestsEnd ==
    \A d \in Deliveries :
        request[d] = "handling" ~>
            (request[d] \in {"answered", "aborted", "cut"} \/ main = "exited")

\* REQUIREMENTS, Reliability: duplicate events are handled idempotently, so
\* that one event has one job however often it is delivered.
OneJobPerEvent ==
    \A c, d \in Deliveries : \A i \in DOMAIN Events(d) :
        /\ c[1] = d[1]
        /\ phase[JobOf(c, i)] \notin {"unseen", "refused"}
        /\ phase[JobOf(d, i)] \notin {"unseen", "refused"}
        => c = d
===============================================================================
