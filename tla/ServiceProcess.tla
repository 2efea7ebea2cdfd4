------------------------------ MODULE ServiceProcess ------------------------------
(***************************************************************************)
(* The process from its start to its end: runProductionMode, worker.New    *)
(* and Router.Start, the three HTTP servers and the goroutines main waits  *)
(* for.  What flows through the webhook and the pool is ConverterService;  *)
(* here they only start and stop.                                          *)
(*                                                                         *)
(* net/http is external: ListenAndServe takes its port, then registers     *)
(* the listener unless Shutdown was called before; Shutdown closes the     *)
(* registered listener.  The two may run at the same time.                 *)
(***************************************************************************)
EXTENDS ServiceConfig, FiniteSets

CONSTANTS Files,         \* what config.yaml may set: functions of some fields
          BadFile,       \* a config.yaml that does not parse
          Envs,          \* what the environment may set
          ForeignPorts   \* ports other processes have taken

ASSUME ProcessAssumption ==
    /\ \A s \in Files \cup Envs : DOMAIN s \subseteq Fields
    /\ \A s \in Files : \A f \in Numbers \cap DOMAIN s : s[f] \in Int
    /\ \A s \in Envs : \A f \in Numbers \cap DOMAIN s : s[f] \in {Junk} \cup Int
    /\ BadFile \notin Files

VARIABLES
    file, env,   \* config.yaml and the environment at the start
    works,       \* ffmpeg can be run and the temp directory made
    cfg,         \* the configuration Load returned
    main,        \* how far runProductionMode has come
    server,      \* the goroutine of each server in ListenAndServe
    shut,        \* the servers Shutdown was called for
    router,      \* Router.Start
    pool,        \* Worker.Start
    signalled    \* a signal waits in sigChan

given == <<file, env, works, cfg>>
parts == <<server, shut, router, pool>>
vars  == <<given, main, parts, signalled>>

Servers == {"api", "health", "hook"}

Init ==
    /\ file \in Files \cup {BadFile}
    /\ env \in Envs
    /\ works \in BOOLEAN
    /\ cfg = Defaults
    /\ main = "load"
    /\ server = [s \in Servers |-> "none"]
    /\ shut = {}
    /\ router = "none"
    /\ pool = "none"
    /\ signalled = FALSE

\* Dead by os.Exit(1), killed by a signal nobody asked to be told of, or
\* exited in good order.
Alive   == main \notin {"dead", "killed", "exited"}
CtxDone == main \in {"cancelled", "apiShut", "waiting", "exited"}

-------------------------------------------------------------------------------
(* runProductionMode.                                                      *)

Accepted == file # BadFile /\ Valid(Loaded(file, env))

LoadConfig ==
    /\ main = "load"
    /\ \/ Accepted /\ main' = "new" /\ cfg' = Loaded(file, env)
       \/ ~Accepted /\ main' = "dead" /\ UNCHANGED cfg
    /\ UNCHANGED <<file, env, works, parts, signalled>>

\* NewTranscoder: ffmpeg -version runs, and the temp directory can be made.
CanTranscode == works

\* NewStorage knows these; the Azure client refuses a key that is not base64.
FactoryTypes == {"local", "azure-blob", "s3"}
MayRefuse    == {"azure-blob"}

NewWorker ==
    /\ main = "new"
    /\ \/ CanTranscode /\ cfg.storage \in FactoryTypes /\ main' = "launch"
       \/ ~CanTranscode /\ main' = "dead"
       \/ cfg.storage \notin (FactoryTypes \ MayRefuse) /\ main' = "dead"
    /\ UNCHANGED <<given, parts, signalled>>

\* The four goroutines of the WaitGroup.
Launch ==
    /\ main = "launch"
    /\ main' = "notify"
    /\ server' = [server EXCEPT !["api"] = "starting", !["health"] = "starting"]
    /\ router' = "starting"
    /\ pool' = "starting"
    /\ UNCHANGED <<given, shut, signalled>>

Notify ==
    /\ main = "notify"
    /\ main' = "running"
    /\ UNCHANGED <<given, parts, signalled>>

\* SIGINT or SIGTERM: before signal.Notify it kills the process, whatever
\* its goroutines are doing.
Signal ==
    /\ Alive /\ ~signalled
    /\ \/ main \in {"load", "new", "launch", "notify"} /\ main' = "killed" /\ UNCHANGED signalled
       \/ main \notin {"load", "new", "launch", "notify"} /\ signalled' = TRUE /\ UNCHANGED main
    /\ UNCHANGED <<given, parts>>

Cancel ==
    /\ main = "running" /\ signalled
    /\ main' = "cancelled"
    /\ UNCHANGED <<given, parts, signalled>>

\* http.Server.Shutdown: no new ListenAndServe succeeds, and one that is
\* serving returns.  It waits for open requests no longer than its context.
Shutdown(s) ==
    /\ shut' = shut \cup {s}
    /\ server' = [server EXCEPT ![s] = IF @ = "serving" THEN "closed" ELSE @]

SlipHealthStays == "api"

\* The server that is shut down second.
SecondServer == "health"

ShutdownServers ==
    /\ \/ main = "cancelled" /\ Shutdown("api") /\ main' = "apiShut"
       \/ main = "apiShut" /\ Shutdown(SecondServer) /\ main' = "waiting"
    /\ UNCHANGED <<given, router, pool, signalled>>

Returned(s) == server[s] \in {"failed", "closed"}

SlipForgetPool ==
    Returned("api") /\ Returned("health") /\ router = "returned"

\* wg.Wait: the webhook server's goroutine is not counted.
AllReturned ==
    Returned("api") /\ Returned("health") /\ router = "returned" /\ pool = "returned"

Exit ==
    /\ main = "waiting" /\ AllReturned
    /\ main' = "exited"
    /\ UNCHANGED <<given, parts, signalled>>

-------------------------------------------------------------------------------
(* The servers, ListenAndServe.                                            *)

Port(s) == IF s = "api" THEN cfg.port ELSE IF s = "health" THEN cfg.health ELSE 8082

Taken(s) ==
    \/ Port(s) \in ForeignPorts
    \/ \E t \in Servers \ {s} : server[t] \in {"bound", "serving"} /\ Port(t) = Port(s)

Become(s, state) == server' = [server EXCEPT ![s] = state]

\* A port that is taken is logged, and the process goes on without.
Bind(s) ==
    /\ Alive /\ server[s] = "starting"
    /\ \/ s \in shut /\ Become(s, "closed")
       \/ s \notin shut /\ ~Taken(s) /\ Become(s, "bound")
       \/ s \notin shut /\ Taken(s) /\ Become(s, "failed")
    /\ UNCHANGED <<given, main, shut, router, pool, signalled>>

Serve(s) ==
    /\ Alive /\ server[s] = "bound"
    /\ Become(s, IF s \in shut THEN "closed" ELSE "serving")
    /\ UNCHANGED <<given, main, shut, router, pool, signalled>>

-------------------------------------------------------------------------------
(* Router.Start and Worker.Start.                                          *)

GridConfigured   == cfg.endpoint # "" /\ cfg.key # ""
SocketConfigured == cfg.socket # ""

SlipBothSources == GridConfigured /\ SocketConfigured

\* The webhook server is made for either event source.
HasEventSources == GridConfigured \/ SocketConfigured

StartRouter ==
    /\ Alive /\ router = "starting"
    /\ router' = "listening"
    /\ IF HasEventSources THEN Become("hook", "starting") ELSE UNCHANGED server
    /\ UNCHANGED <<given, main, shut, pool, signalled>>

StopRouter ==
    /\ Alive /\ router = "listening" /\ CtxDone
    /\ router' = "returned"
    /\ IF HasEventSources THEN Shutdown("hook") ELSE UNCHANGED <<server, shut>>
    /\ UNCHANGED <<given, main, pool, signalled>>

RunPool ==
    /\ Alive
    /\ \/ pool = "starting" /\ pool' = "serving"
       \/ pool = "serving" /\ CtxDone /\ pool' = "returned"
    /\ UNCHANGED <<given, main, server, shut, router, signalled>>

-------------------------------------------------------------------------------
MainStep ==
    \/ LoadConfig \/ NewWorker \/ Launch \/ Notify
    \/ Cancel \/ ShutdownServers \/ Exit

Terminated == ~Alive /\ UNCHANGED vars

Next ==
    \/ MainStep \/ Signal
    \/ \E s \in Servers : Bind(s) \/ Serve(s)
    \/ StartRouter \/ StopRouter \/ RunPool
    \/ Terminated

Spec == Init /\ [][Next]_vars

\* Every goroutine that can run does; the pool's workers put down their jobs
\* once the context is done, as ShutdownCompletes says in WorkerPool.
Fairness ==
    /\ WF_vars(MainStep)
    /\ \A s \in Servers : WF_vars(Bind(s) \/ Serve(s))
    /\ WF_vars(StartRouter \/ StopRouter) /\ WF_vars(RunPool)

FairSpec == Spec /\ Fairness

-------------------------------------------------------------------------------
(* Properties *)

\* Every part is where it can be; no server is at work before main has made
\* it, nor two on one port.
TypeOK ==
    /\ file \in Files \cup {BadFile} /\ env \in Envs /\ works \in BOOLEAN
    /\ DOMAIN cfg = Fields
    /\ cfg.port \in 1..MaxPort /\ cfg.health \in 1..MaxPort
    /\ main \in {"load", "new", "launch", "notify", "running", "cancelled",
                 "apiShut", "waiting", "exited", "dead", "killed"}
    /\ server \in [Servers -> {"none", "starting", "bound", "serving", "failed", "closed"}]
    /\ shut \subseteq Servers
    /\ router \in {"none", "starting", "listening", "returned"}
    /\ pool \in {"none", "starting", "serving", "returned"}
    /\ signalled \in BOOLEAN
    /\ \A s, t \in Servers :
          server[s] = "serving" /\ server[t] = "serving" /\ Port(s) = Port(t) => s = t

Launched == main \notin {"load", "new", "launch", "dead"} /\ pool # "none"

\* REQUIREMENTS.md:264, "precedence: ENV > YAML > defaults", of a service that
\* runs: each field is the environment's, or else the file's, or else the
\* default, and a number in it is a number.  Read is what the environment's
\* text counts as: a log level loses its capitals there, and only there.
LoadedByPrecedence ==
    Launched =>
        /\ \A f \in Numbers : cfg[f] \in Int
        /\ \A f \in Fields :
              \/ f \in DOMAIN env /\ cfg[f] = Read(f, env[f])
              \/ /\ f \notin DOMAIN env \/ (f \notin Texts /\ env[f] = Junk)
                 /\ \/ f \in DOMAIN file /\ cfg[f] = file[f]
                    \/ f \notin DOMAIN file /\ cfg[f] = Defaults[f]

\* A service whose pool serves has what WorkerPool assumes: workers, and a
\* storage that one of the three backends is.
PoolAssumptionHolds ==
    pool = "serving" =>
        /\ cfg.jobs >= 1
        /\ cfg.storage \in {"local", "azure-blob", "s3"}

\* When main has waited for everybody, the pool is down and no server takes
\* connections, however early the signal came: one that had not come to
\* listen yet does not do so afterwards.
ExitLeavesNothingServing ==
    main = "exited" =>
        /\ pool = "returned" /\ router = "returned"
        /\ \A s \in Servers : server[s] # "serving"

PortsApart ==
    LET ports == <<cfg.port, cfg.health, 8082>> IN
    /\ \A i, j \in DOMAIN ports : ports[i] = ports[j] => i = j
    /\ \A i \in DOMAIN ports : ports[i] \notin ForeignPorts

\* A service that was launched on ports of its own serves its status and
\* health pages, and the webhook if Event Grid is configured, until a signal
\* comes.
ServersComeUp ==
    \A s \in Servers :
        pool # "none" /\ PortsApart /\ (s = "hook" => GridConfigured)
            ~> (server[s] = "serving" \/ signalled \/ main = "killed")

\* A signal ends the process, whenever it comes and whichever servers failed.
SignalEndsProcess == signalled ~> main = "exited"

\* README.md:471, "STORAGE_TYPE=local  # local|docker|azure-blob|s3", and
\* README.md:399, which runs the container with docker: a configuration that
\* validation accepts starts, if ffmpeg works and no key is refused.
AcceptedConfigurationStarts ==
    main = "dead" /\ works /\ cfg.storage \notin MayRefuse => ~Accepted
================================================================================
