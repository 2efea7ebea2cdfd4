-------------------------- MODULE ServiceProcessProofs --------------------------
(***************************************************************************)
(* Proofs about ServiceProcess, for any files, any environments and any    *)
(* ports that others have taken.                                           *)
(***************************************************************************)
EXTENDS ServiceProcess, TLAPS

-------------------------------------------------------------------------------
(* The configuration.                                                      *)

\* Each field of a loaded configuration is the environment's, or the file's,
\* or the default.
LEMMA LoadedFields ==
  ASSUME NEW fl \in Files, NEW en \in Envs, NEW f \in Fields
  PROVE  Loaded(fl, en)[f] =
           IF Says(f, en) THEN Read(f, en[f])
           ELSE IF f \in DOMAIN fl THEN fl[f] ELSE Defaults[f]
  BY DEF Loaded, FromEnv, FromFile

\* What is due to be a number is one.
LEMMA LoadedNumbers ==
  ASSUME NEW fl \in Files, NEW en \in Envs, NEW f \in Numbers
  PROVE  Loaded(fl, en)[f] \in Int
<1>1. f \in Fields /\ f # "level" /\ f \notin Texts
  BY DEF Numbers, Fields, Texts
<1>2. Defaults[f] \in Int
  <2>1. f \in {"port", "health", "jobs", "timeout"}
    BY DEF Numbers
  <2>2. /\ Defaults["port"] = 8080 /\ Defaults["health"] = 8081
        /\ Defaults["jobs"] = 2 /\ Defaults["timeout"] = 60
    BY DEF Defaults
  <2> QED BY <2>1, <2>2
<1>3. Says(f, en) => en[f] \in Int
  BY <1>1, ProcessAssumption DEF Says
<1>4. f \in DOMAIN fl => fl[f] \in Int
  BY ProcessAssumption
<1> QED BY <1>1, <1>2, <1>3, <1>4, LoadedFields DEF Read

\* A configuration that passed has ports a server can have.
LEMMA AcceptedPorts ==
  ASSUME NEW fl \in Files, NEW en \in Envs, Valid(Loaded(fl, en))
  PROVE  /\ Loaded(fl, en).port \in 1..MaxPort
         /\ Loaded(fl, en).health \in 1..MaxPort
         /\ Loaded(fl, en).jobs >= 1
<1> DEFINE c == Loaded(fl, en)
<1>1. c["port"] \in Int /\ c["health"] \in Int /\ c["jobs"] \in Int
  BY LoadedNumbers DEF Numbers
<1>2. ValidPort(c.port) /\ ValidPort(c.health) /\ c.jobs > 0
  BY DEF Valid
<1> HIDE DEF c
<1>3. c.port = c["port"] /\ c.health = c["health"] /\ c.jobs = c["jobs"]
  OBVIOUS
<1>4. MaxPort \in Int
  BY DEF MaxPort
<1>5. c.port \in 1..MaxPort /\ c.health \in 1..MaxPort /\ c.jobs >= 1
  BY <1>1, <1>2, <1>3, <1>4 DEF ValidPort
<1> QED BY <1>5 DEF c

-------------------------------------------------------------------------------
(* The inductive invariant.                                                *)

ServerState == {"none", "starting", "bound", "serving", "failed", "closed"}
MainState   == {"load", "new", "launch", "notify", "running", "cancelled",
                "apiShut", "waiting", "exited", "dead", "killed"}

InputTyped == file \in Files \cup {BadFile} /\ env \in Envs /\ works \in BOOLEAN

CfgTyped(c) == DOMAIN c = Fields /\ c.port \in 1..MaxPort /\ c.health \in 1..MaxPort

PartsTyped ==
    /\ main \in MainState
    /\ server \in [Servers -> ServerState]
    /\ shut \in SUBSET Servers
    /\ router \in {"none", "starting", "listening", "returned"}
    /\ pool \in {"none", "starting", "serving", "returned"}
    /\ signalled \in BOOLEAN

\* What main has come to says what it started with, and what there is to stop.
Unlaunched == main \in {"load", "new", "launch", "dead"}

Begun ==
    /\ main \in {"new", "launch"} \/ pool # "none" =>
          Accepted /\ cfg = Loaded(file, env)
    /\ main = "launch" \/ pool # "none" => cfg.storage \in FactoryTypes
    /\ Unlaunched => /\ pool = "none" /\ router = "none"
                     /\ \A s \in Servers : server[s] = "none"
    /\ main \notin {"load", "new", "launch", "dead", "killed"} => pool # "none"

\* A server that was shut down does not serve, and the webhook's goes with
\* the router that made it.
Stopped ==
    /\ \A s \in shut : server[s] # "serving"
    /\ router \in {"none", "starting"} \/ ~HasEventSources => server["hook"] = "none"
    /\ router = "returned" /\ HasEventSources => "hook" \in shut
    /\ main = "exited" => AllReturned

\* A port has one owner.
Owned(s) == server[s] \in {"bound", "serving"}
OnePort  == \A s, t \in Servers : Owned(s) /\ Owned(t) /\ Port(s) = Port(t) => s = t

ProcessInv == InputTyped /\ CfgTyped(cfg) /\ PartsTyped /\ Begun /\ Stopped /\ OnePort

LEMMA InitProcessInv == Init => ProcessInv
<1> SUFFICES ASSUME Init PROVE ProcessInv
  OBVIOUS
<1>1. InputTyped
  BY DEF Init, InputTyped
<1>2. CfgTyped(Defaults)
  <2>1. DOMAIN Defaults = Fields
    BY DEF Defaults, Fields, Numbers, Texts
  <2>2. Defaults.port = 8080 /\ Defaults.health = 8081
    BY DEF Defaults
  <2>3. /\ MaxPort \in Int /\ 8080 <= MaxPort /\ 8081 <= MaxPort
    BY DEF MaxPort
  <2>4. Defaults.port \in 1..MaxPort /\ Defaults.health \in 1..MaxPort
    BY <2>2, <2>3
  <2> QED BY <2>1, <2>4 DEF CfgTyped
<1>3. cfg = Defaults
  BY DEF Init
<1>4. PartsTyped
  BY DEF Init, PartsTyped, MainState, ServerState
<1>5. Begun /\ Stopped /\ OnePort
  BY DEF Init, Begun, Unlaunched, Stopped, OnePort, Owned, Servers
<1> QED BY <1>1, <1>2, <1>3, <1>4, <1>5 DEF ProcessInv

\* Load, and what it accepts.
LEMMA LoadConfigKeeps == ProcessInv /\ LoadConfig => ProcessInv'
<1> SUFFICES ASSUME ProcessInv, LoadConfig PROVE ProcessInv'
  OBVIOUS
<1>1. /\ UNCHANGED <<file, env, works, server, shut, router, pool, signalled>>
      /\ pool = "none" /\ router = "none" /\ \A s \in Servers : server[s] = "none"
  BY DEF LoadConfig, parts, ProcessInv, Begun, Unlaunched
<1>2. CfgTyped(cfg')
  <2>1. CASE cfg' = cfg
    BY <2>1 DEF ProcessInv
  <2>2. CASE Accepted /\ cfg' = Loaded(file, env)
    <3>1. file \in Files /\ env \in Envs /\ Valid(Loaded(file, env))
      BY <2>2 DEF Accepted, ProcessInv, InputTyped
    <3>2. DOMAIN Loaded(file, env) = Fields
      BY DEF Loaded, FromEnv
    <3>3. CfgTyped(Loaded(file, env))
      BY <3>1, <3>2, AcceptedPorts DEF CfgTyped
    <3> QED BY <2>2, <3>3
  <2> QED BY <2>1, <2>2 DEF LoadConfig
<1>3. PartsTyped'
  BY <1>1 DEF LoadConfig, ProcessInv, PartsTyped, MainState
<1>4. Begun'
  BY <1>1 DEF LoadConfig, Begun, Unlaunched, Accepted
<1>5. Stopped' /\ OnePort'
  BY <1>1 DEF LoadConfig, ProcessInv, Stopped, OnePort, Owned, Servers
<1>6. InputTyped'
  BY <1>1 DEF ProcessInv, InputTyped
<1>7. CfgTyped(cfg)'
  BY <1>2
<1> QED BY <1>3, <1>4, <1>5, <1>6, <1>7 DEF ProcessInv

\* Past Load nothing changes what the service was given.
LEMMA GivenStays ==
  ASSUME ProcessInv, UNCHANGED given
  PROVE  /\ InputTyped' /\ CfgTyped(cfg)'
         /\ Accepted' = Accepted /\ HasEventSources' = HasEventSources
         /\ \A s \in Servers : Port(s)' = Port(s)
<1>1. UNCHANGED <<file, env, works, cfg>>
  BY DEF given
<1> QED BY <1>1 DEF ProcessInv, InputTyped, CfgTyped, Accepted, HasEventSources,
                    GridConfigured, SocketConfigured, Port

\* main's steps that start and stop no server.
LEMMA MainKeeps ==
  ProcessInv /\ (NewWorker \/ Notify \/ Signal \/ Cancel \/ Exit) => ProcessInv'
<1> SUFFICES ASSUME ProcessInv, NewWorker \/ Notify \/ Signal \/ Cancel \/ Exit
             PROVE  ProcessInv'
  OBVIOUS
<1>1. UNCHANGED <<file, env, works, cfg, server, shut, router, pool>>
  BY DEF NewWorker, Notify, Signal, Cancel, Exit, given, parts
<1>2. /\ InputTyped' /\ CfgTyped(cfg)'
      /\ Accepted' = Accepted /\ HasEventSources' = HasEventSources
      /\ \A s \in Servers : Port(s)' = Port(s)
  BY <1>1, GivenStays DEF given
<1>3. PartsTyped'
  BY <1>1 DEF NewWorker, Notify, Signal, Cancel, Exit, ProcessInv, PartsTyped, MainState
<1>4. Begun'
  BY <1>1, <1>2 DEF NewWorker, Notify, Signal, Cancel, Exit, Alive,
                    ProcessInv, PartsTyped, MainState, Begun, Unlaunched
<1>5. Stopped'
  BY <1>1, <1>2 DEF NewWorker, Notify, Signal, Cancel, Exit, Alive,
                    ProcessInv, Stopped, AllReturned, Returned
<1>6. OnePort'
  BY <1>1, <1>2 DEF ProcessInv, OnePort, Owned
<1> QED BY <1>2, <1>3, <1>4, <1>5, <1>6 DEF ProcessInv

\* The goroutines begin.
LEMMA LaunchKeeps == ProcessInv /\ Launch => ProcessInv'
<1> SUFFICES ASSUME ProcessInv, Launch PROVE ProcessInv'
  OBVIOUS
<1>1. /\ InputTyped' /\ CfgTyped(cfg)'
      /\ Accepted' = Accepted /\ HasEventSources' = HasEventSources
      /\ UNCHANGED <<file, env, works, cfg>>
  BY GivenStays DEF Launch, given
<1>2. PartsTyped'
  BY DEF Launch, ProcessInv, PartsTyped, MainState, ServerState, Servers
<1>3. /\ \A s \in Servers : server'[s] \in {"none", "starting"}
      /\ server'["hook"] = "none" /\ shut' = shut
  BY DEF Launch, ProcessInv, PartsTyped, Begun, Unlaunched, Servers
<1>4. Begun'
  BY <1>1 DEF Launch, ProcessInv, Begun, Unlaunched
<1>5. Stopped' /\ OnePort'
  BY <1>3 DEF Launch, ProcessInv, PartsTyped, Stopped, OnePort, Owned
<1> QED BY <1>1, <1>2, <1>4, <1>5 DEF ProcessInv

\* http.Server.Shutdown: what it does to the servers, whoever calls it.
LEMMA ShutdownEffect ==
  ASSUME ProcessInv, NEW s \in Servers, Shutdown(s)
  PROVE  /\ server' \in [Servers -> ServerState] /\ shut' \in SUBSET Servers
         /\ s \in shut' /\ shut \subseteq shut'
         /\ \A t \in shut' : server'[t] # "serving"
         /\ \A t \in Servers : server'[t] \in {"bound", "serving"} => Owned(t)
         /\ \A t \in Servers : server[t] \in {"none", "failed", "closed"} => server'[t] = server[t]
  BY DEF Shutdown, ProcessInv, PartsTyped, ServerState, Stopped, Owned

\* main shuts down the status and the health server.
LEMMA ShutdownServersKeeps == ProcessInv /\ ShutdownServers => ProcessInv'
<1> SUFFICES ASSUME ProcessInv, ShutdownServers PROVE ProcessInv'
  OBVIOUS
<1>1. /\ InputTyped' /\ CfgTyped(cfg)'
      /\ Accepted' = Accepted /\ HasEventSources' = HasEventSources
      /\ \A s \in Servers : Port(s)' = Port(s)
      /\ UNCHANGED <<file, env, works, cfg, router, pool, signalled>>
  BY GivenStays DEF ShutdownServers, given
<1>2. PICK s \in Servers : Shutdown(s)
  BY DEF ShutdownServers, SecondServer, Servers
<1>3. PartsTyped'
  BY <1>1, <1>2, ShutdownEffect DEF ShutdownServers, ProcessInv, PartsTyped, MainState
<1>4. Begun'
  BY <1>1 DEF ShutdownServers, ProcessInv, Begun, Unlaunched
<1>5. Stopped'
  <2>1. main' # "exited" /\ "hook" \in Servers
    BY DEF ShutdownServers, Servers
  <2>2. \A t \in shut' : server'[t] # "serving"
    BY <1>2, ShutdownEffect
  <2>3. router' \in {"none", "starting"} \/ ~HasEventSources' => server'["hook"] = "none"
    <3>1. server["hook"] = "none" => server'["hook"] = "none"
      BY <1>2, <2>1, ShutdownEffect
    <3> QED BY <1>1, <3>1 DEF ProcessInv, Stopped
  <2>4. router' = "returned" /\ HasEventSources' => "hook" \in shut'
    <3>1. shut \subseteq shut'
      BY <1>2, ShutdownEffect
    <3> QED BY <1>1, <3>1 DEF ProcessInv, Stopped
  <2> QED BY <2>1, <2>2, <2>3, <2>4 DEF Stopped
<1>6. OnePort'
  BY <1>1, <1>2, ShutdownEffect DEF ProcessInv, OnePort, Owned
<1> QED BY <1>1, <1>3, <1>4, <1>5, <1>6 DEF ProcessInv

\* ListenAndServe takes a port that nobody has, and serves only if Shutdown
\* was not called.
LEMMA ServerKeeps == ASSUME NEW s \in Servers PROVE ProcessInv /\ (Bind(s) \/ Serve(s)) => ProcessInv'
<1> SUFFICES ASSUME ProcessInv, Bind(s) \/ Serve(s) PROVE ProcessInv'
  OBVIOUS
<1>1. /\ InputTyped' /\ CfgTyped(cfg)'
      /\ Accepted' = Accepted /\ HasEventSources' = HasEventSources
      /\ \A t \in Servers : Port(t)' = Port(t)
      /\ UNCHANGED <<file, env, works, cfg, main, shut, router, pool, signalled>>
  BY GivenStays DEF Bind, Serve, given
<1>2. /\ Alive /\ server[s] \in {"starting", "bound"}
      /\ server' = [server EXCEPT ![s] = server'[s]]
      /\ server'[s] \in {"bound", "failed", "closed", "serving"}
      /\ server'[s] = "serving" => s \notin shut
      /\ server'[s] \in {"bound", "serving"} => Owned(s) \/ ~Taken(s)
  BY DEF Bind, Serve, Become, Owned, ProcessInv, PartsTyped, ServerState
<1>3. PartsTyped'
  BY <1>1, <1>2 DEF ProcessInv, PartsTyped, ServerState
<1>4. Begun'
  BY <1>1, <1>2 DEF ProcessInv, Begun, Unlaunched
<1>5. Stopped'
  <2>1. main' # "exited" /\ "hook" \in Servers /\ server \in [Servers -> ServerState]
    BY <1>1, <1>2 DEF Alive, Servers, ProcessInv, PartsTyped
  <2>2. \A t \in Servers : t # s => server'[t] = server[t]
    BY <1>2, <2>1
  <2>3. \A t \in shut' : server'[t] # "serving"
    BY <1>1, <1>2, <2>2 DEF ProcessInv, PartsTyped, Stopped
  <2>4. server["hook"] = "none" => server'["hook"] = "none"
    BY <1>2, <2>1, <2>2
  <2>5. /\ router' \in {"none", "starting"} \/ ~HasEventSources' => server'["hook"] = "none"
        /\ router' = "returned" /\ HasEventSources' => "hook" \in shut'
    BY <1>1, <2>4 DEF ProcessInv, Stopped
  <2> QED BY <2>1, <2>3, <2>5 DEF Stopped
<1>6. OnePort'
  BY <1>1, <1>2 DEF ProcessInv, PartsTyped, OnePort, Owned, Taken
<1> QED BY <1>1, <1>3, <1>4, <1>5, <1>6 DEF ProcessInv

\* Router.Start makes the webhook's server, and shuts it down.
LEMMA RouterKeeps == ProcessInv /\ (StartRouter \/ StopRouter) => ProcessInv'
<1> SUFFICES ASSUME ProcessInv, StartRouter \/ StopRouter PROVE ProcessInv'
  OBVIOUS
<1>1. /\ InputTyped' /\ CfgTyped(cfg)'
      /\ Accepted' = Accepted /\ HasEventSources' = HasEventSources
      /\ \A t \in Servers : Port(t)' = Port(t)
      /\ UNCHANGED <<file, env, works, cfg, main, pool, signalled>>
  BY GivenStays DEF StartRouter, StopRouter, given
<1>2. "hook" \in Servers
  BY DEF Servers
<1>3. CASE StartRouter
  <2>1. /\ Alive /\ router = "starting" /\ router' = "listening" /\ shut' = shut
        /\ server' = server \/ (HasEventSources /\ server' = [server EXCEPT !["hook"] = "starting"])
    BY <1>3 DEF StartRouter, Become
  <2>2. PartsTyped'
    BY <1>1, <1>2, <2>1 DEF ProcessInv, PartsTyped, ServerState
  <2>3. Begun'
    BY <1>1, <2>1 DEF ProcessInv, Begun, Unlaunched
  <2>4. Stopped'
    BY <1>1, <1>2, <2>1 DEF ProcessInv, PartsTyped, Stopped, Alive
  <2>5. OnePort'
    BY <1>1, <1>2, <2>1 DEF ProcessInv, PartsTyped, OnePort, Owned
  <2> QED BY <1>1, <2>2, <2>3, <2>4, <2>5 DEF ProcessInv
<1>4. CASE StopRouter
  <2>1. /\ Alive /\ router = "listening" /\ router' = "returned" /\ main # "launch"
        /\ HasEventSources => Shutdown("hook")
        /\ ~HasEventSources => UNCHANGED <<server, shut>>
    BY <1>4 DEF StopRouter, CtxDone
  <2>2. CASE HasEventSources
    <3>1. PartsTyped'
      BY <1>1, <1>2, <2>1, <2>2, ShutdownEffect DEF ProcessInv, PartsTyped
    <3>2. Begun'
      BY <1>1, <2>1 DEF ProcessInv, Begun, Unlaunched
    <3>3. Stopped'
      BY <1>1, <1>2, <2>1, <2>2, ShutdownEffect DEF ProcessInv, Stopped, Alive
    <3>4. OnePort'
      BY <1>1, <1>2, <2>1, <2>2, ShutdownEffect DEF ProcessInv, OnePort, Owned
    <3> QED BY <1>1, <3>1, <3>2, <3>3, <3>4 DEF ProcessInv
  <2>3. CASE ~HasEventSources
    <3>1. PartsTyped' /\ Begun'
      BY <1>1, <2>1, <2>3 DEF ProcessInv, PartsTyped, Begun, Unlaunched
    <3>2. Stopped' /\ OnePort'
      BY <1>1, <2>1, <2>3 DEF ProcessInv, Stopped, Alive, OnePort, Owned
    <3> QED BY <1>1, <3>1, <3>2 DEF ProcessInv
  <2> QED BY <2>2, <2>3
<1> QED BY <1>3, <1>4

\* Worker.Start.
LEMMA PoolKeeps == ProcessInv /\ RunPool => ProcessInv'
<1> SUFFICES ASSUME ProcessInv, RunPool PROVE ProcessInv'
  OBVIOUS
<1>1. /\ InputTyped' /\ CfgTyped(cfg)'
      /\ Accepted' = Accepted /\ HasEventSources' = HasEventSources
      /\ \A t \in Servers : Port(t)' = Port(t)
      /\ UNCHANGED <<file, env, works, cfg, main, server, shut, router, signalled>>
  BY GivenStays DEF RunPool, given
<1>2. Alive /\ pool # "none" /\ pool' \in {"serving", "returned"}
  BY DEF RunPool
<1>3. PartsTyped' /\ Begun'
  BY <1>1, <1>2 DEF ProcessInv, PartsTyped, Begun, Unlaunched
<1>4. Stopped' /\ OnePort'
  BY <1>1, <1>2 DEF ProcessInv, Stopped, Alive, OnePort, Owned
<1> QED BY <1>1, <1>3, <1>4 DEF ProcessInv

LEMMA NextKeepsProcessInv == ProcessInv /\ [Next]_vars => ProcessInv'
<1>1. ASSUME ProcessInv, UNCHANGED vars PROVE ProcessInv'
  <2>1. /\ InputTyped' /\ CfgTyped(cfg)'
        /\ Accepted' = Accepted /\ HasEventSources' = HasEventSources
        /\ \A t \in Servers : Port(t)' = Port(t)
        /\ UNCHANGED <<file, env, works, cfg, main, server, shut, router, pool, signalled>>
    BY <1>1, GivenStays DEF vars, given, parts
  <2>2. PartsTyped' /\ Begun'
    BY <1>1, <2>1 DEF ProcessInv, PartsTyped, Begun, Unlaunched
  <2>3. Stopped' /\ OnePort'
    BY <1>1, <2>1 DEF ProcessInv, Stopped, AllReturned, Returned, OnePort, Owned
  <2> QED BY <2>1, <2>2, <2>3 DEF ProcessInv
<1>2. ASSUME ProcessInv, Next PROVE ProcessInv'
  BY <1>1, <1>2, LoadConfigKeeps, MainKeeps, LaunchKeeps, ShutdownServersKeeps,
     ServerKeeps, RouterKeeps, PoolKeeps DEF Next, MainStep, Terminated
<1> QED BY <1>1, <1>2

\* What holds of every reachable state of the process: what it runs with was
\* loaded and accepted, no server that was shut down serves, and a port has
\* one owner.
THEOREM ProcessInvariant == Spec => []ProcessInv
  BY InitProcessInv, NextKeepsProcessInv, PTL DEF Spec

-------------------------------------------------------------------------------
(* The properties.                                                         *)

\* Each part of the process has its type for any configuration and any ports
\* that are taken, and no two of its servers serve on one port.
THEOREM ProcessTypeCorrect == Spec => []TypeOK
<1>1. ProcessInv => TypeOK
  BY DEF ProcessInv, InputTyped, CfgTyped, PartsTyped, MainState, ServerState,
         OnePort, Owned, TypeOK
<1> QED BY <1>1, ProcessInvariant, PTL

\* Whatever file and environment set, junk included, a service that runs has
\* each field from the environment, or the file, or the defaults.
THEOREM RunsWithPrecedence == Spec => []LoadedByPrecedence
<1>1. ASSUME ProcessInv PROVE LoadedByPrecedence
  <2> SUFFICES ASSUME Launched PROVE LoadedByPrecedence
    BY DEF LoadedByPrecedence
  <2>1. Accepted /\ cfg = Loaded(file, env)
    BY <1>1 DEF Launched, ProcessInv, Begun
  <2>2. file \in Files /\ env \in Envs
    BY <1>1, <2>1 DEF Accepted, ProcessInv, InputTyped
  <2>3. \A f \in Numbers : cfg[f] \in Int
    BY <2>1, <2>2, LoadedNumbers
  <2>4. ASSUME NEW f \in Fields
        PROVE  \/ f \in DOMAIN env /\ cfg[f] = Read(f, env[f])
               \/ /\ f \notin DOMAIN env \/ (f \notin Texts /\ env[f] = Junk)
                  /\ \/ f \in DOMAIN file /\ cfg[f] = file[f]
                     \/ f \notin DOMAIN file /\ cfg[f] = Defaults[f]
    BY <2>1, <2>2, LoadedFields DEF Says
  <2> QED BY <2>3, <2>4 DEF LoadedByPrecedence
<1> QED BY <1>1, ProcessInvariant, PTL

\* A pool that serves has workers and a storage that exists, whatever the
\* configuration said: the assumption of WorkerPool is the service's promise.
THEOREM PoolHasWhatItNeeds == Spec => []PoolAssumptionHolds
<1>1. ASSUME ProcessInv, pool = "serving" PROVE cfg.jobs >= 1 /\ cfg.storage \in FactoryTypes
  <2>1. /\ Accepted /\ cfg = Loaded(file, env)
        /\ cfg.storage \in FactoryTypes
    BY <1>1 DEF ProcessInv, Begun
  <2>2. file \in Files /\ env \in Envs /\ Valid(Loaded(file, env))
    BY <1>1, <2>1 DEF Accepted, ProcessInv, InputTyped
  <2>3. Loaded(file, env).jobs >= 1
    BY <2>2, AcceptedPorts
  <2> QED BY <2>1, <2>3
<1>2. ProcessInv => PoolAssumptionHolds
  BY <1>1 DEF PoolAssumptionHolds, FactoryTypes
<1> QED BY <1>2, ProcessInvariant, PTL

\* However the signal, the servers' starts and the shutdowns interleave, a
\* process that has waited for everybody leaves nothing serving.
THEOREM ExitIsQuiet == Spec => []ExitLeavesNothingServing
<1>1. ASSUME ProcessInv, main = "exited"
      PROVE  /\ pool = "returned" /\ router = "returned"
             /\ \A s \in Servers : server[s] # "serving"
  <2>1. AllReturned
    BY <1>1 DEF ProcessInv, Stopped
  <2>2. server["hook"] # "serving"
    BY <1>1, <2>1 DEF ProcessInv, Stopped, AllReturned
  <2> QED BY <2>1, <2>2 DEF AllReturned, Returned, Servers
<1>2. ProcessInv => ExitLeavesNothingServing
  BY <1>1 DEF ExitLeavesNothingServing
<1> QED BY <1>2, ProcessInvariant, PTL

-------------------------------------------------------------------------------
(* The way down.  SignalEndsProcess and ServersComeUp need fairness; what  *)
(* they need besides is here.                                              *)

\* Nothing but a signal stops a part of the service: no failure of another
\* part does.
OnlyASignalStopsIt ==
    pool = "returned" \/ router = "returned" \/ (\E s \in Servers : server[s] = "closed") =>
        signalled /\ CtxDone

\* A server fails only for its port: another process has it, or another
\* server of the service is to have it as well.
FailedForItsPort ==
    /\ \A s \in Servers : server[s] = "failed" =>
          \/ Port(s) \in ForeignPorts
          \/ \E t \in Servers \ {s} : Port(t) = Port(s)
    /\ PortsApart => \A s \in Servers : server[s] # "failed"

\* Once a signal has come main is on its way, and where it waits for the
\* others each of them was begun and either has returned or can go on: both
\* servers were told to stop before.
AwaitedCanReturn ==
    /\ signalled => main \in {"running", "cancelled", "apiShut", "waiting", "exited"}
    /\ main = "waiting" =>
          /\ router # "none" /\ pool # "none"
          /\ \A s \in {"api", "health"} :
                s \in shut /\ server[s] \in {"starting", "bound", "failed", "closed"}

\* How far a part of the process has come.
MainRank(m) ==
    CASE m = "load" -> 0 [] m = "new" -> 1 [] m = "launch" -> 2 [] m = "notify" -> 3
      [] m = "running" -> 4 [] m = "cancelled" -> 5 [] m = "apiShut" -> 6
      [] m = "waiting" -> 7 [] m \in {"exited", "dead", "killed"} -> 8
ServerRank(s) ==
    CASE s = "none" -> 0 [] s = "starting" -> 1 [] s = "bound" -> 2 [] s = "serving" -> 3
      [] s \in {"failed", "closed"} -> 4
PartRank(p) ==
    CASE p = "none" -> 0 [] p = "starting" -> 1 [] p \in {"listening", "serving"} -> 2
      [] p = "returned" -> 3

\* No part goes back, and each step takes one further: there is no round the
\* process could go for ever, and a server that was up is never up again.
PartsGoForward ==
    [][/\ MainRank(main) <= MainRank(main')
       /\ \A s \in Servers : ServerRank(server[s]) <= ServerRank(server'[s])
       /\ PartRank(router) <= PartRank(router') /\ PartRank(pool) <= PartRank(pool')
       /\ signalled => signalled'
       /\ \/ MainRank(main) < MainRank(main')
          \/ \E s \in Servers : ServerRank(server[s]) < ServerRank(server'[s])
          \/ PartRank(router) < PartRank(router') \/ PartRank(pool) < PartRank(pool')
          \/ signalled' /\ ~signalled]_vars

\* In steps: what main has done by each of its stages.
DownInv ==
    /\ OnlyASignalStopsIt
    /\ \A s \in Servers : server[s] = "failed" =>
          \/ Port(s) \in ForeignPorts
          \/ \E t \in Servers \ {s} : Port(t) = Port(s)
    /\ signalled => main \in {"running", "cancelled", "apiShut", "waiting", "exited"}
    /\ CtxDone => signalled
    /\ shut # {} => CtxDone
    /\ main \in {"notify", "running", "cancelled", "apiShut", "waiting"} =>
          router # "none" /\ pool # "none" /\ server["api"] # "none" /\ server["health"] # "none"
    /\ main \in {"apiShut", "waiting"} => "api" \in shut
    /\ main = "waiting" => "health" \in shut

\* main's own steps.
LEMMA MainKeepsDown ==
  ASSUME ProcessInv, DownInv, MainStep \/ Signal
  PROVE  DownInv'
<1>0. PartsTyped /\ "api" \in Servers /\ "health" \in Servers
  BY DEF ProcessInv, Servers
<1>1. CASE LoadConfig
  <2>1. \A s \in Servers : server'[s] = "none"
    BY <1>1 DEF LoadConfig, parts, ProcessInv, Begun, Unlaunched
  <2>2. /\ UNCHANGED <<shut, router, pool, signalled>>
        /\ main = "load" /\ main' \in {"new", "dead"}
    BY <1>1 DEF LoadConfig, parts
  <2> QED BY <2>1, <2>2 DEF DownInv, OnlyASignalStopsIt, CtxDone
<1>2. CASE Launch
  <2>1. UNCHANGED <<cfg, shut, signalled>> /\ main = "launch" /\ main' = "notify"
        /\ router' = "starting" /\ pool' = "starting"
    BY <1>2 DEF Launch, given
  <2>2. \A s \in Servers : server'[s] \in {"none", "starting"}
    BY <1>2 DEF Launch, ProcessInv, PartsTyped, Begun, Unlaunched
  <2>3. server'["api"] = "starting" /\ server'["health"] = "starting"
    BY <1>0, <1>2 DEF Launch, PartsTyped
  <2> QED BY <2>1, <2>2, <2>3 DEF DownInv, OnlyASignalStopsIt, CtxDone
<1>3. ASSUME UNCHANGED <<cfg, server, shut, router, pool>>, signalled => signalled',
             CtxDone => CtxDone', CtxDone' => signalled',
             \/ main' \in {"launch", "dead", "killed", "exited"}
             \/ main' \in {"running", "cancelled"} /\ main \in {"notify", "running"}
             \/ main' = main,
             signalled' => main' \in {"running", "cancelled", "apiShut", "waiting", "exited"}
      PROVE  DownInv'
  BY <1>3 DEF DownInv, OnlyASignalStopsIt, Port
<1>4. CASE NewWorker \/ Notify \/ Cancel \/ Exit
  <2>1. /\ UNCHANGED <<cfg, server, shut, router, pool, signalled>>
        /\ \/ main = "new" /\ main' \in {"launch", "dead"}
           \/ main = "notify" /\ main' = "running"
           \/ main = "running" /\ main' = "cancelled" /\ signalled
           \/ main = "waiting" /\ main' = "exited"
    BY <1>4 DEF NewWorker, Notify, Cancel, Exit, given, parts
  <2>2. (CtxDone => CtxDone') /\ (CtxDone' => signalled')
    BY <2>1 DEF DownInv, CtxDone
  <2>3. signalled' => main' \in {"running", "cancelled", "apiShut", "waiting", "exited"}
    BY <2>1 DEF DownInv
  <2> QED BY <1>3, <2>1, <2>2, <2>3
<1>5. CASE Signal
  <2>1. /\ UNCHANGED <<cfg, server, shut, router, pool>> /\ ~signalled
        /\ \/ main \in {"load", "new", "launch", "notify"} /\ main' = "killed" /\ ~signalled'
           \/ /\ main \in {"running", "cancelled", "apiShut", "waiting", "exited"} /\ main' = main
              /\ signalled'
    BY <1>0, <1>5 DEF Signal, Alive, given, parts, PartsTyped, MainState
  <2>2. (CtxDone => CtxDone') /\ (CtxDone' => signalled')
    BY <2>1 DEF CtxDone
  <2> QED BY <1>3, <2>1, <2>2
<1>6. CASE ShutdownServers
  <2>1. PICK s \in {"api", "health"} :
           /\ Shutdown(s) /\ UNCHANGED <<cfg, router, pool, signalled>>
           /\ \/ s = "api" /\ main = "cancelled" /\ main' = "apiShut"
              \/ s = "health" /\ main = "apiShut" /\ main' = "waiting"
    BY <1>6 DEF ShutdownServers, SecondServer, given
  <2>2. /\ \A t \in Servers : server'[t] = server[t] \/ (server[t] # "none" /\ server'[t] = "closed")
        /\ shut' = shut \cup {s}
    BY <1>0, <2>1 DEF Shutdown, PartsTyped
  <2>3. CtxDone /\ CtxDone' /\ signalled'
    BY <2>1 DEF CtxDone, DownInv
  <2>4. /\ \A t \in Servers : server'[t] = "failed" => server[t] = "failed"
        /\ server'["api"] # "none" /\ server'["health"] # "none"
    BY <1>0, <2>1, <2>2 DEF DownInv
  <2>5. \A t \in Servers : Port(t)' = Port(t)
    BY <2>1 DEF Port
  <2>6. \A t \in Servers : server'[t] = "failed" =>
           \/ Port(t)' \in ForeignPorts
           \/ \E u \in Servers \ {t} : Port(u)' = Port(t)'
    BY <2>4, <2>5 DEF DownInv
  <2> QED BY <2>1, <2>2, <2>3, <2>4, <2>6 DEF DownInv, OnlyASignalStopsIt
<1> QED BY <1>1, <1>2, <1>4, <1>5, <1>6 DEF MainStep

\* The steps of the others.
LEMMA OthersKeepDown ==
  ASSUME ProcessInv, DownInv,
         (\E s \in Servers : Bind(s) \/ Serve(s)) \/ StartRouter \/ StopRouter \/ RunPool
  PROVE  DownInv'
<1>0. /\ PartsTyped /\ "api" \in Servers /\ "health" \in Servers /\ "hook" \in Servers
      /\ "hook" \notin {"api", "health"}
  BY DEF ProcessInv, Servers
<1>1. UNCHANGED <<cfg, main, signalled>> /\ CtxDone' = CtxDone
  BY DEF Bind, Serve, StartRouter, StopRouter, RunPool, given, CtxDone
<1>2. \A s \in Servers : Port(s)' = Port(s)
  BY <1>1 DEF Port
<1>3. ASSUME \A s \in Servers :
                /\ server'[s] = "failed" =>
                      \/ server[s] = "failed" \/ Port(s) \in ForeignPorts
                      \/ \E t \in Servers \ {s} : Port(t) = Port(s)
                /\ server'[s] = "closed" => server[s] = "closed" \/ CtxDone
                /\ server'[s] = "none" => server[s] = "none",
             shut \subseteq shut', shut' # {} => shut # {} \/ CtxDone,
             router # "none" => router' # "none", pool # "none" => pool' # "none",
             router' = "returned" => router = "returned" \/ CtxDone,
             pool' = "returned" => pool = "returned" \/ CtxDone
      PROVE  DownInv'
  <2>1. \A s \in Servers : server'[s] = "failed" =>
           \/ Port(s)' \in ForeignPorts
           \/ \E t \in Servers \ {s} : Port(t)' = Port(s)'
    BY <1>2, <1>3 DEF DownInv
  <2>2. OnlyASignalStopsIt'
    BY <1>1, <1>3 DEF DownInv, OnlyASignalStopsIt
  <2> QED BY <1>0, <1>1, <1>3, <2>1, <2>2 DEF DownInv
<1>4. ASSUME NEW s \in Servers, Bind(s) \/ Serve(s) PROVE DownInv'
  <2>1. /\ UNCHANGED <<shut, router, pool>>
        /\ \A t \in Servers \ {s} : server'[t] = server[t]
        /\ server'[s] \in {"bound", "failed", "closed", "serving"}
        /\ server'[s] = "failed" => Taken(s)
        /\ server'[s] = "closed" => s \in shut
    BY <1>0, <1>4 DEF Bind, Serve, Become, PartsTyped
  <2>2. s \in shut => CtxDone
    BY DEF DownInv
  <2> QED BY <1>3, <2>1, <2>2 DEF Taken
<1>5. CASE StartRouter
  <2>1. /\ UNCHANGED <<shut, pool>> /\ router' = "listening"
        /\ \A s \in Servers : server'[s] = server[s] \/ server'[s] = "starting"
    BY <1>0, <1>5 DEF StartRouter, Become, PartsTyped
  <2> QED BY <1>3, <2>1
<1>6. CASE StopRouter
  <2>1. /\ UNCHANGED pool /\ router' = "returned" /\ CtxDone /\ shut \subseteq shut'
        /\ \A s \in Servers : server'[s] = server[s] \/ server'[s] = "closed"
    BY <1>0, <1>6 DEF StopRouter, Shutdown, PartsTyped
  <2> QED BY <1>3, <2>1
<1>7. CASE RunPool
  <2>1. /\ UNCHANGED <<server, shut, router>> /\ pool' # "none"
        /\ pool' = "returned" => CtxDone
    BY <1>7 DEF RunPool
  <2> QED BY <1>3, <2>1
<1> QED BY <1>4, <1>5, <1>6, <1>7

LEMMA DownInvariant == Spec => [](ProcessInv /\ DownInv)
<1>1. Init => DownInv
  BY DEF Init, DownInv, OnlyASignalStopsIt, CtxDone
<1>2. ASSUME ProcessInv, DownInv, UNCHANGED vars PROVE DownInv'
  BY <1>2 DEF vars, given, parts, DownInv, OnlyASignalStopsIt, CtxDone, Port
<1>3. ProcessInv /\ DownInv /\ [Next]_vars => DownInv'
  BY <1>2, MainKeepsDown, OthersKeepDown DEF Next, Terminated
<1> QED BY <1>1, <1>3, ProcessInvariant, PTL DEF Spec

\* Whatever fails, the service goes on until a signal stops it.
THEOREM OnlySignalsStopIt == Spec => []OnlyASignalStopsIt
<1>1. DownInv => OnlyASignalStopsIt
  BY DEF DownInv
<1> QED BY <1>1, DownInvariant, PTL

\* A server that has a port of its own never fails, however the three of
\* them come up.
THEOREM ServersFailForTheirPorts == Spec => []FailedForItsPort
<1>1. ASSUME DownInv, PortsApart, NEW s \in Servers PROVE server[s] # "failed"
  <2> DEFINE ports == <<cfg.port, cfg.health, 8082>>
             at(t) == IF t = "api" THEN 1 ELSE IF t = "health" THEN 2 ELSE 3
  <2>1. \A t \in Servers : at(t) \in DOMAIN ports /\ Port(t) = ports[at(t)]
    BY DEF Port, Servers
  <2>2. \A t, u \in Servers : at(t) = at(u) => t = u
    BY DEF Servers
  <2>3. /\ \A i, k \in DOMAIN ports : ports[i] = ports[k] => i = k
        /\ \A i \in DOMAIN ports : ports[i] \notin ForeignPorts
    BY <1>1 DEF PortsApart
  <2> HIDE DEF ports, at
  <2>4. Port(s) \notin ForeignPorts /\ \A t \in Servers \ {s} : Port(t) # Port(s)
    BY <2>1, <2>2, <2>3
  <2> QED BY <1>1, <2>4 DEF DownInv
<1>2. DownInv => FailedForItsPort
  BY <1>1 DEF DownInv, FailedForItsPort
<1> QED BY <1>2, DownInvariant, PTL

\* main never waits for a part that was not begun or was not told to stop,
\* and a signal that has come is never lost.
THEOREM NobodyIsAwaitedInVain == Spec => []AwaitedCanReturn
<1>1. ASSUME ProcessInv, DownInv, main = "waiting", NEW s \in {"api", "health"}
      PROVE  s \in shut /\ server[s] \in {"starting", "bound", "failed", "closed"}
  <2>1. s \in Servers /\ s \in shut /\ server[s] # "none"
    BY <1>1 DEF DownInv, Servers
  <2> QED BY <1>1, <2>1 DEF ProcessInv, PartsTyped, ServerState, Stopped
<1>2. ProcessInv /\ DownInv => AwaitedCanReturn
  BY <1>1 DEF DownInv, AwaitedCanReturn
<1> QED BY <1>2, DownInvariant, PTL

PartState == {"none", "starting", "listening", "serving", "returned"}

\* The ranks are numbers, and these are the steps they order.
LEMMA RanksTyped ==
  /\ \A m \in MainState : MainRank(m) \in 0..8
  /\ \A s \in ServerState : ServerRank(s) \in 0..4
  /\ \A p \in PartState : PartRank(p) \in 0..3
BY DEF MainState, ServerState, PartState, MainRank, ServerRank, PartRank

LEMMA RanksOrdered ==
  /\ \A m \in MainState : MainRank(m) <= MainRank(m)
  /\ \A s \in ServerState : ServerRank(s) <= ServerRank(s)
  /\ \A p \in PartState : PartRank(p) <= PartRank(p)
  /\ \A m, n \in MainState : MainRank(m) < MainRank(n) => MainRank(m) <= MainRank(n)
  /\ \A s, t \in ServerState : ServerRank(s) < ServerRank(t) => ServerRank(s) <= ServerRank(t)
  /\ \A p, q \in PartState : PartRank(p) < PartRank(q) => PartRank(p) <= PartRank(q)
<1>1. \A a, b \in Int : a <= a /\ (a < b => a <= b)
  OBVIOUS
<1>2. /\ \A m \in MainState : MainRank(m) \in Int
      /\ \A s \in ServerState : ServerRank(s) \in Int
      /\ \A p \in PartState : PartRank(p) \in Int
  BY RanksTyped
<1> QED BY <1>1, <1>2, Zenon

LEMMA ServerRanks ==
  /\ ServerRank("none") < ServerRank("starting")
  /\ \A s \in {"bound", "failed", "closed"} : ServerRank("starting") < ServerRank(s)
  /\ \A s \in {"serving", "closed"} : ServerRank("bound") < ServerRank(s)
  /\ ServerRank("serving") < ServerRank("closed")
BY DEF ServerRank

\* A server's way, step by step.
ServerGoes(s) ==
    \/ server'[s] = server[s]
    \/ server[s] = "none" /\ server'[s] = "starting"
    \/ server[s] = "starting" /\ server'[s] \in {"bound", "failed", "closed"}
    \/ server[s] = "bound" /\ server'[s] \in {"serving", "closed"}
    \/ server[s] = "serving" /\ server'[s] = "closed"

LEMMA ServersRise ==
  ASSUME PartsTyped, NEW s \in Servers, ServerGoes(s)
  PROVE  /\ ServerRank(server[s]) <= ServerRank(server'[s])
         /\ server'[s] # server[s] => ServerRank(server[s]) < ServerRank(server'[s])
<1>1. server[s] \in ServerState
  BY DEF PartsTyped
<1>2. server'[s] \in ServerState
  BY <1>1 DEF ServerGoes, ServerState
<1>3. CASE server'[s] = server[s]
  BY <1>1, <1>3, RanksOrdered
<1>4. CASE server'[s] # server[s]
  <2>1. ServerRank(server[s]) < ServerRank(server'[s])
    BY <1>4, ServerRanks DEF ServerGoes
  <2> QED BY <1>1, <1>2, <2>1, RanksOrdered
<1> QED BY <1>3, <1>4

\* The process as a whole only goes forward.
THEOREM ProcessGoesForward == Spec => PartsGoForward
<1> DEFINE MainKept    == MainRank(main) <= MainRank(main')
           ServersKept == \A s \in Servers : ServerRank(server[s]) <= ServerRank(server'[s])
           PartsKept   == PartRank(router) <= PartRank(router') /\ PartRank(pool) <= PartRank(pool')
           Further == \/ MainRank(main) < MainRank(main')
                      \/ \E s \in Servers : ServerRank(server[s]) < ServerRank(server'[s])
                      \/ PartRank(router) < PartRank(router') \/ PartRank(pool) < PartRank(pool')
                      \/ signalled' /\ ~signalled
           Kept == /\ MainRank(main) <= MainRank(main')
                   /\ \A s \in Servers : ServerRank(server[s]) <= ServerRank(server'[s])
                   /\ PartRank(router) <= PartRank(router') /\ PartRank(pool) <= PartRank(pool')
                   /\ signalled => signalled'
                   /\ \/ MainRank(main) < MainRank(main')
                      \/ \E s \in Servers : ServerRank(server[s]) < ServerRank(server'[s])
                      \/ PartRank(router) < PartRank(router') \/ PartRank(pool) < PartRank(pool')
                      \/ signalled' /\ ~signalled
<1>1. ASSUME ProcessInv
      PROVE  /\ PartsTyped /\ Stopped /\ main \in MainState
             /\ router \in PartState /\ pool \in PartState
  BY <1>1 DEF ProcessInv, PartsTyped, PartState
<1>2. ASSUME ProcessInv, NEW m \in MainState, main' = m, MainRank(main) < MainRank(m)
      PROVE  MainKept /\ Further
  BY <1>1, <1>2, RanksOrdered
<1>3. ASSUME ProcessInv, main' = main PROVE MainKept
  BY <1>1, <1>3, RanksOrdered
<1>4. ASSUME ProcessInv, \A s \in Servers : ServerGoes(s)
      PROVE  /\ ServersKept
             /\ (\E s \in Servers : server'[s] # server[s]) => Further
  BY <1>1, <1>4, ServersRise
<1>5. ASSUME ProcessInv, UNCHANGED <<router, pool>> PROVE PartsKept
  BY <1>1, <1>5, RanksOrdered
<1>6. ASSUME ProcessInv, UNCHANGED server PROVE ServersKept
  BY <1>4, <1>6 DEF ServerGoes
<1>7. ASSUME ProcessInv, MainStep \/ Signal
      PROVE  MainKept /\ ServersKept /\ PartsKept /\ (signalled => signalled') /\ Further
  <2>1. CASE LoadConfig \/ NewWorker \/ Notify \/ Cancel \/ Exit
    <3>1. UNCHANGED <<server, router, pool, signalled>>
      BY <2>1 DEF LoadConfig, NewWorker, Notify, Cancel, Exit, parts
    <3>2. main' \in MainState /\ MainRank(main) < MainRank(main')
      BY <2>1 DEF LoadConfig, NewWorker, Notify, Cancel, Exit, MainRank, MainState
    <3> QED BY <1>2, <1>5, <1>6, <1>7, <3>1, <3>2
  <2>2. CASE Signal
    <3>1. UNCHANGED <<server, router, pool>> /\ ~signalled
      BY <2>2 DEF Signal, parts
    <3>2. \/ main' = main /\ signalled'
          \/ main' \in MainState /\ MainRank(main) < MainRank(main')
      BY <2>2 DEF Signal, MainRank, MainState
    <3> QED BY <1>2, <1>3, <1>5, <1>6, <1>7, <3>1, <3>2
  <2>3. CASE Launch
    <3>1. /\ main = "launch" /\ main' = "notify" /\ signalled' = signalled
          /\ router' = "starting" /\ pool' = "starting"
      BY <2>3 DEF Launch
    <3>2. router = "none" /\ pool = "none" /\ \A s \in Servers : server[s] = "none"
      BY <1>7, <3>1 DEF ProcessInv, Begun, Unlaunched
    <3>3. \A s \in Servers : ServerGoes(s)
      BY <1>1, <1>7, <2>3, <3>2 DEF Launch, PartsTyped, ServerGoes
    <3>4. "notify" \in MainState /\ MainRank("launch") < MainRank("notify")
      BY DEF MainState, MainRank
    <3>5. PartRank("none") <= PartRank("starting")
      BY DEF PartRank
    <3> QED BY <1>2, <1>4, <1>7, <3>1, <3>2, <3>3, <3>4, <3>5
  <2>4. CASE ShutdownServers
    <3>1. UNCHANGED <<router, pool, signalled>>
      BY <2>4 DEF ShutdownServers
    <3>2. main' \in MainState /\ MainRank(main) < MainRank(main')
      BY <2>4 DEF ShutdownServers, MainRank, MainState
    <3>3. \A s \in Servers : ServerGoes(s)
      BY <1>1, <1>7, <2>4 DEF ShutdownServers, Shutdown, PartsTyped, ServerGoes
    <3> QED BY <1>2, <1>4, <1>5, <1>7, <3>1, <3>2, <3>3
  <2> QED BY <1>7, <2>1, <2>2, <2>3, <2>4 DEF MainStep
<1>8. ASSUME ProcessInv, NEW s \in Servers, Bind(s) \/ Serve(s)
      PROVE  MainKept /\ ServersKept /\ PartsKept /\ (signalled => signalled') /\ Further
  <2>1. UNCHANGED <<main, router, pool, signalled>>
    BY <1>8 DEF Bind, Serve
  <2>2. server'[s] # server[s] /\ \A t \in Servers : ServerGoes(t)
    BY <1>1, <1>8 DEF Bind, Serve, Become, PartsTyped, ServerGoes
  <2> QED BY <1>3, <1>4, <1>5, <1>8, <2>1, <2>2
<1>9. ASSUME ProcessInv, StartRouter \/ StopRouter \/ RunPool
      PROVE  MainKept /\ ServersKept /\ PartsKept /\ (signalled => signalled') /\ Further
  <2>1. UNCHANGED <<main, signalled>>
    BY <1>9 DEF StartRouter, StopRouter, RunPool
  <2>2. \A s \in Servers : ServerGoes(s)
    BY <1>1, <1>9 DEF StartRouter, StopRouter, RunPool, Become, Shutdown, PartsTyped, Stopped,
       ServerGoes, Servers
  <2>3. /\ router' \in PartState /\ pool' \in PartState
        /\ \/ router' = router /\ PartRank(pool) < PartRank(pool')
           \/ pool' = pool /\ PartRank(router) < PartRank(router')
    BY <1>1, <1>9 DEF StartRouter, StopRouter, RunPool, PartRank, PartState
  <2>4. PartsKept /\ Further
    BY <1>1, <1>9, <2>3, RanksOrdered
  <2> QED BY <1>3, <1>4, <1>9, <2>1, <2>2, <2>4
<1>10. ASSUME ProcessInv, Next, ~UNCHANGED vars PROVE Kept
  BY <1>7, <1>8, <1>9, <1>10 DEF Next, Terminated
<1> HIDE DEF Kept
<1>11. ProcessInv /\ [Next]_vars => [Kept]_vars
  BY <1>10
<1>12. Spec => [][Kept]_vars
  BY <1>11, ProcessInvariant, PTL DEF Spec
<1> QED BY <1>12 DEF Kept, PartsGoForward
===============================================================================
