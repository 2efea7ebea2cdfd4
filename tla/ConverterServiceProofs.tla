------------------------- MODULE ConverterServiceProofs -------------------------
(***************************************************************************)
(* Proofs about ConverterService, for any batches, any number of           *)
(* deliveries and crashes, and any size of the queue and the pool.         *)
(***************************************************************************)
EXTENDS ConverterService, SequenceTheorems, FiniteSetTheorems, TLAPS

-------------------------------------------------------------------------------
(* Deliveries and their jobs.                                              *)

\* A delivery is of a batch, whose events have kinds and are counted.
LEMMA EventsTyped ==
  ASSUME NEW d \in Deliveries
  PROVE  /\ Events(d) \in Seq(Kind)
         /\ Len(Events(d)) \in Nat
         /\ DOMAIN Events(d) = 1 .. Len(Events(d))
<1>1. PICK b \in DOMAIN Batches : d \in {b} \X (1 .. MaxDeliveries[b])
  BY DEF Deliveries
<1>2. d[1] = b
  BY <1>1
<1>3. Events(d) \in Seq(Kind)
  BY <1>2, ServiceAssumption DEF Events
<1> QED BY <1>3, LenProperties

\* Every event of a delivery has a job, and no two share one.
LEMMA JobsApart ==
  ASSUME NEW c \in Deliveries, NEW d \in Deliveries, NEW i \in DOMAIN Events(c),
         NEW k \in DOMAIN Events(d)
  PROVE  JobOf(c, i) \in Jobs /\ (JobOf(c, i) = JobOf(d, k) => c = d /\ i = k)
  BY DEF JobOf, Jobs

-------------------------------------------------------------------------------
(* The inductive invariant.                                                *)

\* The parts of the process come and go together.
PartsAgree ==
    /\ main = "down" <=> pool = "down"
    /\ open = (pool \in {"starting", "serving"})
    /\ pool \in {"closed", "returned"} => CtxDone
    /\ pool = "returned" => Ledger!Running = {}
    /\ main = "exited" => pool = "returned"

\* A handler has gone past an event only if it decided it, and past no
\* validation.
Past(d) == \A i \in DOMAIN Events(d) : i < at[d] =>
               /\ Events(d)[i] # "validation"
               /\ Events(d)[i] = "video" => phase[JobOf(d, i)] # "unseen"

Decided(d) == \A i \in DOMAIN Events(d) :
                  Events(d)[i] = "video" /\ (\A v \in Validations(d) : i < v)
                      => phase[JobOf(d, i)] # "unseen"

HandlerOK(d) ==
    /\ request[d] \in {"unsent", "reading"} => at[d] = 1
    /\ request[d] = "handling" => Past(d)
    /\ request[d] = "answered" => Decided(d)

ServiceInv == TypeOK /\ PartsAgree /\ \A d \in Deliveries : HandlerOK(d)

LEMMA InitServiceInv == Init => ServiceInv
<1> SUFFICES ASSUME Init PROVE ServiceInv
  OBVIOUS
<1>1. TypeOK
  <2>1. \A d \in Deliveries : 1 <= Len(Events(d)) + 1
    BY EventsTyped
  <2>2. MaxCrashes \in Nat
    BY ServiceAssumption
  <2>3. \A d \in Deliveries : at[d] = 1
    BY DEF Init
  <2>4. open = (pool \in {"starting", "serving"})
    BY DEF Init, Ledger!Init
  <2>5. phase \in [Jobs -> Ledger!Phase \cup {"lost"}]
    BY DEF Init, Ledger!Init, Ledger!Phase
  <2>6. at \in [Deliveries -> Nat \ {0}]
    BY DEF Init
  <2> QED BY <2>1, <2>2, <2>3, <2>4, <2>5, <2>6 DEF Init, TypeOK
<1>2. PartsAgree
  BY DEF Init, PartsAgree, CtxDone, Ledger!Init
<1>3. \A d \in Deliveries : HandlerOK(d)
  BY EventsTyped DEF Init, HandlerOK
<1> QED BY <1>1, <1>2, <1>3 DEF ServiceInv

\* A job moves to another phase, and none becomes unseen.
LEMMA JobMoves ==
  ASSUME TypeOK, NEW j \in Jobs, NEW from, NEW to \in Ledger!Phase \ {"unseen"},
         Ledger!Move(j, from, to)
  PROVE  /\ phase' \in [Jobs -> Ledger!Phase \cup {"lost"}]
         /\ phase'[j] = to
         /\ \A k \in Jobs : k # j => phase'[k] = phase[k]
         /\ \A k \in Jobs : phase[k] # "unseen" => phase'[k] # "unseen"
  BY DEF TypeOK, Ledger!Move

\* What a handler has decided stays decided.
LEMMA DecidedStays ==
  ASSUME NEW d \in Deliveries, request[d]' = request[d], at[d]' = at[d], HandlerOK(d),
         \A k \in Jobs : phase[k] # "unseen" => phase'[k] # "unseen"
  PROVE  HandlerOK(d)'
<1>1. \A i \in DOMAIN Events(d) : JobOf(d, i) \in Jobs
  BY JobsApart
<1>2. Past(d) /\ at[d]' = at[d] => Past(d)'
  BY <1>1 DEF Past, Events, JobOf
<1>3. Decided(d) => Decided(d)'
  BY <1>1 DEF Decided, Events, JobOf, Validations
<1> QED BY <1>2, <1>3 DEF HandlerOK

-------------------------------------------------------------------------------
(* Each step keeps it.                                                     *)

\* The steps of main, the router and the pool that touch no request and no job.
LEMMA PartsKeep ==
  ServiceInv /\ (Signal \/ MainStep \/ RouterStep \/ StartPool \/ PoolReturns)
    => ServiceInv'
<1> SUFFICES ASSUME ServiceInv, Signal \/ MainStep \/ RouterStep \/ StartPool \/ PoolReturns
             PROVE  ServiceInv'
  OBVIOUS
<1>1. UNCHANGED <<crashes, request, at, phase, line, safe, open>>
  BY DEF Signal, MainStep, StopServers, Exit, RouterStep, StartRouter, StopListening,
         RouterReturns, StartPool, PoolReturns, reqVars, jobVars
<1>2. TypeOK'
  BY <1>1 DEF Signal, MainStep, StopServers, Exit, RouterStep, StartRouter, StopListening,
         RouterReturns, StartPool, PoolReturns, ServiceInv, TypeOK, PartsAgree
<1>3. Ledger!Running' = Ledger!Running
  BY <1>1 DEF Ledger!Running
<1>4. PartsAgree'
  BY <1>1, <1>3 DEF Signal, MainStep, StopServers, Exit, AllReturned, RouterStep, StartRouter,
         StopListening, RouterReturns, StartPool, PoolReturns, ServiceInv, TypeOK, PartsAgree,
         CtxDone, Alive
<1>5. \A d \in Deliveries : HandlerOK(d)'
  BY <1>1, DecidedStays DEF ServiceInv
<1> QED BY <1>2, <1>4, <1>5 DEF ServiceInv

\* A handler takes its request from one state to another, decides its event if
\* it submits one, and leaves the other handlers alone.
LEMMA HandlerMoves ==
  ASSUME ServiceInv, NEW d \in Deliveries,
         UNCHANGED <<crashes, main, router, pool>>, open' = open,
         phase' \in [Jobs -> Ledger!Phase \cup {"lost"}],
         \A k \in Jobs : phase[k] # "unseen" => phase'[k] # "unseen",
         \A k \in Jobs : phase'[k] = "running" => phase[k] = "running",
         request' = [request EXCEPT ![d] = request'[d]],
         request'[d] \in {"unsent", "reading", "rejected", "handling", "answered", "aborted"},
         at' = [at EXCEPT ![d] = at'[d]],
         at'[d] \in Nat \ {0}, at'[d] <= Len(Events(d)) + 1,
         HandlerOK(d)'
  PROVE  ServiceInv'
<1>1. TypeOK'
  <2>1. \A e \in Deliveries : at'[e] <= Len(Events(e)) + 1
    BY DEF ServiceInv, TypeOK
  <2>2. at' \in [Deliveries -> Nat \ {0}]
    BY DEF ServiceInv, TypeOK
  <2>3. request' \in [Deliveries -> {"unsent", "reading", "rejected", "handling",
                                    "answered", "aborted", "cut"}]
    BY DEF ServiceInv, TypeOK
  <2> QED BY <2>1, <2>2, <2>3 DEF ServiceInv, TypeOK, Events
<1>2. PartsAgree'
  <2>1. Ledger!Running = {} => Ledger!Running' = {}
    BY DEF Ledger!Running
  <2> QED BY <2>1 DEF ServiceInv, PartsAgree, CtxDone
<1>3. ASSUME NEW e \in Deliveries PROVE HandlerOK(e)'
  <2>1. CASE e = d
    BY <2>1
  <2>2. CASE e # d
    <3>1. request'[e] = request[e] /\ at'[e] = at[e]
      BY <2>2 DEF ServiceInv, TypeOK
    <3> QED BY <3>1, DecidedStays DEF ServiceInv
  <2> QED BY <2>1, <2>2
<1> QED BY <1>1, <1>2, <1>3 DEF ServiceInv

\* A request arrives, and its body.
LEMMA DeliverKeeps ==
  ASSUME NEW d \in Deliveries PROVE ServiceInv /\ (Deliver(d) \/ Decode(d)) => ServiceInv'
<1> SUFFICES ASSUME ServiceInv, Deliver(d) \/ Decode(d) PROVE ServiceInv'
  OBVIOUS
<1>1. /\ UNCHANGED <<crashes, main, router, pool, at, phase, line, safe, open>>
      /\ request[d] \in {"unsent", "reading"}
      /\ request' = [request EXCEPT ![d] = request'[d]]
      /\ request'[d] \in {"reading", "handling", "rejected"}
  BY DEF Deliver, Decode, jobVars, ServiceInv, TypeOK
<1>2. at[d] = 1 /\ at' = [at EXCEPT ![d] = at'[d]]
  BY <1>1 DEF ServiceInv, TypeOK, HandlerOK
<1>3. HandlerOK(d)'
  <2>1. \A i \in DOMAIN Events(d) : ~(i < 1)
    BY EventsTyped
  <2>2. Past(d)'
    BY <1>1, <1>2, <2>1 DEF Past, Events
  <2> QED BY <1>1, <1>2, <2>2 DEF HandlerOK
<1>4. phase' \in [Jobs -> Ledger!Phase \cup {"lost"}] /\ 1 <= Len(Events(d)) + 1
  BY <1>1, EventsTyped DEF ServiceInv, TypeOK
<1> QED BY <1>1, <1>2, <1>3, <1>4, HandlerMoves

\* A handler that has decided an event goes on to the next.
LEMMA PastNext ==
  ASSUME ServiceInv, NEW d \in Deliveries, request[d] = "handling",
         at[d] \in DOMAIN Events(d), Events(d)[at[d]] # "validation",
         Events(d)[at[d]] = "video" => phase'[JobOf(d, at[d])] # "unseen",
         NextEvent(d),
         \A k \in Jobs : phase[k] # "unseen" => phase'[k] # "unseen"
  PROVE  /\ request'[d] = "handling" /\ request' = [request EXCEPT ![d] = request'[d]]
         /\ at' = [at EXCEPT ![d] = at'[d]]
         /\ at'[d] \in Nat \ {0} /\ at'[d] <= Len(Events(d)) + 1
         /\ HandlerOK(d)'
<1>1. /\ at[d] \in 1 .. Len(Events(d)) /\ Len(Events(d)) \in Nat
      /\ DOMAIN Events(d) = 1 .. Len(Events(d))
  BY EventsTyped
<1>2. /\ at'[d] = at[d] + 1 /\ at' = [at EXCEPT ![d] = at'[d]]
      /\ request'[d] = "handling" /\ request' = [request EXCEPT ![d] = request'[d]]
  BY DEF NextEvent, ServiceInv, TypeOK
<1>3. Past(d)
  BY DEF ServiceInv, HandlerOK
<1>4. ASSUME NEW i \in DOMAIN Events(d), i < at'[d]
      PROVE  /\ Events(d)[i] # "validation"
             /\ Events(d)[i] = "video" => phase'[JobOf(d, i)] # "unseen"
  <2>1. i < at[d] \/ i = at[d]
    BY <1>1, <1>2, <1>4
  <2>2. JobOf(d, i) \in Jobs
    BY JobsApart
  <2> QED BY <1>3, <2>1, <2>2 DEF Past
<1>5. Past(d)'
  BY <1>4 DEF Past, Events, JobOf
<1> QED BY <1>1, <1>2, <1>5 DEF HandlerOK

\* An answer is given past the last event, or at a validation.
LEMMA AnswerDecides ==
  ASSUME ServiceInv, NEW d \in Deliveries, request[d] = "handling", Answer(d),
         at[d] > Len(Events(d)) \/ Events(d)[at[d]] = "validation",
         phase' = phase
  PROVE  /\ request'[d] = "answered" /\ request' = [request EXCEPT ![d] = request'[d]]
         /\ at' = [at EXCEPT ![d] = at'[d]] /\ at'[d] = at[d]
         /\ HandlerOK(d)'
<1>1. /\ at[d] \in Nat \ {0} /\ Len(Events(d)) \in Nat
      /\ DOMAIN Events(d) = 1 .. Len(Events(d))
  BY EventsTyped DEF ServiceInv, TypeOK
<1>2. /\ request'[d] = "answered" /\ request' = [request EXCEPT ![d] = request'[d]]
      /\ at' = [at EXCEPT ![d] = at'[d]] /\ at'[d] = at[d]
  BY DEF Answer, ServiceInv, TypeOK
<1>3. Past(d)
  BY DEF ServiceInv, HandlerOK
<1>4. ASSUME NEW i \in DOMAIN Events(d), Events(d)[i] = "video",
             \A v \in Validations(d) : i < v
      PROVE  phase[JobOf(d, i)] # "unseen"
  <2>1. CASE at[d] > Len(Events(d))
    BY <1>1, <1>3, <1>4, <2>1 DEF Past
  <2>2. CASE at[d] <= Len(Events(d)) /\ Events(d)[at[d]] = "validation"
    <3>1. at[d] \in Validations(d)
      BY <1>1, <2>2 DEF Validations
    <3> QED BY <1>3, <1>4, <3>1 DEF Past
  <2> QED BY <1>1, <2>1, <2>2
<1>5. Decided(d)'
  BY <1>4 DEF Decided, Events, JobOf, Validations
<1> QED BY <1>2, <1>5 DEF HandlerOK

\* The handler's loop.
LEMMA HandlerKeeps ==
  ASSUME NEW d \in Deliveries PROVE ServiceInv /\ Handler(d) => ServiceInv'
<1> SUFFICES ASSUME ServiceInv, Handler(d) PROVE ServiceInv'
  OBVIOUS
<1>1. phase \in [Jobs -> Ledger!Phase \cup {"lost"}] /\ at[d] \in Nat \ {0}
      /\ at[d] <= Len(Events(d)) + 1
  BY DEF ServiceInv, TypeOK
<1>2. CASE SkipEvent(d)
  <2>1. /\ request[d] = "handling" /\ at[d] \in DOMAIN Events(d)
        /\ Events(d)[at[d]] = "skipped" /\ NextEvent(d)
        /\ UNCHANGED <<crashes, main, router, pool, phase, open>>
    BY <1>2 DEF SkipEvent, Handling, jobVars
  <2> QED BY <1>1, <2>1, PastNext, HandlerMoves
<1>3. CASE Validate(d)
  <2>1. /\ request[d] = "handling" /\ Events(d)[at[d]] = "validation" /\ Answer(d)
        /\ UNCHANGED <<crashes, main, router, pool, phase, open>>
    BY <1>3 DEF Validate, Handling, jobVars
  <2> QED BY <1>1, <2>1, AnswerDecides, HandlerMoves
<1>4. CASE AnswerOK(d)
  <2>1. /\ request[d] = "handling" /\ at[d] > Len(Events(d)) /\ Answer(d)
        /\ UNCHANGED <<crashes, main, router, pool, phase, open>>
    BY <1>4 DEF AnswerOK, jobVars
  <2> QED BY <1>1, <2>1, AnswerDecides, HandlerMoves
<1>5. CASE SubmitEvent(d)
  <2> DEFINE j == JobOf(d, at[d])
  <2>1. /\ request[d] = "handling" /\ at[d] \in DOMAIN Events(d)
        /\ Events(d)[at[d]] = "video"
        /\ UNCHANGED <<crashes, main, router, pool, open>>
    BY <1>5 DEF SubmitEvent, QueueFull, Handling, Ledger!Accept, Ledger!Refuse
  <2>2. j \in Jobs
    BY <2>1, JobsApart
  <2>3. /\ Ledger!Move(j, "unseen", "queued") \/ Ledger!Move(j, "unseen", "refused")
        /\ \/ NextEvent(d)
           \/ request' = [request EXCEPT ![d] = "aborted"] /\ at' = at
    BY <1>5 DEF SubmitEvent, QueueFull, AfterRefusal, Ledger!Accept, Ledger!Refuse
  <2> HIDE DEF j
  <2>4. /\ phase' \in [Jobs -> Ledger!Phase \cup {"lost"}]
        /\ phase'[j] \in {"queued", "refused"}
        /\ \A k \in Jobs : k # j => phase'[k] = phase[k]
        /\ \A k \in Jobs : phase[k] # "unseen" => phase'[k] # "unseen"
    <3>1. "queued" \in Ledger!Phase \ {"unseen"} /\ "refused" \in Ledger!Phase \ {"unseen"}
      BY DEF Ledger!Phase
    <3> QED BY <2>2, <2>3, <3>1, JobMoves DEF ServiceInv
  <2>5. \A k \in Jobs : phase'[k] = "running" => phase[k] = "running"
    BY <2>4
  <2>6. CASE NextEvent(d)
    BY <2>1, <2>4, <2>5, <2>6, PastNext, HandlerMoves DEF j
  <2>7. CASE request' = [request EXCEPT ![d] = "aborted"] /\ at' = at
    <3>1. /\ request'[d] = "aborted" /\ request' = [request EXCEPT ![d] = request'[d]]
          /\ at' = [at EXCEPT ![d] = at'[d]] /\ at'[d] = at[d]
      BY <2>7 DEF ServiceInv, TypeOK
    <3>2. HandlerOK(d)'
      BY <3>1 DEF HandlerOK
    <3> QED BY <1>1, <2>1, <2>4, <2>5, <3>1, <3>2, HandlerMoves
  <2> QED BY <2>3, <2>6, <2>7
<1> QED BY <1>2, <1>3, <1>4, <1>5 DEF Handler

\* A pool that is down or has closed its queue takes no jobs.
LEMMA ShutLine ==
  ASSUME NEW b, NEW p \in {"closed", "down"}, b = FALSE
  PROVE  b = (p \in {"starting", "serving"})
<1>1. (p \in {"starting", "serving"}) = FALSE
  OBVIOUS
<1> QED BY <1>1, Zenon

\* The pool closes the queue, and works on its jobs until it has returned.
LEMMA PoolKeeps ==
  ServiceInv /\ (ClosePool \/ \E j \in Jobs : WorkOn(j)) => ServiceInv'
<1> SUFFICES ASSUME ServiceInv, ClosePool \/ \E j \in Jobs : WorkOn(j) PROVE ServiceInv'
  OBVIOUS
<1>1. CASE ClosePool
  <2>1. /\ UNCHANGED <<crashes, main, router, request, at, phase>>
        /\ pool' = "closed" /\ open' = FALSE /\ CtxDone /\ pool = "serving"
    BY <1>1 DEF ClosePool, Ledger!Close, reqVars
  <2>2. TypeOK'
    <3>1. open' = (pool' \in {"starting", "serving"})
      BY <2>1, ShutLine
    <3> QED BY <2>1, <3>1 DEF ServiceInv, TypeOK, Events
  <2>3. PartsAgree'
    BY <2>1, <2>2 DEF ServiceInv, PartsAgree, CtxDone, TypeOK
  <2>4. \A d \in Deliveries : HandlerOK(d)'
    BY <2>1, DecidedStays DEF ServiceInv
  <2> QED BY <2>2, <2>3, <2>4 DEF ServiceInv
<1>2. ASSUME NEW j \in Jobs, WorkOn(j) PROVE ServiceInv'
  <2>1. /\ pool \in {"serving", "closed"}
        /\ UNCHANGED <<crashes, main, router, pool, request, at, open>>
    BY <1>2 DEF WorkOn, Settle, reqVars, Ledger!Begin, Ledger!Discard, Ledger!Secure,
       Ledger!Deliver, Ledger!GiveUp
  <2>2. \/ phase' = phase
        \/ \E from \in Ledger!Phase : \E to \in {"running", "delivered", "abandoned"} :
              Ledger!Move(j, from, to)
    BY <1>2 DEF WorkOn, Settle, Ledger!Begin, Ledger!Discard, Ledger!Secure,
       Ledger!Deliver, Ledger!GiveUp, Ledger!Phase
  <2>3. /\ phase' \in [Jobs -> Ledger!Phase \cup {"lost"}]
        /\ \A k \in Jobs : phase[k] # "unseen" => phase'[k] # "unseen"
    <3>1. CASE phase' = phase
      BY <3>1 DEF ServiceInv, TypeOK
    <3>2. ASSUME NEW from, NEW to \in {"running", "delivered", "abandoned"},
                 Ledger!Move(j, from, to)
          PROVE  /\ phase' \in [Jobs -> Ledger!Phase \cup {"lost"}]
                 /\ \A k \in Jobs : phase[k] # "unseen" => phase'[k] # "unseen"
      <4>1. to \in Ledger!Phase \ {"unseen"}
        BY DEF Ledger!Phase
      <4> QED BY <3>2, <4>1, JobMoves DEF ServiceInv
    <3> QED BY <2>2, <3>1, <3>2
  <2>4. TypeOK'
    BY <2>1, <2>3 DEF ServiceInv, TypeOK
  <2>5. PartsAgree'
    BY <2>1 DEF ServiceInv, PartsAgree, CtxDone
  <2>6. \A d \in Deliveries : HandlerOK(d)'
    BY <2>1, <2>3, DecidedStays DEF ServiceInv
  <2> QED BY <2>4, <2>5, <2>6 DEF ServiceInv
<1> QED BY <1>1, <1>2

\* A crash forgets jobs, but none becomes one that was never submitted.
LEMMA CrashKeeps == ServiceInv /\ (Crash \/ Restart) => ServiceInv'
<1> SUFFICES ASSUME ServiceInv, Crash \/ Restart PROVE ServiceInv'
  OBVIOUS
<1>1. CASE Crash
  <2>1. /\ crashes' \in 0 .. MaxCrashes
        /\ main' = "down" /\ router' = "down" /\ pool' = "down" /\ open' = FALSE
    BY <1>1, ServiceAssumption DEF Crash, ServiceInv, TypeOK
  <2>2. /\ phase' \in [Jobs -> Ledger!Phase \cup {"lost"}]
        /\ \A k \in Jobs : phase[k] # "unseen" => phase'[k] # "unseen"
    BY <1>1 DEF Crash, ServiceInv, TypeOK
  <2>3. \A d \in Deliveries : \/ request'[d] = "cut" /\ at'[d] = 1
                              \/ request'[d] = request[d] /\ at'[d] = at[d]
    BY <1>1 DEF Crash
  <2>4. TypeOK'
    <3>1. ASSUME NEW d \in Deliveries PROVE at'[d] <= Len(Events(d)) + 1
      <4>1. Len(Events(d)) \in Nat /\ at[d] <= Len(Events(d)) + 1
        BY EventsTyped DEF ServiceInv, TypeOK
      <4> QED BY <2>3, <4>1
    <3>2. request' \in [Deliveries -> {"unsent", "reading", "rejected", "handling",
                                      "answered", "aborted", "cut"}]
      BY <1>1 DEF Crash, ServiceInv, TypeOK
    <3>3. at' \in [Deliveries -> Nat \ {0}]
      BY <1>1 DEF Crash, ServiceInv, TypeOK
    <3>4. open' = (pool' \in {"starting", "serving"})
      BY <2>1, ShutLine
    <3> QED BY <2>1, <2>2, <3>1, <3>2, <3>3, <3>4 DEF TypeOK, Events
  <2>5. PartsAgree'
    BY <2>1, <2>4 DEF PartsAgree, TypeOK
  <2>6. ASSUME NEW d \in Deliveries PROVE HandlerOK(d)'
    <3>1. CASE request'[d] = "cut"
      BY <3>1 DEF HandlerOK
    <3>2. CASE request'[d] = request[d] /\ at'[d] = at[d]
      BY <2>2, <3>2, DecidedStays DEF ServiceInv
    <3> QED BY <2>3, <3>1, <3>2
  <2> QED BY <2>4, <2>5, <2>6 DEF ServiceInv
<1>2. CASE Restart
  <2>1. /\ UNCHANGED <<crashes, request, at, phase>>
        /\ main' = "running" /\ router' = "starting" /\ pool' = "starting" /\ open' = TRUE
    BY <1>2 DEF Restart, reqVars
  <2>2. TypeOK'
    BY <2>1 DEF ServiceInv, TypeOK
  <2>3. PartsAgree'
    BY <2>1 DEF PartsAgree
  <2>4. \A d \in Deliveries : HandlerOK(d)'
    BY <2>1, DecidedStays DEF ServiceInv
  <2> QED BY <2>2, <2>3, <2>4 DEF ServiceInv
<1> QED BY <1>1, <1>2

LEMMA NextKeepsServiceInv == ServiceInv /\ [Next]_vars => ServiceInv'
<1>1. ASSUME ServiceInv, UNCHANGED vars PROVE ServiceInv'
  <2>1. UNCHANGED <<crashes, main, router, pool, request, at, phase, line, safe, open>>
    BY <1>1 DEF vars, reqVars, jobVars
  <2>2. TypeOK'
    BY <1>1, <2>1 DEF ServiceInv, TypeOK
  <2>3. PartsAgree'
    BY <1>1, <2>1 DEF ServiceInv, PartsAgree, CtxDone, Ledger!Running
  <2>4. \A d \in Deliveries : HandlerOK(d)'
    BY <1>1, <2>1, DecidedStays DEF ServiceInv
  <2> QED BY <2>2, <2>3, <2>4 DEF ServiceInv
<1>2. ASSUME ServiceInv, Next PROVE ServiceInv'
  BY <1>1, <1>2, PartsKeep, PoolKeeps, DeliverKeeps, HandlerKeeps, CrashKeeps
     DEF Next, PoolStep, Terminated
<1> QED BY <1>1, <1>2

\* What holds of every reachable state of the service: which of its parts are
\* up together, and what each handler has decided.
THEOREM ServiceInvariant == Spec => []ServiceInv
  BY InitServiceInv, NextKeepsServiceInv, PTL DEF Spec

-------------------------------------------------------------------------------
(* The properties.                                                         *)

\* Every part of the service keeps its type, and no handler of the webhook
\* runs past its batch, for any batches, deliveries and crashes.
THEOREM ServiceTypeCorrect == Spec => []TypeOK
<1>1. ServiceInv => TypeOK
  BY DEF ServiceInv
<1> QED BY <1>1, ServiceInvariant, PTL

\* Whatever other requests, the workers and crashes do meanwhile, a batch is
\* answered only once every video before its validation was taken or refused.
THEOREM AnsweredBatchesAreDecided == Spec => []AnsweredMeansDecided
<1>1. ServiceInv => AnsweredMeansDecided
  BY DEF ServiceInv, HandlerOK, Decided, AnsweredMeansDecided
<1> QED BY <1>1, ServiceInvariant, PTL

\* runProductionMode leaves no job running behind it, however many handlers
\* were still submitting when the signal came.
THEOREM ExitFindsPoolIdle == Spec => []ExitLeavesNoRunningJob
<1>1. ServiceInv => ExitLeavesNoRunningJob
  BY DEF ServiceInv, PartsAgree, ExitLeavesNoRunningJob
<1> QED BY <1>1, ServiceInvariant, PTL

\* A handler's send panics only while the service goes down, and the job it
\* was sending is then nowhere in the pool.
THEOREM PanicsOnlyInShutdown == Spec => AbortOnlyInShutdown
<1> DEFINE Abort(d) ==
      request'[d] = "aborted" /\ request[d] # "aborted" =>
         /\ CtxDone
         /\ at[d] <= Len(Events(d))
         /\ phase'[JobOf(d, at[d])] = "refused"
<1>1. ASSUME ServiceInv, Next, NEW d \in Deliveries,
             request'[d] = "aborted", request[d] # "aborted"
      PROVE  CtxDone /\ at[d] <= Len(Events(d)) /\ phase'[JobOf(d, at[d])] = "refused"
  <2>1. PICK e \in Deliveries : Deliver(e) \/ Decode(e) \/ Handler(e)
    BY <1>1 DEF Next, Crash, Restart, Signal, MainStep, StopServers, Exit, RouterStep,
       StartRouter, StopListening, RouterReturns, PoolStep, StartPool, ClosePool,
       PoolReturns, WorkOn, Terminated, vars, reqVars
  <2>2. e = d /\ SubmitEvent(d)
    <3>1. CASE Deliver(e) \/ Decode(e)
      BY <1>1, <3>1 DEF Deliver, Decode, ServiceInv, TypeOK
    <3>2. CASE SkipEvent(e) \/ Validate(e) \/ AnswerOK(e)
      BY <1>1, <3>2 DEF SkipEvent, Validate, AnswerOK, NextEvent, Answer, ServiceInv, TypeOK
    <3>3. CASE SubmitEvent(e)
      BY <1>1, <3>3 DEF SubmitEvent, QueueFull, NextEvent, AfterRefusal, ServiceInv, TypeOK
    <3> QED BY <2>1, <3>1, <3>2, <3>3 DEF Handler
  <2>3. ~NextEvent(d)
    BY <1>1 DEF NextEvent
  <2>4. /\ Alive /\ at[d] \in DOMAIN Events(d) /\ ~open
        /\ Ledger!Move(JobOf(d, at[d]), "unseen", "refused")
    BY <2>2, <2>3 DEF SubmitEvent, QueueFull, Handling, AfterRefusal, Ledger!Refuse
  <2>5. CtxDone
    BY <1>1, <2>4 DEF Alive, ServiceInv, TypeOK, PartsAgree
  <2>6. at[d] <= Len(Events(d))
    BY <2>4, EventsTyped
  <2>7. phase'[JobOf(d, at[d])] = "refused"
    <3>1. JobOf(d, at[d]) \in Jobs
      BY <2>4, JobsApart
    <3> QED BY <1>1, <2>4, <3>1 DEF Ledger!Move, ServiceInv, TypeOK
  <2> QED BY <2>5, <2>6, <2>7
<1>2. ServiceInv /\ [Next]_vars => [\A d \in Deliveries : Abort(d)]_vars
  BY <1>1
<1> QED BY <1>2, ServiceInvariant, PTL DEF Spec, AbortOnlyInShutdown

-------------------------------------------------------------------------------
(* The queue and the workers, across crashes and restarts.                 *)

\* The jobs in the channel are the ones that were taken and not begun, each
\* once; no more wait, and no more run, than the configuration says; the
\* transcoder is done only with jobs that run or ran in this process.
QueueSound ==
    /\ line \in Seq(Jobs) /\ Len(line) <= Capacity
    /\ \A j \in Jobs : phase[j] = "queued" <=> \E i \in DOMAIN line : line[i] = j
    /\ \A i, k \in DOMAIN line : line[i] = line[k] => i = k
    /\ IsFiniteSet(Ledger!Running) /\ Cardinality(Ledger!Running) <= MaxRunning
    /\ \A j \in safe : j \in Jobs /\ phase[j] \in {"running", "delivered"}

\* Between a crash and the restart nothing is left of the queue.
DownIsEmpty == main = "down" => line = <<>> /\ safe = {} /\ Ledger!Running = {}

\* The ways of a job: no step takes it back, and only a crash loses it.
Course ==
    { <<"unseen", "queued">>,     <<"unseen", "refused">>,
      <<"queued", "running">>,    <<"queued", "abandoned">>,
      <<"running", "delivered">>, <<"running", "abandoned">>,
      <<"queued", "lost">>,       <<"running", "lost">> }

JobsKeepTheirCourse ==
    [][\A j \in Jobs : phase'[j] # phase[j] =>
          /\ <<phase[j], phase'[j]>> \in Course
          /\ phase'[j] = "lost" => Crash]_vars

\* From a start of the process to its end or crash, whatever handlers, main
\* and the workers do, its jobs move as JobLedger says.
EachLifeIsALedger ==
    [][main # "down" /\ main' # "down" => [Ledger!Next]_jobVars]_vars

\* Fewer running jobs take no more workers.
LEMMA FewerRun ==
  ASSUME QueueSound, Ledger!Running' \subseteq Ledger!Running
  PROVE  IsFiniteSet(Ledger!Running') /\ Cardinality(Ledger!Running') <= MaxRunning
<1>1. IsFiniteSet(Ledger!Running') /\ Cardinality(Ledger!Running') <= Cardinality(Ledger!Running)
  BY FS_Subset DEF QueueSound
<1>2. Cardinality(Ledger!Running') \in Nat /\ Cardinality(Ledger!Running) \in Nat
  BY <1>1, FS_CardinalityType DEF QueueSound
<1> QED BY <1>1, <1>2, ServiceAssumption DEF QueueSound

\* The oldest job leaves the line, and only that one.
LEMMA LineMoves ==
  ASSUME QueueSound, line # <<>>
  PROVE  /\ Tail(line) \in Seq(Jobs) /\ Len(Tail(line)) <= Capacity
         /\ Head(line) \in Jobs /\ phase[Head(line)] = "queued"
         /\ \A j \in Jobs : (\E i \in DOMAIN Tail(line) : Tail(line)[i] = j)
                               <=> phase[j] = "queued" /\ j # Head(line)
         /\ \A i, k \in DOMAIN Tail(line) : Tail(line)[i] = Tail(line)[k] => i = k
<1>1. /\ line \in Seq(Jobs) /\ Len(line) \in Nat /\ Len(line) <= Capacity
      /\ \A i, k \in DOMAIN line : line[i] = line[k] => i = k
      /\ Capacity \in Nat
  BY LenProperties, ServiceAssumption DEF QueueSound
<1>2. /\ Tail(line) \in Seq(Jobs) /\ Len(Tail(line)) = Len(line) - 1
      /\ \A i \in 1 .. Len(Tail(line)) : Tail(line)[i] = line[i + 1]
      /\ Head(line) \in Jobs /\ Head(line) = line[1]
  BY <1>1, HeadTailProperties
<1>3. DOMAIN line = 1 .. Len(line) /\ DOMAIN Tail(line) = 1 .. Len(line) - 1 /\ 1 \in DOMAIN line
  BY <1>1, <1>2, LenProperties, EmptySeq
<1>4. ASSUME NEW j \in Jobs
      PROVE  (\E i \in DOMAIN Tail(line) : Tail(line)[i] = j)
                <=> phase[j] = "queued" /\ j # Head(line)
  <2>1. ASSUME NEW i \in DOMAIN Tail(line), Tail(line)[i] = j
        PROVE  phase[j] = "queued" /\ j # Head(line)
    <3>1. i + 1 \in DOMAIN line /\ line[i + 1] = j /\ i + 1 # 1
      BY <1>1, <1>2, <1>3, <2>1
    <3> QED BY <1>1, <1>2, <1>3, <3>1 DEF QueueSound
  <2>2. ASSUME phase[j] = "queued", j # Head(line)
        PROVE  \E i \in DOMAIN Tail(line) : Tail(line)[i] = j
    <3>1. PICK k \in DOMAIN line : line[k] = j
      BY <2>2 DEF QueueSound
    <3>2. k # 1
      BY <1>2, <2>2, <3>1
    <3>3. k - 1 \in DOMAIN Tail(line) /\ (k - 1) + 1 = k
      BY <1>1, <1>3, <3>2
    <3>4. Tail(line)[k - 1] = j
      BY <1>2, <1>3, <3>1, <3>3
    <3> QED BY <3>3, <3>4
  <2> QED BY <2>1, <2>2
<1>5. ASSUME NEW i \in DOMAIN Tail(line), NEW k \in DOMAIN Tail(line), Tail(line)[i] = Tail(line)[k]
      PROVE  i = k
  <2>1. i + 1 \in DOMAIN line /\ k + 1 \in DOMAIN line /\ line[i + 1] = line[k + 1]
    BY <1>1, <1>2, <1>3, <1>5
  <2>2. i + 1 = k + 1
    BY <1>1, <2>1
  <2> QED BY <1>3, <1>1, <2>2
<1>6. phase[Head(line)] = "queued"
  BY <1>2, <1>3 DEF QueueSound
<1> QED BY <1>1, <1>2, <1>4, <1>5, <1>6

\* A job is taken into the channel.
LEMMA AcceptKeepsQueue ==
  ASSUME TypeOK, QueueSound, NEW j \in Jobs, Ledger!Accept(j) PROVE QueueSound'
<1>1. /\ line \in Seq(Jobs) /\ Len(line) \in Nat /\ DOMAIN line = 1 .. Len(line)
      /\ Len(line) < Capacity /\ Capacity \in Nat
      /\ phase[j] = "unseen" /\ phase' = [phase EXCEPT ![j] = "queued"]
      /\ line' = Append(line, j) /\ safe' = safe
      /\ phase \in [Jobs -> Ledger!Phase \cup {"lost"}]
  BY LenProperties, ServiceAssumption DEF Ledger!Accept, Ledger!Move, QueueSound, TypeOK
<1>2. /\ line' \in Seq(Jobs) /\ Len(line') = Len(line) + 1
      /\ \A i \in 1 .. Len(line) : line'[i] = line[i]
      /\ line'[Len(line) + 1] = j
  BY <1>1, AppendProperties
<1>3. DOMAIN line' = 1 .. Len(line) + 1
  BY <1>2, LenProperties
<1>4. \A i \in DOMAIN line : line[i] # j
  BY <1>1 DEF QueueSound
<1>5. ASSUME NEW k \in Jobs PROVE phase'[k] = "queued" <=> \E i \in DOMAIN line' : line'[i] = k
  <2>1. phase'[k] = "queued" <=> phase[k] = "queued" \/ k = j
    BY <1>1
  <2>2. (\E i \in DOMAIN line' : line'[i] = k) <=> (\E i \in DOMAIN line : line[i] = k) \/ k = j
    BY <1>1, <1>2, <1>3
  <2> QED BY <2>1, <2>2 DEF QueueSound
<1>6. \A i, k \in DOMAIN line' : line'[i] = line'[k] => i = k
  BY <1>1, <1>2, <1>3, <1>4 DEF QueueSound
<1>7. IsFiniteSet(Ledger!Running') /\ Cardinality(Ledger!Running') <= MaxRunning
  <2>1. Ledger!Running' \subseteq Ledger!Running
    BY <1>1 DEF Ledger!Running
  <2> QED BY <2>1, FewerRun
<1>8. \A k \in safe' : k \in Jobs /\ phase'[k] \in {"running", "delivered"}
  BY <1>1 DEF QueueSound
<1> QED BY <1>1, <1>2, <1>5, <1>6, <1>7, <1>8 DEF QueueSound

\* A job that neither enters nor leaves the channel, nor starts to run.
LEMMA PhaseKeepsQueue ==
  ASSUME TypeOK, QueueSound, line' = line,
         \A k \in Jobs : phase'[k] = "queued" <=> phase[k] = "queued",
         \A k \in Jobs : phase'[k] = "running" => phase[k] = "running",
         \A k \in safe' : k \in Jobs /\ phase'[k] \in {"running", "delivered"}
  PROVE  QueueSound'
<1>1. Ledger!Running' \subseteq Ledger!Running
  BY DEF Ledger!Running
<1>2. IsFiniteSet(Ledger!Running') /\ Cardinality(Ledger!Running') <= MaxRunning
  BY <1>1, FewerRun
<1> QED BY <1>2 DEF QueueSound

\* The ledger counts as FiniteSets does.
LEMMA LedgerCounts == \A S : Ledger!Cardinality(S) = Cardinality(S)
BY DEF Ledger!Cardinality, Cardinality

\* The oldest job is begun by a free worker, or dropped.
LEMMA BeginKeepsQueue ==
  ASSUME TypeOK, QueueSound, NEW j \in Jobs, Ledger!Begin(j) \/ Ledger!Discard(j)
  PROVE  QueueSound'
<1>1. /\ line # <<>> /\ j = Head(line) /\ line' = Tail(line) /\ safe' = safe
      /\ phase[j] = "queued"
      /\ \/ phase' = [phase EXCEPT ![j] = "running"] /\ Cardinality(Ledger!Running) < MaxRunning
         \/ phase' = [phase EXCEPT ![j] = "abandoned"]
      /\ phase \in [Jobs -> Ledger!Phase \cup {"lost"}]
  BY LedgerCounts DEF Ledger!Begin, Ledger!Discard, Ledger!Move, TypeOK
<1>2. /\ line' \in Seq(Jobs) /\ Len(line') <= Capacity
      /\ \A k \in Jobs : (\E i \in DOMAIN line' : line'[i] = k) <=> phase[k] = "queued" /\ k # j
      /\ \A i, k \in DOMAIN line' : line'[i] = line'[k] => i = k
  BY <1>1, LineMoves
<1>3. \A k \in Jobs : phase'[k] = "queued" <=> phase[k] = "queued" /\ k # j
  BY <1>1
<1>4. \A k \in safe' : k \in Jobs /\ phase'[k] \in {"running", "delivered"}
  BY <1>1 DEF QueueSound
<1>5. IsFiniteSet(Ledger!Running') /\ Cardinality(Ledger!Running') <= MaxRunning
  <2>1. CASE phase' = [phase EXCEPT ![j] = "abandoned"]
    <3>1. Ledger!Running' \subseteq Ledger!Running
      BY <1>1, <2>1 DEF Ledger!Running
    <3> QED BY <3>1, FewerRun
  <2>2. CASE phase' = [phase EXCEPT ![j] = "running"] /\ Cardinality(Ledger!Running) < MaxRunning
    <3>1. Ledger!Running' = Ledger!Running \cup {j} /\ j \notin Ledger!Running
      BY <1>1, <2>2 DEF Ledger!Running
    <3>2. IsFiniteSet(Ledger!Running) /\ Cardinality(Ledger!Running) \in Nat /\ MaxRunning \in Nat
      BY FS_CardinalityType, ServiceAssumption DEF QueueSound
    <3>3. /\ IsFiniteSet(Ledger!Running \cup {j})
          /\ Cardinality(Ledger!Running \cup {j}) = Cardinality(Ledger!Running) + 1
      BY <3>1, <3>2, FS_AddElement
    <3> QED BY <2>2, <3>1, <3>2, <3>3
  <2> QED BY <1>1, <2>1, <2>2
<1> QED BY <1>2, <1>3, <1>4, <1>5 DEF QueueSound

LEMMA WorkKeepsQueue ==
  ASSUME TypeOK, QueueSound, NEW j \in Jobs, WorkOn(j) PROVE QueueSound'
<1>1. CASE Ledger!Begin(j) \/ Ledger!Discard(j)
  BY <1>1, BeginKeepsQueue
<1>2. CASE Ledger!Secure(j)
  BY <1>2, PhaseKeepsQueue DEF Ledger!Secure, Ledger!Running, QueueSound
<1>3. CASE Ledger!Deliver(j) \/ Ledger!GiveUp(j)
  <2>1. /\ line' = line /\ safe' = safe /\ phase[j] = "running"
        /\ \/ phase' = [phase EXCEPT ![j] = "delivered"]
           \/ phase' = [phase EXCEPT ![j] = "abandoned"] /\ j \notin safe
        /\ phase \in [Jobs -> Ledger!Phase \cup {"lost"}]
    BY <1>3 DEF Ledger!Deliver, Ledger!GiveUp, Ledger!Move, TypeOK
  <2>2. \A k \in safe' : k \in Jobs /\ phase'[k] \in {"running", "delivered"}
    BY <2>1 DEF QueueSound
  <2>3. /\ \A k \in Jobs : phase'[k] = "queued" <=> phase[k] = "queued"
        /\ \A k \in Jobs : phase'[k] = "running" => phase[k] = "running"
    BY <2>1
  <2> QED BY <2>1, <2>2, <2>3, PhaseKeepsQueue
<1> QED BY <1>1, <1>2, <1>3 DEF WorkOn, Settle

\* What a handler's step does to the jobs.
LEMMA HandlerOnJobs ==
  ASSUME NEW d \in Deliveries, Handler(d)
  PROVE  \/ UNCHANGED jobVars
         \/ \E j \in Jobs : Ledger!Accept(j) \/ Ledger!Refuse(j)
<1>1. CASE SubmitEvent(d)
  <2>1. at[d] \in DOMAIN Events(d)
    BY <1>1 DEF SubmitEvent, Handling
  <2>2. JobOf(d, at[d]) \in Jobs
    BY <2>1, JobsApart
  <2> QED BY <1>1, <2>2 DEF SubmitEvent, QueueFull
<1> QED BY <1>1 DEF Handler, SkipEvent, Validate, AnswerOK

\* What any step but a crash and a restart does to them.
LEMMA StepOnJobs ==
  ASSUME Next, ~Crash, ~Restart
  PROVE  \/ UNCHANGED jobVars
         \/ Ledger!Close
         \/ \E j \in Jobs : Ledger!Accept(j) \/ Ledger!Refuse(j) \/ WorkOn(j)
<1>1. CASE Signal \/ MainStep \/ RouterStep \/ Terminated
  BY <1>1 DEF Signal, MainStep, StopServers, Exit, RouterStep, StartRouter, StopListening,
     RouterReturns, Terminated, vars
<1>2. CASE PoolStep
  BY <1>2 DEF PoolStep, StartPool, ClosePool, PoolReturns
<1>3. ASSUME NEW d \in Deliveries, Deliver(d) \/ Decode(d) PROVE UNCHANGED jobVars
  BY <1>3 DEF Deliver, Decode
<1> QED BY <1>1, <1>2, <1>3, HandlerOnJobs DEF Next

LEMMA NextKeepsQueue ==
  ASSUME ServiceInv, QueueSound, DownIsEmpty, [Next]_vars PROVE QueueSound' /\ DownIsEmpty'
<1>1. TypeOK /\ phase \in [Jobs -> Ledger!Phase \cup {"lost"}]
  BY DEF ServiceInv, TypeOK
<1>2. CASE Crash
  <2>1. /\ line' = <<>> /\ safe' = {} /\ main' = "down"
        /\ phase' = [j \in Jobs |-> IF InMemory(j) THEN "lost" ELSE phase[j]]
    BY <1>2 DEF Crash
  <2>2. \A j \in Jobs : phase'[j] # "queued" /\ phase'[j] # "running"
    BY <2>1 DEF InMemory
  <2>3. Ledger!Running' = {}
    BY <2>2 DEF Ledger!Running
  <2>4. <<>> \in Seq(Jobs) /\ Len(<<>>) = 0 /\ DOMAIN <<>> = {}
    BY EmptySeq
  <2>5. QueueSound'
    BY <2>1, <2>2, <2>3, <2>4, FS_EmptySet, ServiceAssumption DEF QueueSound
  <2> QED BY <2>1, <2>3, <2>5 DEF DownIsEmpty
<1>3. CASE Restart \/ UNCHANGED vars
  <2>1. UNCHANGED <<line, safe, phase>> /\ (main' = "down" => main = "down")
    BY <1>3 DEF Restart, vars, jobVars, reqVars
  <2> QED BY <2>1 DEF QueueSound, DownIsEmpty, Ledger!Running
<1>4. ASSUME Next, ~Crash, ~Restart PROVE QueueSound' /\ DownIsEmpty'
  <2>1. main' = "down" => main = "down" /\ UNCHANGED jobVars
    BY <1>4 DEF Next, Signal, MainStep, StopServers, Exit, RouterStep, StartRouter,
       StopListening, RouterReturns, PoolStep, StartPool, ClosePool, PoolReturns, Terminated,
       vars, Deliver, Decode, Handler, SkipEvent, Validate, SubmitEvent, QueueFull, AnswerOK,
       WorkOn, Handling, Alive, Listening, CtxDone, ServiceInv, PartsAgree
  <2>2. DownIsEmpty'
    BY <2>1 DEF DownIsEmpty, jobVars, Ledger!Running
  <2>3. CASE UNCHANGED jobVars \/ Ledger!Close
    BY <2>2, <2>3 DEF jobVars, Ledger!Close, QueueSound, Ledger!Running
  <2>4. ASSUME NEW j \in Jobs, Ledger!Accept(j) PROVE QueueSound'
    BY <1>1, <2>4, AcceptKeepsQueue
  <2>5. ASSUME NEW j \in Jobs, Ledger!Refuse(j) PROVE QueueSound'
    <3>1. /\ line' = line /\ safe' = safe /\ phase[j] = "unseen"
          /\ phase' = [phase EXCEPT ![j] = "refused"]
      BY <2>5 DEF Ledger!Refuse, Ledger!Move
    <3>2. \A k \in safe' : k \in Jobs /\ phase'[k] \in {"running", "delivered"}
      BY <1>1, <3>1 DEF QueueSound
    <3> QED BY <1>1, <3>1, <3>2, PhaseKeepsQueue
  <2>6. ASSUME NEW j \in Jobs, WorkOn(j) PROVE QueueSound'
    BY <1>1, <2>6, WorkKeepsQueue
  <2> QED BY <1>4, <2>2, <2>3, <2>4, <2>5, <2>6, StepOnJobs
<1> QED BY <1>2, <1>3, <1>4

\* The channel holds the waiting jobs and no others, each once, within its
\* capacity, and no more jobs run than MaxConcurrentJobs, through any crashes
\* and restarts; a process that comes up begins with none of either.
THEOREM QueueStaysSound == Spec => [](QueueSound /\ DownIsEmpty)
<1>1. Init => QueueSound /\ DownIsEmpty
  <2> SUFFICES ASSUME Init PROVE QueueSound /\ DownIsEmpty
    OBVIOUS
  <2>1. /\ phase = [j \in Jobs |-> "unseen"] /\ line = <<>> /\ safe = {} /\ main = "running"
    BY DEF Init, Ledger!Init
  <2>2. Ledger!Running = {}
    BY <2>1 DEF Ledger!Running
  <2>3. <<>> \in Seq(Jobs) /\ Len(<<>>) = 0 /\ DOMAIN <<>> = {}
    BY EmptySeq
  <2> QED BY <2>1, <2>2, <2>3, FS_EmptySet, ServiceAssumption DEF QueueSound, DownIsEmpty
<1>2. ServiceInv /\ QueueSound /\ DownIsEmpty /\ [Next]_vars => QueueSound' /\ DownIsEmpty'
  BY NextKeepsQueue
<1> QED BY <1>1, <1>2, ServiceInvariant, PTL DEF Spec

\* A job is never taken back to an earlier phase, nor out of a last one, by
\* any delivery, worker, crash or restart, and only a crash loses one.
THEOREM JobsOnlyGoForward == Spec => JobsKeepTheirCourse
<1> DEFINE Keeps == \A j \in Jobs : phase'[j] # phase[j] =>
          /\ <<phase[j], phase'[j]>> \in Course
          /\ phase'[j] = "lost" => Crash
<1>1. ASSUME ServiceInv, Next, NEW j \in Jobs, phase'[j] # phase[j]
      PROVE  <<phase[j], phase'[j]>> \in Course /\ (phase'[j] = "lost" => Crash)
  <2>1. phase \in [Jobs -> Ledger!Phase \cup {"lost"}]
    BY <1>1 DEF ServiceInv, TypeOK
  <2>2. CASE Crash
    <3>1. phase[j] \in {"queued", "running"} /\ phase'[j] = "lost"
      BY <1>1, <2>2 DEF Crash, InMemory
    <3> QED BY <2>2, <3>1 DEF Course
  <2>3. CASE Restart
    BY <1>1, <2>3 DEF Restart
  <2>4. CASE ~Crash /\ ~Restart
    <3>1. \/ \E k \in Jobs : Ledger!Accept(k) \/ Ledger!Refuse(k) \/ WorkOn(k)
      BY <1>1, <2>4, StepOnJobs DEF jobVars, Ledger!Close
    <3>2. PICK k \in Jobs, step \in Course :
             phase[k] = step[1] /\ phase' = [phase EXCEPT ![k] = step[2]] /\ step[2] # "lost"
      <4>1. \E k \in Jobs : \/ Ledger!Move(k, "unseen", "queued")
                            \/ Ledger!Move(k, "unseen", "refused")
                            \/ Ledger!Move(k, "queued", "running")
                            \/ Ledger!Move(k, "queued", "abandoned")
                            \/ Ledger!Move(k, "running", "delivered")
                            \/ Ledger!Move(k, "running", "abandoned")
        BY <1>1, <3>1 DEF WorkOn, Settle, Ledger!Accept, Ledger!Refuse, Ledger!Begin,
           Ledger!Discard, Ledger!Secure, Ledger!Deliver, Ledger!GiveUp
      <4> QED BY <4>1 DEF Ledger!Move, Course
    <3>3. k = j
      BY <1>1, <2>1, <3>2
    <3>4. step = <<phase[j], phase'[j]>>
      BY <2>1, <3>2, <3>3 DEF Course
    <3> QED BY <2>1, <3>2, <3>3, <3>4
  <2> QED BY <2>2, <2>3, <2>4
<1>2. ServiceInv /\ [Next]_vars => [Keeps]_vars
  BY <1>1
<1> HIDE DEF Keeps
<1>3. Spec => [][Keeps]_vars
  BY <1>2, ServiceInvariant, PTL DEF Spec
<1> QED BY <1>3 DEF Keeps, JobsKeepTheirCourse

\* The webhook's handlers, main and the workers together drive the pool's jobs
\* as the ledger allows, which WorkerPool implements, in each life of the
\* process.
THEOREM LivesAreLedgers == Spec => EachLifeIsALedger
<1> DEFINE Life == main # "down" /\ main' # "down" => [Ledger!Next]_jobVars
<1>1. ASSUME Next, main # "down", main' # "down" PROVE [Ledger!Next]_jobVars
  <2>1. ~Crash /\ ~Restart
    BY <1>1 DEF Crash, Restart
  <2> QED BY <1>1, <2>1, StepOnJobs DEF Ledger!Next, WorkOn, Settle
<1>2. [Next]_vars => [Life]_vars
  BY <1>1
<1> HIDE DEF Life
<1>3. Spec => [][Life]_vars
  BY <1>2, PTL DEF Spec
<1> QED BY <1>3 DEF Life, EachLifeIsALedger
===============================================================================
