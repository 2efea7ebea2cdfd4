------------------------------- MODULE JobLedger -------------------------------
(***************************************************************************)
(* What the job queue and the worker pool promise together, without saying *)
(* how: a bounded line of accepted jobs, served in order by at most        *)
(* MaxRunning at a time, each leaving the line once and settling once.     *)
(* WorkerPool is shown to implement it.                                    *)
(***************************************************************************)
EXTENDS Naturals, Sequences, FiniteSets

CONSTANTS Jobs,         \* conversion jobs
          Capacity,     \* how many accepted jobs may wait
          MaxRunning    \* how many jobs may run at once

VARIABLES phase,   \* where each job stands
          line,    \* accepted jobs that have not been started, oldest first
          safe,    \* jobs all of whose outputs are known to be in storage
          open     \* whether the line still takes jobs

vars == <<phase, line, safe, open>>

Phase == {"unseen", "refused", "queued", "running", "delivered", "abandoned"}

Init ==
    /\ phase = [j \in Jobs |-> "unseen"]
    /\ line = <<>>
    /\ safe = {}
    /\ open = TRUE

Move(j, from, to) ==
    /\ phase[j] = from
    /\ phase' = [phase EXCEPT ![j] = to]

Running == {j \in Jobs : phase[j] = "running"}

\* A job joins the end of the line while it is open and has room.
Accept(j) ==
    /\ open
    /\ Len(line) < Capacity
    /\ Move(j, "unseen", "queued")
    /\ line' = Append(line, j)
    /\ UNCHANGED <<safe, open>>

\* A job is turned away only by a full or a closed line.
Refuse(j) ==
    /\ open => Len(line) = Capacity
    /\ Move(j, "unseen", "refused")
    /\ UNCHANGED <<line, safe, open>>

\* The oldest waiting job starts, if a place is free.
Begin(j) ==
    /\ line # <<>>
    /\ j = Head(line)
    /\ Cardinality(Running) < MaxRunning
    /\ Move(j, "queued", "running")
    /\ line' = Tail(line)
    /\ UNCHANGED <<safe, open>>

\* The oldest waiting job cannot be run at all and is dropped.
Discard(j) ==
    /\ line # <<>>
    /\ j = Head(line)
    /\ Move(j, "queued", "abandoned")
    /\ line' = Tail(line)
    /\ UNCHANGED <<safe, open>>

\* The last output of a running job reaches the storage.
Secure(j) ==
    /\ j \in Running
    /\ safe' = safe \cup {j}
    /\ UNCHANGED <<phase, line, open>>

\* A running job settles well only with every output in storage.
Deliver(j) ==
    /\ j \in safe
    /\ Move(j, "running", "delivered")
    /\ UNCHANGED <<line, safe, open>>

\* A running job whose outputs are not all known to be stored is given up.
GiveUp(j) ==
    /\ j \notin safe
    /\ Move(j, "running", "abandoned")
    /\ UNCHANGED <<line, safe, open>>

Close ==
    /\ open
    /\ open' = FALSE
    /\ UNCHANGED <<phase, line, safe>>

Next ==
    \/ \E j \in Jobs :
         \/ Accept(j) \/ Refuse(j)
         \/ Begin(j) \/ Discard(j)
         \/ Secure(j) \/ Deliver(j) \/ GiveUp(j)
    \/ Close

Spec == Init /\ [][Next]_vars
================================================================================
