------------------------ MODULE ConcurrentScheduler -------------------------
(***************************************************************************)
(* The isolating scheduler (src/src/scheduler/concurrent.ts) over the same *)
(* queue and agents as Scheduler, whose state it shares here: Class says   *)
(* which of the two a program has made.  It always calls start(), swallows *)
(* what that throws, and stops with allSettled.                            *)
(***************************************************************************)
EXTENDS Scheduler

VARIABLE class   \* the class that was instantiated

ConcurrentInit ==
    /\ Init
    /\ class = "ConcurrentScheduler"

(* active() adds up the buckets of the agents.                             *)
Active ==
    LET bucket(a) == {t \in Tasks : AgentOf[t] = a /\ task[t] \in InFlightStates}
    IN  UNION {bucket(a) : a \in Agents}

ConcurrentFree ==
    IF Cardinality(Active) >= MaxConcurrent THEN 0
    ELSE MaxConcurrent - Cardinality(Active)

(* dispatch: start() runs an agent that never ran and throws in any other  *)
(* state, which the catch forgets.                                         *)
ConcurrentOutcome(sent, i) ==
    IF agentState[AgentOf[sent[i]]] = "init" /\ Starter(sent, i)
    THEN "waiting" ELSE "resolving"

ConcurrentTick ==
    LET n        == IF Known(Due) < ConcurrentFree THEN Known(Due) ELSE ConcurrentFree
        throws   == Known(Due) < Len(Due) /\ Known(Due) < ConcurrentFree
        sent     == SubSeq(Due, 1, n)
        left     == SubSeq(Due, n + 1, Len(Due))
        sentIds  == {sent[i] : i \in 1 .. n}
        place(t) == CHOOSE i \in 1 .. n : sent[i] = t
        started  == {AgentOf[t] : t \in sentIds} \cap {a \in Agents : agentState[a] = "init"}
    IN
    /\ ~stopped
    /\ Due # <<>>
    /\ queue' = IF throws THEN Rest ELSE left \o Rest
    /\ task' = [t \in Tasks |->
                  CASE t \in sentIds -> ConcurrentOutcome(sent, place(t))
                    [] throws /\ t \in {left[i] : i \in 1 .. Len(left)} -> "lost"
                    [] OTHER -> task[t]]
    /\ agentState' = [a \in Agents |-> IF a \in started THEN "running" ELSE agentState[a]]
    /\ running' = running \cup started
    /\ UNCHANGED <<clock, runAt, registered, aborted, stopVars, unhandled, arrival>>

(* Variant: stop() goes on with the first run that has settled.            *)
ConcurrentStopResumes_Any ==
    /\ stopPc = "awaiting"
    /\ \E t \in awaited : task[t] = "resolved"
    /\ stopPc' = "resolved"
    /\ UNCHANGED <<clock, queue, runAt, task, registered, agentVars, awaited, aborted,
                   unhandled, arrival>>

(* stop() resumes when all it awaited has settled, and looks again.        *)
ConcurrentStopResumes ==
    /\ stopPc = "awaiting"
    /\ \A t \in awaited : task[t] = "resolved"
    /\ awaited' = Active
    /\ stopPc' = IF Active = {} THEN "resolved" ELSE "awaiting"
    /\ UNCHANGED <<clock, queue, runAt, task, registered, agentVars, aborted,
                   unhandled, arrival>>

(* A run that fails resolves its task like one that ends.                  *)
ConcurrentNext ==
    \/ Advance \/ ConcurrentTick \/ Stop \/ ConcurrentStopResumes \/ Abort
    \/ \E t \in Tasks : Settle(t) \/ \E at \in 0 .. MaxClock : Enqueue(t, at)
    \/ \E a \in Agents :
         \/ Register(a) \/ Suspend(a) \/ Resume(a) \/ StopAgent(a)
         \/ RunEnds(a, "resolving")

EitherInit ==
    \/ ConcurrentInit
    \/ Init /\ class = "Scheduler"

EitherNext ==
    \/ class = "Scheduler" /\ Next /\ UNCHANGED class
    \/ class = "ConcurrentScheduler" /\ ConcurrentNext /\ UNCHANGED class

(* Microtasks run, and an agent whose context is aborted ends its run.     *)
Outcomes == IF class = "Scheduler" THEN {"resolving", "rejecting"} ELSE {"resolving"}

bothVars == <<vars, class>>

EitherFairness ==
    /\ WF_bothVars(class = "Scheduler" /\ StopResumes /\ UNCHANGED class)
    /\ WF_bothVars(class = "ConcurrentScheduler" /\ ConcurrentStopResumes /\ UNCHANGED class)
    /\ \A t \in Tasks : WF_bothVars(Settle(t) /\ UNCHANGED class)
    /\ \A a \in Agents :
         WF_bothVars(aborted /\ UNCHANGED class /\ \E outcome \in Outcomes : RunEnds(a, outcome))

EitherSpec == EitherInit /\ [][EitherNext]_bothVars /\ EitherFairness
-----------------------------------------------------------------------------
(* The runs of the isolating scheduler are over, and none failed unhandled.*)
RunsAreOver == class = "ConcurrentScheduler" => running = {} /\ ~unhandled

(* Once the agents are aborted, stop() settles; and that of the isolating  *)
(* scheduler never before every run that it awaits is over, whatever fails.*)
StopEndsInOrder ==
    StopSettles /\ [](stopPc \in {"resolved", "rejected"} => RunsAreOver)

(* What that takes: no task fails, and what has stopped has nothing in     *)
(* flight.                                                                 *)
StopInv ==
    /\ class \in {"Scheduler", "ConcurrentScheduler"}
    /\ class = "ConcurrentScheduler" =>
          ~unhandled /\ stopPc # "rejected" /\ \A t \in Tasks : task[t] # "rejecting"
    /\ stopPc = "resolved" => InFlight = {}
=============================================================================
