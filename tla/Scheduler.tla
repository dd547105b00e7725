----------------------------- MODULE Scheduler ------------------------------
(***************************************************************************)
(* The single-pass scheduler (src/src/scheduler/scheduler.ts), its queue   *)
(* (task-queue.ts) and the life cycle of the agents it starts              *)
(* (src/src/agents/base-agent.ts).                                         *)
(*                                                                         *)
(* tick has no await: it is one step.  The promise of a dispatched task    *)
(* lasts as long as the promise of the agent's run when the task started   *)
(* the agent, and settles at the next microtask otherwise.                 *)
(***************************************************************************)
EXTENDS TaskQueue

CONSTANTS
    Tasks,           \* task ids, each enqueued at most once
    Agents,          \* agent ids
    AgentOf,         \* AgentOf[t] is task t's agentId
    MaxConcurrent,   \* SchedulerOptions.maxConcurrent
    MaxClock         \* bound of the model: the clock and runAt stop here

ASSUME SchedulerAssumption ==
    /\ AgentOf \in [Tasks -> Agents]
    /\ MaxConcurrent \in Nat
    /\ MaxClock \in Nat

VARIABLES
    clock,        \* now()
    queue,        \* TaskQueue.tasks
    runAt,        \* ScheduledTask.runAt
    task,         \* what has become of each task
    registered,   \* the keys of Scheduler.agents
    agentState,   \* BaseAgent._state
    running,      \* agents whose run() has not settled
    aborted,      \* the AbortSignal of the agents' context
    stopPc,       \* where stop() is
    awaited,      \* the runs stop() gave to Promise.all
    unhandled,    \* a promise was rejected and nobody listens
    arrival       \* history: the tasks in the order they were enqueued

vars == <<clock, queue, runAt, task, registered, agentState, running,
          aborted, stopPc, awaited, unhandled, arrival>>
agentVars == <<agentState, running>>
stopVars  == <<stopPc, awaited>>

InFlightStates == {"waiting", "resolving", "rejecting"}
TaskStates == InFlightStates \cup {"new", "queued", "resolved", "rejected", "lost"}
AgentStates == {"init", "running", "suspended", "stopped"}

InFlight == {t \in Tasks : task[t] \in InFlightStates}
stopped == stopPc # "idle"

Init ==
    /\ clock = 0
    /\ queue = <<>>
    /\ runAt = [t \in Tasks |-> 0]
    /\ task = [t \in Tasks |-> "new"]
    /\ registered = {}
    /\ agentState = [a \in Agents |-> "init"]
    /\ running = {}
    /\ aborted = FALSE
    /\ stopPc = "idle"
    /\ awaited = {}
    /\ unhandled = FALSE
    /\ arrival = <<>>
-----------------------------------------------------------------------------
Register(a) ==
    /\ a \notin registered
    /\ registered' = registered \cup {a}
    /\ UNCHANGED <<clock, queue, runAt, task, agentVars, aborted, stopVars,
                   unhandled, arrival>>

(* enqueue throws after stop(), which changes nothing.                     *)
Enqueue(t, at) ==
    /\ ~stopped
    /\ task[t] = "new"
    /\ runAt' = [runAt EXCEPT ![t] = at]
    /\ queue' = Enqueued(queue, t, runAt')
    /\ task' = [task EXCEPT ![t] = "queued"]
    /\ arrival' = Append(arrival, t)
    /\ UNCHANGED <<clock, registered, agentVars, aborted, stopVars, unhandled>>
-----------------------------------------------------------------------------
(* Variant: one slot more than maxConcurrent.                              *)
Free_OneMore == IF Cardinality(InFlight) > MaxConcurrent THEN 0
                ELSE MaxConcurrent + 1 - Cardinality(InFlight)

Free == IF Cardinality(InFlight) >= MaxConcurrent THEN 0
        ELSE MaxConcurrent - Cardinality(InFlight)

(* Variant: one unknown agentId spoils the whole batch.                    *)
Known_AllOrNone(due) ==
    IF \A j \in 1 .. Len(due) : AgentOf[due[j]] \in registered THEN Len(due) ELSE 0

(* How many of the due tasks come before the first unknown agentId.        *)
Known(due) ==
    Cardinality({i \in 1 .. Len(due) :
                    \A j \in 1 .. i : AgentOf[due[j]] \in registered})

(* The loop dispatches until the slots are used up, or an unknown agentId  *)
(* makes tick throw; once the slots are used up it only defers.            *)
Dispatched(due) == IF Known(due) < Free THEN Known(due) ELSE Free
Throws(due) == Known(due) < Len(due) /\ Known(due) < Free

(* The task that makes tick call start() on agent a: the first one.        *)
Starter(sent, i) == \A j \in 1 .. i - 1 : AgentOf[sent[j]] # AgentOf[sent[i]]

(* Variant: nobody awaits a run.                                           *)
DispatchOutcome_NotAwaited(sent, i) ==
    IF agentState[AgentOf[sent[i]]] \in {"init", "running"}
    THEN "resolving" ELSE "rejecting"

(* dispatch: a running agent is left alone, one that never ran is started  *)
(* and awaited, and start() throws in the other states.                    *)
DispatchOutcome(sent, i) ==
    LET a == AgentOf[sent[i]] IN
    IF agentState[a] = "running" \/ (agentState[a] = "init" /\ ~Starter(sent, i))
    THEN "resolving"
    ELSE IF agentState[a] = "init" THEN "waiting" ELSE "rejecting"

Due  == SubSeq(queue, 1, DueCount(queue, clock, runAt))
Rest == SubSeq(queue, DueCount(queue, clock, runAt) + 1, Len(queue))

(* The tasks behind the dispatched ones are deferred: enqueueing them      *)
(* again puts them back in front, in their order (DeferralKeepsOrder).     *)
Tick ==
    LET due      == Due
        n        == Dispatched(due)
        sent     == SubSeq(due, 1, n)
        left     == SubSeq(due, n + 1, Len(due))
        place(t) == CHOOSE i \in 1 .. n : sent[i] = t
        started  == {a \in Agents : agentState[a] = "init"
                        /\ \E i \in 1 .. n : AgentOf[sent[i]] = a}
    IN
    /\ ~stopped
    /\ due # <<>>
    /\ queue' = IF Throws(due) THEN Rest ELSE left \o Rest
    /\ task' = [t \in Tasks |->
                  IF \E i \in 1 .. n : sent[i] = t
                  THEN DispatchOutcome(sent, place(t))
                  ELSE IF Throws(due) /\ \E i \in 1 .. Len(left) : left[i] = t
                  THEN "lost" ELSE task[t]]
    /\ agentState' = [a \in Agents |->
                        IF a \in started THEN "running" ELSE agentState[a]]
    /\ running' = running \cup started
    /\ UNCHANGED <<clock, runAt, registered, aborted, stopVars, unhandled, arrival>>

(* A dispatched task's promise settles: inFlight.delete runs first, and    *)
(* the promise of run.finally() carries a rejection nobody handles.        *)
Settle(t) ==
    /\ \/ task[t] = "resolving" /\ task' = [task EXCEPT ![t] = "resolved"]
       \/ task[t] = "rejecting" /\ task' = [task EXCEPT ![t] = "rejected"]
    /\ unhandled' = (unhandled \/ task[t] = "rejecting")
    /\ UNCHANGED <<clock, queue, runAt, registered, agentVars, aborted,
                   stopVars, arrival>>
-----------------------------------------------------------------------------
(* The agent's run() settles, with or without an error: the state becomes  *)
(* stopped, and the task that awaits start() settles next.  The agents of  *)
(* the repository end their run on abort and on stop() only; another       *)
(* subclass may end, or fail, at any time.                                 *)
RunEnds(a, outcome) ==
    /\ a \in running
    /\ running' = running \ {a}
    /\ agentState' = [agentState EXCEPT ![a] = "stopped"]
    /\ task' = [t \in Tasks |-> IF task[t] = "waiting" /\ AgentOf[t] = a
                                THEN outcome ELSE task[t]]
    /\ UNCHANGED <<clock, queue, runAt, registered, aborted, stopVars,
                   unhandled, arrival>>

(* suspend, resume and stop move the state and leave run() alone.          *)
MoveAgent(a, from, to) ==
    /\ agentState[a] \in from
    /\ agentState' = [agentState EXCEPT ![a] = to]
    /\ UNCHANGED <<clock, queue, runAt, task, registered, running, aborted,
                   stopVars, unhandled, arrival>>

Suspend(a)   == MoveAgent(a, {"running"}, "suspended")
Resume(a)    == MoveAgent(a, {"suspended"}, "running")
StopAgent(a) == MoveAgent(a, {"running", "suspended"}, "stopped")

Abort ==
    /\ ~aborted
    /\ aborted' = TRUE
    /\ UNCHANGED <<clock, queue, runAt, task, registered, agentVars, stopVars,
                   unhandled, arrival>>
-----------------------------------------------------------------------------
(* Variant: agents are collected in the place of tasks.                    *)
Stop_CollectsAgents ==
    /\ stopPc = "idle"
    /\ awaited' = {AgentOf[t] : t \in InFlight}
    /\ stopPc' = IF InFlight = {} THEN "resolved" ELSE "awaiting"
    /\ UNCHANGED <<clock, queue, runAt, task, registered, agentVars, aborted,
                   unhandled, arrival>>

(* stop(): no tick and no enqueue from now on; await what is in flight.    *)
Stop ==
    /\ stopPc = "idle"
    /\ awaited' = InFlight
    /\ stopPc' = IF InFlight = {} THEN "resolved" ELSE "awaiting"
    /\ UNCHANGED <<clock, queue, runAt, task, registered, agentVars, aborted,
                   unhandled, arrival>>

(* Variant: a rejected task is awaited like one that still runs.           *)
StopResumes_IgnoresRejection ==
    /\ stopPc = "awaiting"
    /\ \A t \in awaited : task[t] = "resolved"
    /\ awaited' = InFlight
    /\ stopPc' = IF InFlight = {} THEN "resolved" ELSE "awaiting"
    /\ UNCHANGED <<clock, queue, runAt, task, registered, agentVars, aborted,
                   unhandled, arrival>>

(* Promise.all rejects with the first rejection; once all have resolved    *)
(* the loop looks again at what is in flight.                              *)
StopResumes ==
    /\ stopPc = "awaiting"
    /\ \/ /\ \E t \in awaited : task[t] = "rejected"
          /\ stopPc' = "rejected"
          /\ UNCHANGED awaited
       \/ /\ \A t \in awaited : task[t] = "resolved"
          /\ awaited' = InFlight
          /\ stopPc' = IF InFlight = {} THEN "resolved" ELSE "awaiting"
    /\ UNCHANGED <<clock, queue, runAt, task, registered, agentVars, aborted,
                   unhandled, arrival>>

Advance ==
    /\ clock < MaxClock
    /\ clock' = clock + 1
    /\ UNCHANGED <<queue, runAt, task, registered, agentVars, aborted, stopVars,
                   unhandled, arrival>>

Next ==
    \/ Advance \/ Tick \/ Stop \/ StopResumes \/ Abort
    \/ \E t \in Tasks : Settle(t) \/ \E at \in 0 .. MaxClock : Enqueue(t, at)
    \/ \E a \in Agents :
         \/ Register(a) \/ Suspend(a) \/ Resume(a) \/ StopAgent(a)
         \/ \E outcome \in {"resolving", "rejecting"} : RunEnds(a, outcome)

Spec == Init /\ [][Next]_vars

(* Microtasks run, and an agent whose context is aborted ends its run.     *)
Fairness ==
    /\ WF_vars(StopResumes)
    /\ \A t \in Tasks : WF_vars(Settle(t))
    /\ \A a \in Agents :
         WF_vars(aborted /\ \E outcome \in {"resolving", "rejecting"} :
                                RunEnds(a, outcome))

FairSpec == Spec /\ Fairness
-----------------------------------------------------------------------------
TypeOK ==
    /\ clock \in Nat
    /\ queue \in Seq(Tasks)
    /\ runAt \in [Tasks -> Nat]
    /\ task \in [Tasks -> TaskStates]
    /\ registered \subseteq Agents
    /\ agentState \in [Agents -> AgentStates]
    /\ running \subseteq Agents
    /\ aborted \in BOOLEAN
    /\ stopPc \in {"idle", "awaiting", "resolved", "rejected"}
    /\ awaited \subseteq Tasks
    /\ unhandled \in BOOLEAN
    /\ arrival \in Seq(Tasks)

(* No more than maxConcurrent runs are in flight, however ticks, deferrals *)
(* and settlements interleave.                                             *)
InFlightBounded == Cardinality(InFlight) <= MaxConcurrent

(* An agent is started by one task, which waits no longer than its run: no *)
(* second task starts it again, and no task waits for a run that is over.  *)
OneStarterPerRun ==
    /\ \A t, u \in Tasks :
          task[t] = "waiting" /\ task[u] = "waiting" /\ AgentOf[t] = AgentOf[u]
              => t = u
    /\ \A t \in Tasks : task[t] = "waiting" => AgentOf[t] \in running
    /\ \A a \in running : agentState[a] # "init"

(* A run that has started stays awaited until it settles, whatever happens *)
(* to the other tasks of its agent: stop() cannot overlook it.             *)
RunsAreAwaited ==
    \A a \in running : \E t \in Tasks : task[t] = "waiting" /\ AgentOf[t] = a

(* A queued task is in the queue once, and what is in it is queued.        *)
QueuedOnce ==
    /\ \A i \in 1 .. Len(queue) : task[queue[i]] = "queued"
    /\ \A i, j \in 1 .. Len(queue) : queue[i] = queue[j] => i = j

Before(t, u) ==
    \/ runAt[t] < runAt[u]
    \/ /\ runAt[t] = runAt[u]
       /\ \E i, j \in 1 .. Len(arrival) : i < j /\ arrival[i] = t /\ arrival[j] = u

(* The queue holds all queued tasks, in order; a task arrives once.        *)
QueueInv ==
    /\ QueuedOnce
    /\ \A t \in Tasks : task[t] = "queued" => \E i \in 1 .. Len(queue) : queue[i] = t
    /\ \A i, j \in 1 .. Len(queue) : i < j => Before(queue[i], queue[j])
    /\ \A t \in Tasks : task[t] # "new" <=> \E i \in 1 .. Len(arrival) : arrival[i] = t
    /\ \A i, j \in 1 .. Len(arrival) : arrival[i] = arrival[j] => i = j

(* The code's binary search agrees with the position the model inserts at, *)
(* and its re-enqueueing of any deferred tail with putting it in front.    *)
DeferralKeepsOrder ==
    /\ \A at \in 0 .. MaxClock :
          BinarySearch(queue, at, runAt) = FindInsertIndex(queue, at, runAt)
    /\ \A n \in 0 .. Len(Due) :
          LET left == SubSeq(Due, n + 1, Len(Due)) IN
          Requeued(left, Rest, runAt) = left \o Rest

(* A tick dispatches in queue order and never ahead of time: no task is    *)
(* dispatched while one that comes before it stays behind.                 *)
NoOvertaking ==
    [][\A t \in Tasks :
          task[t] = "queued" /\ task'[t] \in InFlightStates =>
              /\ runAt[t] <= clock
              /\ \A u \in Tasks : task[u] = "queued" /\ Before(u, t)
                                    => task'[u] \in InFlightStates]_vars

(* Tasks are lost only behind a task of an unknown agent that was due in   *)
(* the same tick: the throw in the loop forgets the rest of the batch.     *)
LostOnlyBehindUnknown ==
    [][\A t \in Tasks :
          task[t] # "lost" /\ task'[t] = "lost" =>
              \E u \in Tasks : /\ u = t \/ Before(u, t)
                               /\ AgentOf[u] \notin registered
                               /\ runAt[u] <= clock]_vars

(* Once the agents are aborted, stop() settles.                            *)
StopSettles == stopPc = "awaiting" /\ aborted ~> stopPc \in {"resolved", "rejected"}

(* "stop() awaits in-flight tasks" (tests/scheduler/scheduler.test.ts): it  *)
(* does not settle while an agent's run is still awaited.                  *)
StopAwaitsInFlight ==
    stopPc \in {"resolved", "rejected"} => \A t \in Tasks : task[t] # "waiting"
=============================================================================
