------------------------------ MODULE Runtime -------------------------------
(***************************************************************************)
(* The runtime seam (src/src/integration/runtime.ts): prompts read by the  *)
(* CLI channel travel over the message bus to the router agent; the route  *)
(* is logged by withMemoryLog, the traffic by the seam's own subscribers;  *)
(* the reply travels back over the bus to the channel.  shutdown() may     *)
(* come at any time and awaits four things in turn, but not the handlers   *)
(* that are still on their way.                                            *)
(*                                                                         *)
(* The store is the one of MemoryStore, reduced to its chain of appends.   *)
(* A route is abstracted to its outcome: CircuitRouter has the detail.     *)
(***************************************************************************)
EXTENDS Naturals, Sequences, SequencesExt

CONSTANTS
    Prompts,   \* the lines typed, each read at most once
    Modes      \* RuntimeOptions.mode and .satellite, one of which is booted

ASSUME RuntimeAssumption ==
    Modes \subseteq {"standalone", "satellite", "satellite with fallback"}

VARIABLES
    mode,       \* the mode booted
    agent,      \* BaseAgent._state
    aborted,    \* abortController
    subs,       \* who listens on the bus
    reading,    \* CliStdioChannel.rl is open
    phase,      \* how far shutdown() has come
    handling,   \* where each onMessage call is
    chain,      \* appends that wait in the store's promise chain
    waitFor,    \* the appends memory.close() waits for
    rows,       \* the rows of the events table
    refused,    \* appends that failed because the store was closed
    printed     \* the onMessage calls whose reply is on stdout

vars == <<mode, agent, aborted, subs, reading, phase, handling, chain,
          waitFor, rows, refused, printed>>
storeVars == <<waitFor, rows, refused>>
lifeVars == <<mode, agent, aborted, reading, phase>>

(* One prompt may be handled twice: by the seam's subscriber, and by the   *)
(* agent's own subscription, which start() makes.  Of the event kinds of   *)
(* the vocabulary these are the ones somebody writes.                      *)
Owners == {"seam", "agent"}
Calls == Prompts \X Owners
Kinds == {"channel.in", "channel.out", "router.out", "agent.error"}
Row(kind, h) == [kind |-> kind, call |-> h]
Rows == [kind : Kinds, call : Calls]

(* What start() of the channel and the boot subscribe, and shutdown ends.  *)
BootSubs == {"seam", "log", "channel"}

Init ==
    /\ mode \in Modes
    /\ agent = "init"
    /\ aborted = FALSE
    /\ subs = BootSubs
    /\ reading = TRUE
    /\ phase = "up"
    /\ handling = [h \in Calls |-> "none"]
    /\ chain = <<>>
    /\ waitFor = {}
    /\ rows = {}
    /\ refused = {}
    /\ printed = {}

(* onMessage runs up to its first await: the satellite or the router.      *)
FirstAwait == IF mode = "standalone" THEN "routing" ELSE "asking"

(* bus.send reaches every subscriber of "router" in this step.             *)
Handled(m) ==
    [h \in Calls |-> IF h[1] = m /\ h[2] \in subs THEN FirstAwait ELSE handling[h]]

(* The seam's subscriber logs the prompt.                                  *)
LoggedPrompt(m) ==
    IF "seam" \in subs THEN Append(chain, Row("channel.in", <<m, "seam">>)) ELSE chain

(* handleLine sends a line as a prompt.                                    *)
Line(m) ==
    /\ reading
    /\ \A w \in Owners : handling[<<m, w>>] = "none"
    /\ handling' = Handled(m)
    /\ chain' = LoggedPrompt(m)
    /\ UNCHANGED <<lifeVars, storeVars, subs, printed>>

(* handleReply of the channel writes to stdout.                            *)
Printed(h) == IF "channel" \in subs THEN printed \cup {h} ELSE printed

(* bus.send of the reply reaches the channel and the seam's log.           *)
Reply(h) ==
    /\ handling' = [handling EXCEPT ![h] = "replied"]
    /\ printed' = Printed(h)
    /\ chain' = IF "log" \in subs
                THEN Append(chain, Row("channel.out", h)) ELSE chain

(* SatelliteAgent: the answer is sent on, or the local router is asked, or *)
(* the failure is sent on.                                                 *)
SatelliteAnswers(h) ==
    /\ handling[h] = "asking"
    /\ Reply(h)
    /\ UNCHANGED <<lifeVars, storeVars, subs>>

SatelliteFails(h) ==
    /\ handling[h] = "asking"
    /\ \/ /\ mode = "satellite with fallback"
          /\ handling' = [handling EXCEPT ![h] = "routing"]
          /\ UNCHANGED <<chain, printed>>
       \/ /\ mode = "satellite"
          /\ Reply(h)
    /\ UNCHANGED <<lifeVars, storeVars, subs>>

(* withMemoryLog: the inner route settles, its outcome is appended.        *)
RouteSettles(h) ==
    /\ handling[h] = "routing"
    /\ \E kind \in {"router.out", "agent.error"} :
          /\ chain' = Append(chain, Row(kind, h))
          /\ handling' = [handling EXCEPT ![h] = kind]
    /\ UNCHANGED <<lifeVars, storeVars, subs, printed>>

(* safeAppend returns, whether the append was stored or refused; the agent *)
(* sends its completion, or the error it caught.                           *)
Logged(h) ==
    /\ handling[h] \in {"router.out", "agent.error"}
    /\ Row(handling[h], h) \notin ToSet(chain)
    /\ Reply(h)
    /\ UNCHANGED <<lifeVars, storeVars, subs>>

(* Variant: the newest append first.                                       *)
RunLink_Newest ==
    /\ chain # <<>> /\ phase # "closed"
    /\ chain' = Front(chain)
    /\ rows' = rows \cup {Last(chain)}
    /\ UNCHANGED <<lifeVars, subs, handling, waitFor, refused, printed>>

(* The next link of the store's chain.                                     *)
RunLink ==
    /\ chain # <<>>
    /\ chain' = Tail(chain)
    /\ \/ /\ phase # "closed"
          /\ rows' = rows \cup {Head(chain)}
          /\ UNCHANGED refused
       \/ /\ phase = "closed"
          /\ refused' = refused \cup {Head(chain)}
          /\ UNCHANGED rows
    /\ UNCHANGED <<lifeVars, subs, handling, waitFor, printed>>

(* A task for the agent is enqueued on Runtime.scheduler and dispatched:   *)
(* BaseAgent.start().  Nothing in the repository does so yet.              *)
StartAgent ==
    /\ agent = "init"
    /\ phase \in {"up", "stopping"}
    /\ agent' = "running"
    /\ subs' = subs \cup {"agent"}
    /\ UNCHANGED <<mode, aborted, reading, phase, handling, chain, storeVars,
                   printed>>

(* run() resolves on abort; its finally unsubscribes the agent.            *)
RunEnds ==
    /\ agent = "running" /\ aborted
    /\ agent' = "stopped"
    /\ subs' = subs \ {"agent"}
    /\ UNCHANGED <<mode, aborted, reading, phase, handling, chain, storeVars,
                   printed>>

(* Variant: the channel keeps its subscription.                            *)
Shutdown_ChannelStays ==
    /\ phase = "up"
    /\ phase' = "stopping"
    /\ subs' = subs \ {"seam", "log"}
    /\ reading' = FALSE
    /\ UNCHANGED <<mode, agent, aborted, handling, chain, storeVars, printed>>

(* shutdown(): both subscribers of the seam and the channel go at once.    *)
Shutdown ==
    /\ phase = "up"
    /\ phase' = "stopping"
    /\ subs' = subs \ BootSubs
    /\ reading' = FALSE
    /\ UNCHANGED <<mode, agent, aborted, handling, chain, storeVars, printed>>

(* After channel.stop(): abort, and scheduler.stop() takes what runs.      *)
AbortRuns ==
    /\ phase = "stopping"
    /\ phase' = "draining"
    /\ aborted' = TRUE
    /\ UNCHANGED <<mode, agent, subs, reading, handling, chain, storeVars,
                   printed>>

(* Variant: the handlers under way are awaited first.                      *)
AskStoreToClose_Drains ==
    /\ phase = "draining" /\ agent # "running"
    /\ \A h \in Calls : handling[h] \in {"none", "replied"}
    /\ phase' = "closing"
    /\ waitFor' = ToSet(chain)
    /\ UNCHANGED <<mode, agent, aborted, subs, reading, handling, chain,
                   rows, refused, printed>>

(* After scheduler.stop(): memory.close() waits for the chain as it is.    *)
AskStoreToClose ==
    /\ phase = "draining"
    /\ agent # "running"
    /\ phase' = "closing"
    /\ waitFor' = ToSet(chain)
    /\ UNCHANGED <<mode, agent, aborted, subs, reading, handling, chain,
                   rows, refused, printed>>

(* Variant: the store closes at once.                                      *)
StoreCloses_NoWait ==
    /\ phase = "closing"
    /\ phase' = "closed"
    /\ UNCHANGED <<mode, agent, aborted, subs, reading, handling, chain,
                   storeVars, printed>>

StoreCloses ==
    /\ phase = "closing"
    /\ waitFor \cap ToSet(chain) = {}
    /\ phase' = "closed"
    /\ UNCHANGED <<mode, agent, aborted, subs, reading, handling, chain,
                   storeVars, printed>>

Next ==
    \/ \E m \in Prompts : Line(m)
    \/ \E h \in Calls : \/ SatelliteAnswers(h) \/ SatelliteFails(h)
                        \/ RouteSettles(h) \/ Logged(h)
    \/ RunLink \/ StartAgent \/ RunEnds
    \/ Shutdown \/ AbortRuns \/ AskStoreToClose \/ StoreCloses

Spec == Init /\ [][Next]_vars

(* Promise continuations run; a provider or a satellite may hang for ever. *)
FairSpec ==
    /\ Spec
    /\ WF_vars(RunLink) /\ WF_vars(RunEnds) /\ WF_vars(AbortRuns)
    /\ WF_vars(AskStoreToClose) /\ WF_vars(StoreCloses)
-----------------------------------------------------------------------------
TypeOK ==
    /\ mode \in Modes
    /\ agent \in {"init", "running", "stopped"}
    /\ aborted \in BOOLEAN
    /\ subs \subseteq {"seam", "log", "channel", "agent"}
    /\ reading \in BOOLEAN
    /\ phase \in {"up", "stopping", "draining", "closing", "closed"}
    /\ handling \in [Calls -> {"none", "asking", "routing", "router.out",
                               "agent.error", "replied"}]
    /\ chain \in Seq(Rows)
    /\ waitFor \subseteq Rows
    /\ rows \subseteq Rows
    /\ refused \subseteq Rows
    /\ printed \subseteq Calls

(* The event log is written in causal order: as soon as it says anything  *)
(* of a prompt it also says that the prompt came in.                       *)
CausalLog ==
    \A r \in rows : Row("channel.in", <<r.call[1], "seam">>) \in rows

(* What the user saw is in the log: the channel.out row of a reply on      *)
(* stdout is stored or about to be, even when shutdown() overtakes it, and *)
(* there is no such row for a reply that was not printed.                  *)
PrintedIsRecorded ==
    {h \in Calls : Row("channel.out", h) \in rows \cup ToSet(chain)} = printed

(* Closing the store costs at most the row of a route that was still under *)
(* way: no prompt that was read and no reply that was printed is refused.  *)
OnlyLateRoutesRefused ==
    \A r \in refused : r.kind \in {"router.out", "agent.error"}

(* shutdown() ends, also while a provider or a satellite never answers.    *)
ShutdownSettles == phase = "stopping" ~> phase = "closed"

=============================================================================
