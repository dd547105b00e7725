---------------------------- MODULE MCScheduler -----------------------------
(***************************************************************************)
(* Three tasks for two agents and two slots: two tasks compete for one     *)
(* agent, one slot can be held by a long run, and a tick can meet an agent *)
(* that is not registered yet.                                             *)
(***************************************************************************)
EXTENDS ConcurrentScheduler

CONSTANTS t1, t2, t3, a1, a2

MCTasks == {t1, t2, t3}
MCAgents == {a1, a2}
MCAgentOf == [t \in Tasks |-> IF t = t3 THEN a2 ELSE a1]
=============================================================================
