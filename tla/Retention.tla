----------------------------- MODULE Retention ------------------------------
(***************************************************************************)
(* withRetention (src/src/memory/retention.ts) over a SqliteMemoryStore:   *)
(* the events of one agent in one process.  The store keeps every event;   *)
(* the wrapper remembers which of them it hides.                           *)
(*                                                                         *)
(* Each operation of the store is one step, as MemoryStore implements      *)
(* AtomicStore; callers of append do not await one another.  The expiry of *)
(* keys, which shares nothing with the events, is left out.                *)
(***************************************************************************)
EXTENDS Naturals, FiniteSets

CONSTANTS
    Events,       \* events to append: their timestamps, all different
    Cap,          \* maxEventsPerAgent
    QueryLimit    \* the limit of a query that states none

VARIABLES
    stored,       \* the events in the store
    evicted,      \* evictedEventIds
    appending     \* the appends that are about to look for what to evict

vars == <<stored, evicted, appending>>

Init == stored = {} /\ evicted = {} /\ appending = {}

Newest(events, n) == {e \in events : Cardinality({d \in events : d > e}) < n}

(* store.query(agentId): ORDER BY ts DESC LIMIT QueryLimit.                *)
Queried == Newest(stored, QueryLimit)

Visible(events) == events \ evicted
-----------------------------------------------------------------------------
(* append(): the store has the event, ...                                  *)
Append(e) ==
    /\ e \in Events \ stored
    /\ stored' = stored \cup {e}
    /\ appending' = appending \cup {e}
    /\ UNCHANGED evicted

(* ... and what is visible of a query, beyond the newest Cap, is evicted.  *)
Evict(e) ==
    /\ e \in appending
    /\ appending' = appending \ {e}
    /\ LET seen == Visible(Queried) IN evicted' = evicted \cup (seen \ Newest(seen, Cap))
    /\ UNCHANGED stored

Next == \E e \in Events : Append(e) \/ Evict(e)

Spec == Init /\ [][Next]_vars
-----------------------------------------------------------------------------
(* "enforces maxEventsPerAgent on append, keeping newest"                  *)
(* (tests/memory/retention.test.ts): once the appends have settled, at     *)
(* most Cap events are in view of a query that asks for all of them.       *)
EventsAreCapped == appending = {} => Cardinality(Visible(stored)) <= Cap
=============================================================================
