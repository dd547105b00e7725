---------------------------- MODULE AtomicStore -----------------------------
(***************************************************************************)
(* What a memory store promises its callers: every operation that is       *)
(* invoked takes effect at one instant between its invocation and its      *)
(* answer, on the store as all earlier effects left it; a store that is    *)
(* closed refuses, but never an operation invoked before anyone asked it   *)
(* to close; and the database is not touched once it is closed.            *)
(***************************************************************************)
EXTENDS Naturals

CONSTANTS
    Ops,       \* operations, each invoked at most once
    Keys,      \* keys of the kv table: one (agent_id, key) each
    EventIds,  \* primary keys of the events table
    Kind,      \* Kind[o] is "set", "get", "append" or "query"
    KeyOf,     \* the key of a set or a get
    EventOf,   \* the event id of an append
    Nothing    \* the value of a key that was never set

ASSUME StoreAssumption ==
    /\ Kind \in [Ops -> {"set", "get", "append", "query"}]
    /\ KeyOf \in [Ops -> Keys]
    /\ EventOf \in [Ops -> EventIds]
    /\ Nothing \notin Ops

VARIABLES
    op,        \* what has become of each operation
    result,    \* the answer of an operation that is done
    kv,        \* the kv table: the set operation whose value a key holds
    events,    \* the events table
    closing,   \* somebody asked the store to close
    early,     \* the operations invoked before that
    dbOpen     \* the database handle is open

vars == <<op, result, kv, events, closing, early, dbOpen>>

OpStates == {"new", "pending", "done", "failed", "refused"}
Values == Ops \cup {Nothing}
Results == Values \cup SUBSET EventIds

Init ==
    /\ op = [o \in Ops |-> "new"]
    /\ result = [o \in Ops |-> Nothing]
    /\ kv = [k \in Keys |-> Nothing]
    /\ events = {}
    /\ closing = FALSE
    /\ early = {}
    /\ dbOpen = TRUE

Invoke(o) ==
    /\ op[o] = "new"
    /\ op' = [op EXCEPT ![o] = "pending"]
    /\ early' = IF closing THEN early ELSE early \cup {o}
    /\ UNCHANGED <<result, kv, events, closing, dbOpen>>

(* The primary key of events makes an append with a known id fail.         *)
Duplicate(o) == Kind[o] = "append" /\ EventOf[o] \in events

Answer(o) ==
    CASE Kind[o] = "get"   -> kv[KeyOf[o]]
      [] Kind[o] = "query" -> events
      [] OTHER             -> Nothing

Effect(o) ==
    /\ op' = [op EXCEPT ![o] = IF Duplicate(o) THEN "failed" ELSE "done"]
    /\ result' = [result EXCEPT ![o] = Answer(o)]
    /\ kv' = IF Kind[o] = "set" THEN [kv EXCEPT ![KeyOf[o]] = o] ELSE kv
    /\ events' = IF Kind[o] = "append" THEN events \cup {EventOf[o]} ELSE events
    /\ UNCHANGED <<closing, early, dbOpen>>

Apply(o) == op[o] = "pending" /\ dbOpen /\ Effect(o)

Refuse(o) ==
    /\ op[o] = "pending" /\ o \notin early /\ ~dbOpen
    /\ op' = [op EXCEPT ![o] = "refused"]
    /\ UNCHANGED <<result, kv, events, closing, early, dbOpen>>

AskToClose ==
    /\ ~closing
    /\ closing' = TRUE
    /\ UNCHANGED <<op, result, kv, events, early, dbOpen>>

Close ==
    /\ closing /\ dbOpen
    /\ \A o \in early : op[o] \in {"done", "failed"}
    /\ dbOpen' = FALSE
    /\ UNCHANGED <<op, result, kv, events, closing, early>>

Next ==
    \/ AskToClose \/ Close
    \/ \E o \in Ops : Invoke(o) \/ Apply(o) \/ Refuse(o)

Spec == Init /\ [][Next]_vars
=============================================================================
