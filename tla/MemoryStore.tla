---------------------------- MODULE MemoryStore -----------------------------
(***************************************************************************)
(* SqliteMemoryStore (src/src/memory/sqlite-store.ts): the operations of   *)
(* all agents are links of one promise chain, this.lock; each link checks  *)
(* this.closed when its turn comes and then uses the database in one       *)
(* synchronous step.  close() waits for the chain as it is when it is      *)
(* called, and only then sets the flag and closes the database.            *)
(***************************************************************************)
EXTENDS AtomicStore, Sequences, SequencesExt

CONSTANT Closers   \* the calls of close()

VARIABLES
    chain,     \* the links of this.lock that have not run, in order
    closePc,   \* where each call of close() is
    waitFor,   \* the links each call of close() waits for
    closed,    \* this.closed
    invoked    \* history: the operations in the order of their invocation

storeVars == <<op, result, kv, events, closing, early, dbOpen, chain,
               closePc, waitFor, closed, invoked>>

StoreInit ==
    /\ Init
    /\ chain = <<>>
    /\ closePc = [c \in Closers |-> "idle"]
    /\ waitFor = [c \in Closers |-> {}]
    /\ closed = FALSE
    /\ invoked = <<>>

(* Variant: a get does not wait for its turn.                              *)
WithLock_ReadsBypass(o) ==
    /\ op[o] = "new" /\ dbOpen
    /\ op' = [op EXCEPT ![o] = IF Kind[o] = "get" THEN "done" ELSE "pending"]
    /\ result' = [result EXCEPT ![o] = Answer(o)]
    /\ chain' = IF Kind[o] = "get" THEN chain ELSE Append(chain, o)
    /\ early' = IF closing THEN early ELSE early \cup {o}
    /\ invoked' = Append(invoked, o)
    /\ UNCHANGED <<kv, events, closing, dbOpen, closePc, waitFor, closed>>

(* get, set, list, append, query: withLock adds a link to the chain.       *)
WithLock(o) ==
    /\ Invoke(o)
    /\ chain' = Append(chain, o)
    /\ invoked' = Append(invoked, o)
    /\ UNCHANGED <<closePc, waitFor, closed>>

(* Variant: the flag is not checked.                                      *)
RunLink_Unchecked ==
    /\ chain # <<>>
    /\ Effect(Head(chain))
    /\ chain' = Tail(chain)
    /\ UNCHANGED <<closePc, waitFor, closed, invoked>>

(* The first link runs: it refuses, or reads and writes the database.  An  *)
(* error stays with the caller: the chain goes on with next.catch(...).    *)
RunLink ==
    /\ chain # <<>>
    /\ LET o == Head(chain) IN
       \/ /\ closed
          /\ op' = [op EXCEPT ![o] = "refused"]
          /\ UNCHANGED <<result, kv, events, closing, early, dbOpen>>
       \/ /\ ~closed
          /\ Effect(o)
    /\ chain' = Tail(chain)
    /\ UNCHANGED <<closePc, waitFor, closed, invoked>>

(* close() returns at once when the flag is set; otherwise it waits.       *)
CloseCalled(c) ==
    /\ closePc[c] = "idle"
    /\ closing' = TRUE
    /\ closePc' = [closePc EXCEPT ![c] = IF closed THEN "resolved" ELSE "waiting"]
    /\ waitFor' = [waitFor EXCEPT ![c] = ToSet(chain)]
    /\ UNCHANGED <<op, result, kv, events, early, dbOpen, chain, closed, invoked>>

(* DatabaseSync.close() throws when the database is not open.              *)
CloseResumes(c) ==
    /\ closePc[c] = "waiting"
    /\ ToSet(chain) \cap waitFor[c] = {}
    /\ closed' = TRUE
    /\ dbOpen' = FALSE
    /\ closePc' = [closePc EXCEPT ![c] = IF dbOpen THEN "resolved" ELSE "rejected"]
    /\ UNCHANGED <<op, result, kv, events, closing, early, chain, waitFor, invoked>>

StoreNext ==
    \/ RunLink
    \/ \E o \in Ops : WithLock(o)
    \/ \E c \in Closers : CloseCalled(c) \/ CloseResumes(c)

StoreSpec == StoreInit /\ [][StoreNext]_storeVars

-----------------------------------------------------------------------------
TypeOK ==
    /\ op \in [Ops -> OpStates]
    /\ result \in [Ops -> Results]
    /\ kv \in [Keys -> Values]
    /\ events \subseteq EventIds
    /\ closing \in BOOLEAN
    /\ early \subseteq Ops
    /\ dbOpen \in BOOLEAN
    /\ chain \in Seq(Ops)
    /\ closePc \in [Closers -> {"idle", "waiting", "resolved", "rejected"}]
    /\ waitFor \in [Closers -> SUBSET Ops]
    /\ closed \in BOOLEAN
    /\ invoked \in Seq(Ops)

(* The links of the chain are the pending operations, each once.           *)
ChainIsPending ==
    /\ \A i, j \in 1 .. Len(chain) : chain[i] = chain[j] => i = j
    /\ ToSet(chain) = {o \in Ops : op[o] = "pending"}

(* Every call of close() that still waits covers the early operations that *)
(* have not run: whichever call closes the database, none of them is left. *)
ClosersWaitForEarly ==
    /\ closed = ~dbOpen
    /\ \A c \in Closers :
          /\ closePc[c] = "idle" => waitFor[c] = {}
          /\ closePc[c] # "idle" => closing
    /\ ~closing => {o \in Ops : op[o] # "new"} \subseteq early
    /\ closed => closing /\ \A o \in early : op[o] # "pending"
    /\ early \subseteq {o \in Ops : op[o] # "new"}
    /\ \A o \in early : op[o] # "refused"
    /\ \A c \in Closers, o \in early :
          closePc[c] = "waiting" /\ op[o] = "pending" => o \in waitFor[c]

(* The store keeps the promise of AtomicStore.                             *)
ImplementsAtomicStore == Spec

Before(j, kind) == {i \in 1 .. j - 1 : Kind[invoked[i]] = kind}

(* Operations take effect in the order of their invocation, awaited or     *)
(* not: a get returns the last value set before it, a query the events     *)
(* appended before it, whichever operations failed or were refused.        *)
ReadsSeeEarlierWrites ==
    \A j \in 1 .. Len(invoked) :
        LET o == invoked[j]
            sets == {i \in Before(j, "set") : KeyOf[invoked[i]] = KeyOf[o]} IN
        op[o] = "done" =>
            /\ Kind[o] = "query" =>
                 result[o] = {EventOf[invoked[i]] : i \in Before(j, "append")}
            /\ Kind[o] = "get" /\ sets = {} => result[o] = Nothing
            /\ Kind[o] = "get" /\ sets # {} =>
                 \E i \in sets : /\ result[o] = invoked[i]
                                 /\ \A n \in sets : n <= i

=============================================================================
