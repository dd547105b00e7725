--------------------------- MODULE Stores_proofs ----------------------------
(***************************************************************************)
(* Proofs about what is stored: the memory store, for any operations and   *)
(* any number of calls of close(); the credentials file, for any callers   *)
(* and providers; and what the setup wizard leaves and loadConfig reads,   *)
(* for any schema, providers and number of runs.                           *)
(***************************************************************************)
EXTENDS MemoryStore, CredentialStore, InitWizard, SequenceLemmas

StoreInv == TypeOK /\ ChainIsPending /\ ClosersWaitForEarly

(* Nothing is pending and nobody waits at the start.                       *)
LEMMA StoreInit_Inv == StoreInit => StoreInv
  <1> SUFFICES ASSUME StoreInit PROVE StoreInv
    OBVIOUS
  <1>1. TypeOK
    <2>1. chain \in Seq(Ops) /\ invoked \in Seq(Ops)
      BY DEF StoreInit
    <2>2. result \in [Ops -> Results] /\ kv \in [Keys -> Values]
      BY DEF StoreInit, Init, Results, Values
    <2> QED  BY <2>1, <2>2 DEF StoreInit, Init, TypeOK, OpStates
  <1>2. ToSet(chain) = {} /\ Len(chain) = 0
    BY DEF StoreInit, Init, ToSet
  <1>3. ChainIsPending
    <2>1. \A o \in Ops : op[o] # "pending"
      BY DEF StoreInit, Init
    <2> QED  BY <1>2, <2>1 DEF ChainIsPending
  <1>4. ClosersWaitForEarly
    BY DEF StoreInit, Init, ClosersWaitForEarly
  <1> QED  BY <1>1, <1>3, <1>4 DEF StoreInv

(* The effect of an operation keeps the types of the tables and answers.   *)
LEMMA EffectType ==
  ASSUME TypeOK, NEW o \in Ops, Effect(o)
  PROVE  /\ op' \in [Ops -> OpStates]
         /\ result' \in [Ops -> Results]
         /\ kv' \in [Keys -> Values]
         /\ events' \subseteq EventIds
         /\ op'[o] \in {"done", "failed"}
         /\ \A n \in Ops : n # o => op'[n] = op[n]
  <1>1. Answer(o) \in Results
    <2>1. Kind[o] \in {"set", "get", "append", "query"} /\ KeyOf[o] \in Keys
      BY StoreAssumption
    <2>2. kv[KeyOf[o]] \in Values /\ events \in SUBSET EventIds /\ Nothing \in Values
      BY <2>1 DEF TypeOK, Values
    <2> QED  BY <2>1, <2>2 DEF Answer, Results
  <1>2. EventOf[o] \in EventIds /\ o \in Values
    BY StoreAssumption DEF Values
  <1>3. op' \in [Ops -> OpStates] /\ op'[o] \in {"done", "failed"}
    BY DEF TypeOK, Effect, OpStates
  <1>4. result' \in [Ops -> Results]
    BY <1>1 DEF TypeOK, Effect
  <1>5. kv' \in [Keys -> Values]
    BY <1>2 DEF TypeOK, Effect
  <1>6. events' \subseteq EventIds
    BY <1>2 DEF TypeOK, Effect
  <1>7. \A n \in Ops : n # o => op'[n] = op[n]
    BY DEF TypeOK, Effect
  <1> QED  BY <1>3, <1>4, <1>5, <1>6, <1>7

(* withLock: a new link is pending, and early while nobody asked to close. *)
LEMMA WithLockStep ==
  ASSUME StoreInv, NEW o \in Ops, WithLock(o)
  PROVE  StoreInv' /\ Invoke(o)
  <1> USE DEF StoreInv, WithLock
  <1>1. /\ chain' \in Seq(Ops)
        /\ ToSet(chain') = ToSet(chain) \cup {o}
        /\ \A i \in 1 .. Len(chain) : chain'[i] = chain[i]
        /\ chain'[Len(chain) + 1] = o
        /\ Len(chain') = Len(chain) + 1
    BY ChainGrows DEF TypeOK
  <1>2. /\ op \in [Ops -> OpStates] /\ op[o] = "new"
        /\ op' = [op EXCEPT ![o] = "pending"]
        /\ early' = IF closing THEN early ELSE early \cup {o}
        /\ UNCHANGED <<closing, dbOpen, closePc, waitFor, closed>>
    BY DEF TypeOK, Invoke
  <1>3. TypeOK'
    <2>1. invoked' \in Seq(Ops)
      BY DEF TypeOK
    <2>2. op' \in [Ops -> OpStates]
      BY <1>2 DEF OpStates
    <2> QED  BY <1>1, <1>2, <2>1, <2>2 DEF TypeOK, Invoke
  <1>4. ChainIsPending'
    <2>1. o \notin ToSet(chain)
      BY <1>2 DEF ChainIsPending
    <2>2. \A i \in 1 .. Len(chain) : chain[i] # o
      BY <2>1 DEF ToSet, TypeOK
    <2>3. \A i, j \in 1 .. Len(chain') : chain'[i] = chain'[j] => i = j
      <3>1. Len(chain) \in Nat
        BY DEF TypeOK
      <3>2. \A i \in 1 .. Len(chain') : i \in 1 .. Len(chain) \/ i = Len(chain) + 1
        BY <3>1, <1>1
      <3> QED  BY <1>1, <2>2, <3>2 DEF ChainIsPending
    <2>4. ToSet(chain') = {n \in Ops : op'[n] = "pending"}
      BY <1>1, <1>2 DEF ChainIsPending
    <2> QED  BY <2>3, <2>4 DEF ChainIsPending
  <1>5. ClosersWaitForEarly'
    <2>1. \A n \in Ops : op'[n] = IF n = o THEN "pending" ELSE op[n]
      BY <1>2
    <2>2. CASE closing
      <3>1. early' = early /\ o \notin early
        BY <1>2, <2>2 DEF ClosersWaitForEarly
      <3>2. early \subseteq Ops
        BY DEF TypeOK
      <3> QED  BY <1>2, <2>1, <2>2, <3>1, <3>2 DEF ClosersWaitForEarly
    <2>3. CASE ~closing
      <3>1. early' = early \cup {o} /\ early \subseteq Ops
        BY <1>2, <2>3 DEF TypeOK
      <3>2. ~closed /\ \A c \in Closers : closePc[c] = "idle"
        BY <2>3 DEF ClosersWaitForEarly
      <3> QED  BY <1>2, <2>1, <2>3, <3>1, <3>2 DEF ClosersWaitForEarly
    <2> QED  BY <2>2, <2>3
  <1> QED  BY <1>3, <1>4, <1>5

(* A link that runs applies or refuses its operation, as AtomicStore does. *)
LEMMA RunLinkStep ==
  ASSUME StoreInv, RunLink
  PROVE  StoreInv' /\ \E o \in Ops : Apply(o) \/ Refuse(o)
  <1> USE DEF StoreInv
  <1> DEFINE o == Head(chain)
  <1>1. /\ o \in Ops
        /\ o \in ToSet(chain)
        /\ chain' \in Seq(Ops)
        /\ ToSet(chain') = ToSet(chain) \ {o}
        /\ \A i, j \in 1 .. Len(chain') : chain'[i] = chain'[j] => i = j
    BY ChainShrinks DEF RunLink, TypeOK, ChainIsPending
  <1>2. /\ op[o] = "pending"
        /\ op \in [Ops -> OpStates]
        /\ UNCHANGED <<closing, early, dbOpen, closePc, waitFor, closed, invoked>>
    BY <1>1 DEF ChainIsPending, TypeOK, RunLink, Effect
  <1>3. /\ closed => op' = [op EXCEPT ![o] = "refused"]
        /\ closed => UNCHANGED <<result, kv, events>>
        /\ ~closed => Effect(o)
    BY DEF RunLink
  <1> HIDE DEF o
  <1>4. /\ op' \in [Ops -> OpStates]
        /\ result' \in [Ops -> Results]
        /\ kv' \in [Keys -> Values]
        /\ events' \subseteq EventIds
        /\ op'[o] = "refused" \/ op'[o] \in {"done", "failed"}
        /\ op'[o] = "refused" => closed
        /\ \A n \in Ops : n # o => op'[n] = op[n]
    <2>1. CASE closed
      BY <1>1, <1>2, <1>3, <2>1 DEF TypeOK, OpStates
    <2>2. CASE ~closed
      BY <1>1, <1>3, <2>2, EffectType
    <2> QED  BY <2>1, <2>2
  <1>5. TypeOK'
    BY <1>1, <1>2, <1>4 DEF TypeOK
  <1>6. ChainIsPending'
    <2>1. ToSet(chain') = {n \in Ops : op'[n] = "pending"}
      BY <1>1, <1>4 DEF ChainIsPending
    <2> QED  BY <1>1, <2>1 DEF ChainIsPending
  <1>7. closed => o \notin early
    BY <1>2 DEF ClosersWaitForEarly
  <1>8. ClosersWaitForEarly'
    <2>1. early \subseteq Ops /\ op[o] = "pending" /\ o \in Ops
      BY <1>1, <1>2 DEF TypeOK
    <2>2. \A n \in Ops : op'[n] = "new" <=> op[n] = "new"
      BY <1>1, <1>2, <1>4
    <2>3. \A n \in Ops : op'[n] = "pending" => op[n] = "pending"
      BY <1>1, <1>4
    <2>4. \A n \in early : op'[n] # "refused"
      BY <1>4, <1>7, <2>1 DEF ClosersWaitForEarly
    <2> QED  BY <1>2, <2>1, <2>2, <2>3, <2>4 DEF ClosersWaitForEarly
  <1>9. Apply(o) \/ Refuse(o)
    <2>1. CASE closed
      BY <1>2, <1>3, <1>7, <2>1 DEF Refuse, ClosersWaitForEarly
    <2>2. CASE ~closed
      BY <1>2, <1>3, <2>2 DEF Apply, ClosersWaitForEarly, TypeOK
    <2> QED  BY <2>1, <2>2
  <1> QED  BY <1>1, <1>5, <1>6, <1>8, <1>9

(* A call of close() takes the whole chain, early operations included.     *)
LEMMA CloseCalledStep ==
  ASSUME StoreInv, NEW c \in Closers, CloseCalled(c)
  PROVE  StoreInv' /\ (AskToClose \/ UNCHANGED vars)
  <1> USE DEF StoreInv
  <1>1. /\ closing' = TRUE
        /\ closePc' = [closePc EXCEPT ![c] = IF closed THEN "resolved" ELSE "waiting"]
        /\ waitFor' = [waitFor EXCEPT ![c] = ToSet(chain)]
        /\ UNCHANGED <<op, result, kv, events, early, dbOpen, chain, closed, invoked>>
    BY DEF CloseCalled
  <1>2. ToSet(chain) = {o \in Ops : op[o] = "pending"}
    BY DEF ChainIsPending
  <1>3. TypeOK'
    BY <1>1, <1>2 DEF TypeOK
  <1>4. ChainIsPending'
    BY <1>1 DEF ChainIsPending
  <1>5. ClosersWaitForEarly'
    <2>1. early \subseteq Ops /\ early' = early /\ op' = op /\ closed' = closed /\ dbOpen' = dbOpen
      BY <1>1 DEF TypeOK
    <2>2. \A d \in Closers : d # c => closePc'[d] = closePc[d] /\ waitFor'[d] = waitFor[d]
      BY <1>1 DEF TypeOK
    <2>3. waitFor'[c] = {o \in Ops : op[o] = "pending"}
      BY <1>1, <1>2 DEF TypeOK
    <2>4. closePc'[c] # "idle"
      BY <1>1 DEF TypeOK
    <2> QED  BY <1>1, <2>1, <2>2, <2>3, <2>4 DEF ClosersWaitForEarly
  <1>6. AskToClose \/ UNCHANGED vars
    BY <1>1 DEF AskToClose, vars, TypeOK
  <1> QED  BY <1>3, <1>4, <1>5, <1>6

(* A close() whose links are gone leaves no early operation pending.       *)
LEMMA CloseResumesStep ==
  ASSUME StoreInv, NEW c \in Closers, CloseResumes(c)
  PROVE  StoreInv' /\ (Close \/ UNCHANGED vars)
  <1> USE DEF StoreInv
  <1>1. /\ closePc[c] = "waiting"
        /\ ToSet(chain) \cap waitFor[c] = {}
        /\ closed' = TRUE /\ dbOpen' = FALSE
        /\ closePc' = [closePc EXCEPT ![c] = IF dbOpen THEN "resolved" ELSE "rejected"]
        /\ UNCHANGED <<op, result, kv, events, closing, early, chain, waitFor, invoked>>
    BY DEF CloseResumes
  <1>2. closing /\ early \subseteq Ops /\ op \in [Ops -> OpStates]
    BY <1>1 DEF ClosersWaitForEarly, TypeOK
  <1>3. \A o \in early : op[o] # "pending"
    <2>1. \A o \in early : op[o] = "pending" => o \in ToSet(chain) /\ o \in waitFor[c]
      BY <1>1, <1>2 DEF ChainIsPending, ClosersWaitForEarly
    <2> QED  BY <1>1, <2>1
  <1>4. TypeOK'
    BY <1>1 DEF TypeOK
  <1>5. ChainIsPending'
    BY <1>1 DEF ChainIsPending
  <1>6. ClosersWaitForEarly'
    <2>1. \A d \in Closers : closePc'[d] # closePc[d] => d = c /\ closePc'[d] \in {"resolved", "rejected"}
      BY <1>1 DEF TypeOK
    <2> QED  BY <1>1, <1>2, <1>3, <2>1 DEF ClosersWaitForEarly
  <1>7. \A o \in early : op[o] \in {"done", "failed"}
    BY <1>2, <1>3 DEF ClosersWaitForEarly, OpStates
  <1>8. Close \/ UNCHANGED vars
    BY <1>1, <1>2, <1>7 DEF Close, vars, TypeOK
  <1> QED  BY <1>4, <1>5, <1>6, <1>8

(* Every step keeps the invariant and is a step of AtomicStore or a        *)
(* stutter.                                                                *)
LEMMA StoreStep ==
  ASSUME StoreInv, [StoreNext]_storeVars
  PROVE  StoreInv' /\ [Next]_vars
  <1>1. CASE RunLink
    BY <1>1, RunLinkStep DEF Next
  <1>2. ASSUME NEW o \in Ops, WithLock(o) PROVE StoreInv' /\ [Next]_vars
    BY <1>2, WithLockStep DEF Next
  <1>3. ASSUME NEW c \in Closers, CloseCalled(c) PROVE StoreInv' /\ [Next]_vars
    BY <1>3, CloseCalledStep DEF Next
  <1>4. ASSUME NEW c \in Closers, CloseResumes(c) PROVE StoreInv' /\ [Next]_vars
    BY <1>4, CloseResumesStep DEF Next
  <1>5. CASE UNCHANGED storeVars
    BY <1>5 DEF storeVars, vars, StoreInv, TypeOK, ChainIsPending, ClosersWaitForEarly
  <1> QED  BY <1>1, <1>2, <1>3, <1>4, <1>5 DEF StoreNext

(* The links of the chain, the tables and the flags stay in their types,   *)
(* whatever operations and calls of close() come (sqlite-store.ts).        *)
THEOREM StoreTypes == StoreSpec => []TypeOK
  <1>1. StoreInv => TypeOK
    BY DEF StoreInv
  <1> QED  BY <1>1, StoreInit_Inv, StoreStep, PTL DEF StoreSpec

(* Whichever call of close() closes the database, no operation invoked     *)
(* before the first of them is still waiting or was refused.               *)
THEOREM EarlyOperationsRun == StoreSpec => []ClosersWaitForEarly
  <1>1. StoreInv => ClosersWaitForEarly
    BY DEF StoreInv
  <1> QED  BY <1>1, StoreInit_Inv, StoreStep, PTL DEF StoreSpec

(* SqliteMemoryStore behaves like a store with one atomic step per         *)
(* operation, which refuses only after it was asked to close and is asked  *)
(* nothing of its database after it closed it.                             *)
THEOREM StoreIsAtomic == StoreSpec => ImplementsAtomicStore
  <1>1. StoreInit => Init
    BY DEF StoreInit
  <1> QED  BY <1>1, StoreInit_Inv, StoreStep, PTL DEF StoreSpec, Spec, ImplementsAtomicStore
-----------------------------------------------------------------------------
(* How many links have run.                                                *)
Ran == Len(invoked) - Len(chain)

(* value is that of the last set of k among the operations before j.       *)
LastSet(j, k, value) ==
    LET sets == {i \in Before(j, "set") : KeyOf[invoked[i]] = k} IN
    /\ sets = {} => value = Nothing
    /\ sets # {} => \E i \in sets : value = invoked[i] /\ \A n \in sets : n <= i

(* The chain is what was invoked last and has not run; what was invoked    *)
(* before it has.                                                          *)
ChainFollows ==
    /\ Len(chain) <= Len(invoked)
    /\ \A i \in 1 .. Len(chain) : chain[i] = invoked[Ran + i]
    /\ \A i \in 1 .. Ran : op[invoked[i]] \notin {"new", "pending"}

(* Until the store closes, its tables hold the work of the links that ran. *)
TablesFollow ==
    ~closed =>
        /\ events = {EventOf[invoked[i]] : i \in Before(Ran + 1, "append")}
        /\ \A k \in Keys : LastSet(Ran + 1, k, kv[k])

(* What an operation found is what the links before it have left.          *)
FoundRight(j, o, found) ==
    /\ Kind[o] = "query" => found = {EventOf[invoked[i]] : i \in Before(j, "append")}
    /\ Kind[o] = "get" => LastSet(j, KeyOf[o], found)

ReadsRight ==
    \A j \in 1 .. Len(invoked) :
        op[invoked[j]] = "done" => FoundRight(j, invoked[j], result[invoked[j]])

OrderInv == StoreInv /\ ChainFollows /\ TablesFollow /\ ReadsRight

LEMMA ReadsRightIsProperty == ReadsRight <=> ReadsSeeEarlierWrites
BY DEF ReadsRight, FoundRight, LastSet, ReadsSeeEarlierWrites

LEMMA Lengths ==
  ASSUME TypeOK, ChainFollows
  PROVE  /\ Len(chain) \in Nat /\ Len(invoked) \in Nat
         /\ Ran \in 0 .. Len(invoked) /\ Ran + Len(chain) = Len(invoked)
         /\ \A i \in 1 .. Len(invoked) : invoked[i] \in Ops
<1>1. chain \in Seq(Ops) /\ invoked \in Seq(Ops)
  BY DEF TypeOK
<1>2. Len(chain) \in Nat /\ Len(invoked) \in Nat
  BY <1>1
<1>3. \A i \in 1 .. Len(invoked) : invoked[i] \in Ops
  BY <1>1
<1> QED BY <1>2, <1>3 DEF ChainFollows, Ran

(* What is said of a prefix of invoked does not change when it grows.      *)
LEMMA PrefixStays ==
  ASSUME NEW n \in Nat, NEW j \in 1 .. n + 1,
         \A i \in 1 .. n : invoked'[i] = invoked[i]
  PROVE  /\ \A kind : Before(j, kind)' = Before(j, kind)
         /\ {EventOf[invoked'[i]] : i \in Before(j, "append")} =
                 {EventOf[invoked[i]] : i \in Before(j, "append")}
         /\ \A k, value : LastSet(j, k, value)' <=> LastSet(j, k, value)
         /\ \A o, found : FoundRight(j, o, found)' <=> FoundRight(j, o, found)
<1>1. ASSUME NEW kind PROVE Before(j, kind)' = Before(j, kind)
  BY DEF Before
<1>2. \A kind : \A i \in Before(j, kind) : invoked'[i] = invoked[i]
  BY DEF Before
<1>3. {EventOf[invoked'[i]] : i \in Before(j, "append")} =
           {EventOf[invoked[i]] : i \in Before(j, "append")}
  BY <1>2
<1>4. ASSUME NEW k, NEW value PROVE LastSet(j, k, value)' <=> LastSet(j, k, value)
  <2> DEFINE sets == {i \in Before(j, "set") : KeyOf[invoked[i]] = k}
             sets2 == {i \in Before(j, "set") : KeyOf[invoked'[i]] = k}
  <2>1. sets2 = sets /\ \A i \in sets : invoked'[i] = invoked[i]
    BY <1>2
  <2>2. LastSet(j, k, value)' <=>
            /\ sets2 = {} => value = Nothing
            /\ sets2 # {} => \E i \in sets2 : value = invoked'[i] /\ \A m \in sets2 : m <= i
    BY <1>1 DEF LastSet
  <2>3. LastSet(j, k, value) <=>
            /\ sets = {} => value = Nothing
            /\ sets # {} => \E i \in sets : value = invoked[i] /\ \A m \in sets : m <= i
    BY DEF LastSet
  <2> HIDE DEF sets, sets2
  <2> QED BY <2>1, <2>2, <2>3
<1>5. ASSUME NEW o, NEW found PROVE FoundRight(j, o, found)' <=> FoundRight(j, o, found)
  <2>1. FoundRight(j, o, found)' <=>
            /\ Kind[o] = "query" =>
                 found = {EventOf[invoked'[i]] : i \in Before(j, "append")}
            /\ Kind[o] = "get" => LastSet(j, KeyOf[o], found)'
    BY <1>1 DEF FoundRight
  <2>2. LastSet(j, KeyOf[o], found)' <=> LastSet(j, KeyOf[o], found)
    BY <1>4
  <2> QED BY <1>3, <2>1, <2>2 DEF FoundRight
<1> QED BY <1>1, <1>3, <1>4, <1>5

(* A new link changes nothing that was said of the links before it.        *)
LEMMA WithLockOrder ==
  ASSUME OrderInv, NEW o \in Ops, WithLock(o)
  PROVE  (ChainFollows /\ TablesFollow /\ ReadsRight)'
<1> DEFINE n == Len(invoked)
<1>0. TypeOK /\ ChainFollows /\ TablesFollow /\ ReadsRight
  BY DEF OrderInv, StoreInv
<1>1. /\ Len(chain) \in Nat /\ n \in Nat /\ Ran \in 0 .. n /\ Ran + Len(chain) = n
      /\ \A i \in 1 .. n : invoked[i] \in Ops
  BY <1>0, Lengths
<1>2. /\ Len(invoked') = n + 1 /\ invoked'[n + 1] = o
      /\ \A i \in 1 .. n : invoked'[i] = invoked[i]
  BY <1>0, ChainGrows DEF TypeOK, WithLock
<1>3. /\ Len(chain') = Len(chain) + 1 /\ chain'[Len(chain) + 1] = o
      /\ \A i \in 1 .. Len(chain) : chain'[i] = chain[i]
  BY <1>0, ChainGrows DEF TypeOK, WithLock
<1>4. /\ op \in [Ops -> OpStates] /\ op[o] = "new"
      /\ op' = [op EXCEPT ![o] = "pending"]
      /\ UNCHANGED <<result, kv, events, closed>>
  BY <1>0 DEF TypeOK, WithLock, Invoke
<1>5. Ran' = Ran
  BY <1>1, <1>2, <1>3 DEF Ran
<1>s. ASSUME NEW j \in 1 .. n + 1
      PROVE  /\ Before(j, "append")' = Before(j, "append")
             /\ {EventOf[invoked'[i]] : i \in Before(j, "append")} =
                     {EventOf[invoked[i]] : i \in Before(j, "append")}
             /\ \A k, value : LastSet(j, k, value)' <=> LastSet(j, k, value)
             /\ \A p, found : FoundRight(j, p, found)' <=> FoundRight(j, p, found)
  BY <1>1, <1>2, PrefixStays
<1>6. ChainFollows'
  <2>1. ASSUME NEW i \in 1 .. Len(chain') PROVE chain'[i] = invoked'[Ran + i]
    <3>1. CASE i \in 1 .. Len(chain)
      BY <1>0, <1>1, <1>2, <1>3, <3>1 DEF ChainFollows
    <3>2. CASE i = Len(chain) + 1
      BY <1>1, <1>2, <1>3, <3>2
    <3> QED BY <1>1, <1>3, <2>1, <3>1, <3>2
  <2>2. ASSUME NEW i \in 1 .. Ran PROVE op'[invoked'[i]] \notin {"new", "pending"}
    <3>1. invoked'[i] = invoked[i] /\ op[invoked[i]] \notin {"new", "pending"}
      BY <1>0, <1>1, <1>2 DEF ChainFollows
    <3> QED BY <1>1, <1>4, <3>1
  <2>3. Len(chain') <= Len(invoked')
    BY <1>1, <1>2, <1>3
  <2> QED BY <1>5, <2>1, <2>2, <2>3 DEF ChainFollows
<1>7. TablesFollow'
  <2>1. SUFFICES ASSUME ~closed
                 PROVE  /\ events = {EventOf[invoked'[i]] : i \in Before(Ran + 1, "append")'}
                        /\ \A k \in Keys : LastSet(Ran + 1, k, kv[k])'
    BY <1>4, <1>5 DEF TablesFollow
  <2>2. Ran + 1 \in 1 .. n + 1
    BY <1>1
  <2>3. /\ Before(Ran + 1, "append")' = Before(Ran + 1, "append")
        /\ {EventOf[invoked'[i]] : i \in Before(Ran + 1, "append")} =
                     {EventOf[invoked[i]] : i \in Before(Ran + 1, "append")}
        /\ \A k, value : LastSet(Ran + 1, k, value)' <=> LastSet(Ran + 1, k, value)
    BY <1>5, <1>s, <2>2
  <2> QED BY <1>0, <1>4, <2>1, <2>3 DEF TablesFollow
<1>8. ReadsRight'
  <2>1. SUFFICES ASSUME NEW j \in 1 .. n + 1, op'[invoked'[j]] = "done"
                 PROVE  FoundRight(j, invoked[j], result[invoked[j]])'
    BY <1>2 DEF ReadsRight
  <2>2. j # n + 1
    BY <1>2, <1>4, <2>1
  <2>3. j \in 1 .. n /\ invoked'[j] = invoked[j]
    BY <1>1, <1>2, <2>2
  <2>4. op[invoked[j]] = "done"
    BY <1>1, <1>4, <2>1, <2>3
  <2>5. FoundRight(j, invoked[j], result[invoked[j]])
    BY <1>0, <2>3, <2>4 DEF ReadsRight
  <2> QED BY <1>4, <1>s, <2>3, <2>5
<1> QED BY <1>6, <1>7, <1>8

(* A link that runs finds what the links before it have left, and leaves   *)
(* its own work behind theirs.                                             *)
LEMMA RunLinkOrder ==
  ASSUME OrderInv, RunLink
  PROVE  (ChainFollows /\ TablesFollow /\ ReadsRight)'
<1> DEFINE n == Len(invoked)
           o == Head(chain)
<1>0. TypeOK /\ ChainFollows /\ TablesFollow /\ ReadsRight /\ ChainIsPending
  BY DEF OrderInv, StoreInv
<1>1. /\ Len(chain) \in Nat /\ n \in Nat /\ Ran \in 0 .. n /\ Ran + Len(chain) = n
      /\ \A i \in 1 .. n : invoked[i] \in Ops
  BY <1>0, Lengths
<1>2. /\ o \in Ops /\ o = chain[1] /\ Len(chain) \in Nat \ {0}
      /\ Len(chain') = Len(chain) - 1
      /\ \A i \in 1 .. Len(chain') : chain'[i] = chain[i + 1]
  <2>1. chain \in Seq(Ops) /\ chain # <<>> /\ chain' = Tail(chain)
    BY <1>0 DEF TypeOK, RunLink
  <2> QED BY <2>1, ChainMoves
<1>3. /\ closed => op' = [op EXCEPT ![o] = "refused"] /\ UNCHANGED result
      /\ ~closed => Effect(o)
      /\ UNCHANGED <<closed, invoked>>
  BY DEF RunLink
<1>4. op \in [Ops -> OpStates] /\ result \in [Ops -> Results] /\ kv \in [Keys -> Values]
  BY <1>0 DEF TypeOK
<1>5. Ran' = Ran + 1 /\ Ran + 1 \in 1 .. n /\ invoked[Ran + 1] = o
  <2>1. 1 \in 1 .. Len(chain) /\ chain[1] = invoked[Ran + 1]
    BY <1>0, <1>2 DEF ChainFollows
  <2> QED BY <1>1, <1>2, <1>3, <2>1 DEF Ran
<1>6. /\ op[o] = "pending"
      /\ op'[o] \in {"done", "failed", "refused"}
      /\ \A p \in Ops \ {o} : op'[p] = op[p] /\ result'[p] = result[p]
  <2>1. op[o] = "pending"
    <3>1. o \in ToSet(chain)
      BY <1>2 DEF ToSet
    <3> QED BY <1>0, <3>1 DEF ChainIsPending
  <2>2. CASE closed
    BY <1>2, <1>3, <1>4, <2>1, <2>2
  <2>3. CASE ~closed
    BY <1>2, <1>3, <1>4, <2>1, <2>3 DEF Effect
  <2> QED BY <2>2, <2>3
<1> HIDE DEF o
<1>7. \A i \in 1 .. Ran : invoked[i] \in Ops \ {o}
  BY <1>0, <1>1, <1>6 DEF ChainFollows
<1>s. /\ \A j, kind : Before(j, kind)' = Before(j, kind)
      /\ \A j, k, value : LastSet(j, k, value)' <=> LastSet(j, k, value)
      /\ \A j, p, found : FoundRight(j, p, found)' <=> FoundRight(j, p, found)
  BY <1>3 DEF Before, LastSet, FoundRight
<1>8. ChainFollows'
  <2>1. ASSUME NEW i \in 1 .. Len(chain') PROVE chain'[i] = invoked'[Ran' + i]
    <3>1. i + 1 \in 1 .. Len(chain) /\ Ran + (i + 1) = (Ran + 1) + i
      BY <1>1, <1>2
    <3>2. chain[i + 1] = invoked[Ran + (i + 1)]
      BY <1>0, <3>1 DEF ChainFollows
    <3> QED BY <1>2, <1>3, <1>5, <3>1, <3>2
  <2>2. ASSUME NEW i \in 1 .. Ran' PROVE op'[invoked'[i]] \notin {"new", "pending"}
    <3>1. CASE i \in 1 .. Ran
      BY <1>0, <1>3, <1>6, <1>7, <3>1 DEF ChainFollows
    <3>2. CASE i = Ran + 1
      BY <1>3, <1>5, <1>6, <3>2
    <3> QED BY <1>1, <1>5, <2>2, <3>1, <3>2
  <2>3. Len(chain') <= Len(invoked')
    BY <1>1, <1>2, <1>3
  <2> QED BY <2>1, <2>2, <2>3 DEF ChainFollows
<1>b. ASSUME NEW kind
      PROVE  Before(Ran + 2, kind) = Before(Ran + 1, kind)
                 \cup (IF Kind[o] = kind THEN {Ran + 1} ELSE {})
  <2>1. 1 .. (Ran + 2) - 1 = (1 .. (Ran + 1) - 1) \cup {Ran + 1}
    BY <1>1
  <2> QED BY <1>5, <2>1 DEF Before
<1>9. TablesFollow'
  <2>1. SUFFICES ASSUME ~closed
                 PROVE  /\ events' = {EventOf[invoked[i]] : i \in Before(Ran + 2, "append")}
                        /\ \A k \in Keys : LastSet(Ran + 2, k, kv'[k])
    BY <1>1, <1>3, <1>5, <1>s DEF TablesFollow
  <2>2. /\ events = {EventOf[invoked[i]] : i \in Before(Ran + 1, "append")}
        /\ \A k \in Keys : LastSet(Ran + 1, k, kv[k])
    BY <1>0, <2>1 DEF TablesFollow
  <2>3. /\ kv' = IF Kind[o] = "set" THEN [kv EXCEPT ![KeyOf[o]] = o] ELSE kv
        /\ events' = IF Kind[o] = "append" THEN events \cup {EventOf[o]} ELSE events
    BY <1>3, <2>1 DEF Effect
  <2>4. events' = {EventOf[invoked[i]] : i \in Before(Ran + 2, "append")}
    BY <1>5, <1>b, <2>2, <2>3
  <2>5. ASSUME NEW k \in Keys PROVE LastSet(Ran + 2, k, kv'[k])
    <3> DEFINE before == {i \in Before(Ran + 1, "set") : KeyOf[invoked[i]] = k}
               sets == {i \in Before(Ran + 2, "set") : KeyOf[invoked[i]] = k}
    <3>1. CASE Kind[o] = "set" /\ KeyOf[o] = k
      <4>1. kv'[k] = o
        BY <1>4, <2>3, <3>1
      <4>2. Ran + 1 \in sets /\ \A i \in sets : i <= Ran + 1
        BY <1>1, <1>5, <1>b, <3>1 DEF Before
      <4> HIDE DEF sets
      <4>3. sets # {} /\ \E i \in sets : kv'[k] = invoked[i] /\ \A m \in sets : m <= i
        BY <1>5, <4>1, <4>2
      <4> QED BY <4>3 DEF LastSet, sets
    <3>2. CASE ~(Kind[o] = "set" /\ KeyOf[o] = k)
      <4>1. kv'[k] = kv[k]
        BY <1>4, <2>3, <3>2
      <4>2. sets = before
        BY <1>5, <1>b, <3>2
      <4>3. LastSet(Ran + 1, k, kv[k])
        BY <2>2
      <4> QED BY <4>1, <4>2, <4>3 DEF LastSet
    <3> QED BY <3>1, <3>2
  <2> QED BY <2>4, <2>5
<1>10. ReadsRight'
  <2>1. SUFFICES ASSUME NEW j \in 1 .. n, op'[invoked[j]] = "done"
                 PROVE  FoundRight(j, invoked[j], result'[invoked[j]])
    BY <1>3, <1>s DEF ReadsRight
  <2>2. CASE invoked[j] # o
    <3>1. op[invoked[j]] = "done" /\ result'[invoked[j]] = result[invoked[j]]
      BY <1>1, <1>6, <2>1, <2>2
    <3> QED BY <1>0, <2>1, <3>1 DEF ReadsRight
  <2>3. CASE invoked[j] = o
    <3>1. ~closed /\ Effect(o)
      BY <1>2, <1>3, <1>4, <2>1, <2>3
    <3>2. result'[o] = Answer(o)
      BY <1>2, <1>4, <3>1 DEF Effect
    <3>3. /\ events = {EventOf[invoked[i]] : i \in Before(Ran + 1, "append")}
          /\ \A k \in Keys : LastSet(Ran + 1, k, kv[k])
      BY <1>0, <3>1 DEF TablesFollow
    <3>4. FoundRight(Ran + 1, o, Answer(o))
      BY <1>2, <3>3, StoreAssumption DEF FoundRight, Answer
    <3>5. j = Ran + 1
      <4>1. j \notin 1 .. Ran
        BY <1>7, <2>3
      <4>2. j - Ran \in 1 .. Len(chain) /\ Ran + (j - Ran) = j
        BY <1>1, <2>1, <4>1
      <4>3. chain[j - Ran] = invoked[j]
        BY <1>0, <4>2 DEF ChainFollows
      <4>4. 1 \in 1 .. Len(chain) /\ chain[1] = chain[j - Ran]
        BY <1>2, <2>3, <4>3
      <4>5. j - Ran = 1
        BY <1>0, <4>2, <4>4 DEF ChainIsPending
      <4> QED BY <1>1, <2>1, <4>5
    <3> QED BY <2>3, <3>2, <3>4, <3>5
  <2> QED BY <2>2, <2>3
<1> QED BY <1>8, <1>9, <1>10

LEMMA OrderStep ==
  ASSUME OrderInv, [StoreNext]_storeVars
  PROVE  OrderInv'
<1>1. StoreInv'
  BY StoreStep DEF OrderInv
<1>2. ASSUME UNCHANGED <<op, result, kv, events, chain, invoked>>, closed => closed'
      PROVE  (ChainFollows /\ TablesFollow /\ ReadsRight)'
  <2>1. /\ \A j, kind : Before(j, kind)' = Before(j, kind)
        /\ \A j, k, value : LastSet(j, k, value)' <=> LastSet(j, k, value)
        /\ \A j, o, found : FoundRight(j, o, found)' <=> FoundRight(j, o, found)
        /\ Ran' = Ran
    BY <1>2 DEF Before, LastSet, FoundRight, Ran
  <2>2. ChainFollows'
    BY <1>2, <2>1 DEF OrderInv, ChainFollows
  <2>3. TablesFollow'
    BY <1>2, <2>1 DEF OrderInv, TablesFollow
  <2>4. ReadsRight'
    BY <1>2, <2>1 DEF OrderInv, ReadsRight
  <2> QED BY <2>2, <2>3, <2>4
<1>3. CASE RunLink
  BY <1>1, <1>3, RunLinkOrder DEF OrderInv
<1>4. ASSUME NEW o \in Ops, WithLock(o) PROVE OrderInv'
  BY <1>1, <1>4, WithLockOrder DEF OrderInv
<1>5. ASSUME NEW c \in Closers, CloseCalled(c) \/ CloseResumes(c) PROVE OrderInv'
  <2>1. UNCHANGED <<op, result, kv, events, chain, invoked>> /\ (closed => closed')
    BY <1>5 DEF CloseCalled, CloseResumes
  <2> QED BY <1>1, <1>2, <2>1 DEF OrderInv
<1>6. CASE UNCHANGED storeVars
  BY <1>1, <1>2, <1>6 DEF OrderInv, storeVars
<1> QED BY <1>3, <1>4, <1>5, <1>6 DEF StoreNext

(* Operations of all agents take effect in the order they were invoked in: *)
(* a get or a query sees every write invoked before it and none after.     *)
THEOREM ReadsSeeTheirPast == StoreSpec => []ReadsSeeEarlierWrites
<1>1. StoreInit => OrderInv
  <2>1. SUFFICES ASSUME StoreInit PROVE ChainFollows /\ TablesFollow /\ ReadsRight
    BY StoreInit_Inv DEF OrderInv
  <2>2. Len(chain) = 0 /\ Len(invoked) = 0 /\ Ran = 0
    BY <2>1 DEF StoreInit, Ran
  <2>3. \A kind : Before(Ran + 1, kind) = {}
    BY <2>2 DEF Before
  <2>4. TablesFollow
    BY <2>1, <2>3 DEF TablesFollow, LastSet, StoreInit, Init
  <2> QED BY <2>2, <2>4 DEF ChainFollows, ReadsRight
<1>2. OrderInv /\ [StoreNext]_storeVars => OrderInv'
  BY OrderStep
<1>3. OrderInv => ReadsSeeEarlierWrites
  BY ReadsRightIsProperty DEF OrderInv
<1> QED BY <1>1, <1>2, <1>3, PTL DEF StoreSpec
-----------------------------------------------------------------------------
(* What is left of a call: both of its writes, or the timestamp.           *)
Both(p, v) == <<Write(p, "secret", v), Write(p, "at", v)>>
Stamp(p, v) == <<Write(p, "at", v)>>

Contents == [EntryKeys -> 0 .. made]
Todos == {Both(p, v) : p \in Providers, v \in 0 .. made}
             \cup {Stamp(p, v) : p \in Providers, v \in 0 .. made}
Calling == [todo : Todos, step : {"load", "truncate", "fill"}, copy : Contents]

CredentialTypes ==
    /\ made \in Nat /\ mixed \in BOOLEAN /\ everMixed \in BOOLEAN
    /\ file \in Contents /\ promised \in Contents
    /\ calls \in [Callers -> {Idle} \cup Calling]

(* While calls do not overlap there is one at most, ...                    *)
OneCall ==
    /\ mixed => everMixed
    /\ ~mixed => \A c, d \in Callers :
           calls[c] # Idle /\ calls[d] # Idle => c = d

(* ... what it still has to do makes of the file, or of the copy that it   *)
(* is about to write, what was promised, ...                               *)
OnTheWay(call) ==
    /\ call.step = "load" => promised = Applied(file, call.todo)
    /\ call.step \in {"truncate", "fill"} =>
           promised = Applied(call.copy, Tail(call.todo))

Exact ==
    ~mixed =>
        /\ Quiet => promised = file
        /\ \A c \in Callers : OnTheWay(calls[c])

(* ... and a timestamp is written behind its secret.                       *)
Vouched(stored) ==
    \A p \in Providers :
        LET at == stored[<<p, "at">>]
            secret == stored[<<p, "secret">>]
        IN at = 0 \/ at \in marks \/ secret = 0 \/ secret >= at

SecretFirst(call) ==
    /\ call.step = "load" =>
          \A p \in Providers, v \in 0 .. made :
             /\ call.todo = Both(p, v) => v \in {0, made}
             /\ call.todo = Stamp(p, v) =>
                    v = 0 \/ v \in marks \/ file[<<p, "secret">>] = v
    /\ call.step \in {"truncate", "fill"} =>
          /\ Vouched(call.copy)
          /\ \A p \in Providers, v \in 0 .. made :
                call.todo = Both(p, v) => call.copy[<<p, "secret">>] = v

Vouching ==
    ~everMixed => Vouched(file) /\ \A c \in Callers : SecretFirst(calls[c])

CredentialInv == CredentialTypes /\ OneCall /\ Exact /\ Vouching

(* The two entries of a provider are two keys.                             *)
LEMMA Entries ==
  /\ \A p \in Providers : <<p, "secret">> \in EntryKeys /\ <<p, "at">> \in EntryKeys
  /\ \A p, q \in Providers : <<p, "secret">> # <<q, "at">>
  /\ \A p, q \in Providers, e \in {"secret", "at"} : <<p, e>> = <<q, e>> => p = q
  /\ \A k \in EntryKeys : \E p \in Providers : k \in {<<p, "secret">>, <<p, "at">>}
BY DEF EntryKeys

LEMMA OnlyChoice ==
  ASSUME NEW k, NEW w, w.key = k, NEW R, R = {w}
  PROVE  (CHOOSE x \in R : x.key = k) = w
OBVIOUS

LEMMA ShortTails ==
  ASSUME NEW a, NEW b
  PROVE  /\ Head(<<a, b>>) = a /\ Tail(<<a, b>>) = <<b>> /\ Len(<<a, b>>) = 2
         /\ Head(<<a>>) = a /\ Tail(<<a>>) = <<>> /\ Len(<<a>>) = 1
OBVIOUS

(* What the writes of a call make of a file.                               *)
LEMMA AppliedNone ==
  ASSUME NEW V, NEW s \in [EntryKeys -> V]
  PROVE  Applied(s, <<>>) = s
<1>1. Len(<<>>) = 0
  OBVIOUS
<1> QED BY <1>1 DEF Applied

LEMMA AppliedLast ==
  ASSUME NEW V, NEW s \in [EntryKeys -> V], NEW p, NEW v
  PROVE  Applied(s, Stamp(p, v)) = [s EXCEPT ![<<p, "at">>] = v]
<1> DEFINE w == Write(p, "at", v)
           ops == Stamp(p, v)
<1>1. w.key = <<p, "at">> /\ w.value = v
  BY DEF Write
<1>2. Len(ops) = 1 /\ ops[1] = w /\ DOMAIN ops = 1 .. 1
  BY DEF Stamp
<1>3. Range(ops) = {w}
  BY <1>2 DEF Range
<1> HIDE DEF ops, w
<1>4. ASSUME NEW k \in EntryKeys
      PROVE  Applied(s, ops)[k] = IF k = <<p, "at">> THEN v ELSE s[k]
  <2>1. (\E i \in 1 .. Len(ops) : ops[i].key = k) <=> k = <<p, "at">>
    BY <1>1, <1>2
  <2>2. k = <<p, "at">> => (CHOOSE op1 \in Range(ops) : op1.key = k) = w
    BY <1>1, <1>3, OnlyChoice
  <2> DEFINE chosen == CHOOSE op1 \in Range(ops) : op1.key = k
  <2>3. Applied(s, ops)[k] =
            IF \E i \in 1 .. Len(ops) : ops[i].key = k THEN chosen.value ELSE s[k]
    BY DEF Applied
  <2> HIDE DEF chosen
  <2>4. k = <<p, "at">> => chosen = w
    BY <2>2 DEF chosen
  <2> QED BY <1>1, <2>1, <2>3, <2>4
<1>5. Applied(s, ops) = [k \in EntryKeys |-> Applied(s, ops)[k]]
  BY DEF Applied
<1> HIDE DEF Applied
<1>6. Applied(s, ops) = [s EXCEPT ![<<p, "at">>] = v]
  BY <1>4, <1>5
<1> QED BY <1>6 DEF ops

LEMMA AppliedBoth ==
  ASSUME NEW V, NEW s \in [EntryKeys -> V], NEW p, NEW v
  PROVE  Applied(s, Both(p, v)) =
             [s EXCEPT ![<<p, "secret">>] = v, ![<<p, "at">>] = v]
<1> DEFINE u == Write(p, "secret", v)
           w == Write(p, "at", v)
           ops == Both(p, v)
<1>1. /\ w.key = <<p, "at">> /\ w.value = v /\ u.key = <<p, "secret">> /\ u.value = v
      /\ u.key # w.key
  BY DEF Write
<1>2. Len(ops) = 2 /\ ops[1] = u /\ ops[2] = w /\ DOMAIN ops = 1 .. 2
  BY DEF Both
<1>3. Range(ops) = {u, w}
  BY <1>2 DEF Range
<1> HIDE DEF ops, u, w
<1>4. ASSUME NEW k \in EntryKeys
      PROVE  Applied(s, ops)[k] =
                 IF k = <<p, "secret">> \/ k = <<p, "at">> THEN v ELSE s[k]
  <2>1. (\E i \in 1 .. Len(ops) : ops[i].key = k) <=> k = <<p, "secret">> \/ k = <<p, "at">>
    <3>1. 1 \in 1 .. Len(ops) /\ 2 \in 1 .. Len(ops) /\ \A i \in 1 .. Len(ops) : i = 1 \/ i = 2
      BY <1>2
    <3> QED BY <1>1, <1>2, <3>1
  <2>2. k = <<p, "at">> => (CHOOSE op1 \in Range(ops) : op1.key = k) = w
    BY <1>1, <1>3
  <2>3. k = <<p, "secret">> => (CHOOSE op1 \in Range(ops) : op1.key = k) = u
    BY <1>1, <1>3
  <2> QED BY <1>1, <2>1, <2>2, <2>3 DEF Applied
<1>5. Applied(s, ops) = [k \in EntryKeys |-> Applied(s, ops)[k]]
  BY DEF Applied
<1> HIDE DEF Applied
<1>6. Applied(s, ops) = [s EXCEPT ![<<p, "secret">>] = v, ![<<p, "at">>] = v]
  BY <1>4, <1>5
<1> QED BY <1>6 DEF ops

(* A call has both of its writes to do, or the last one.                   *)
LEMMA CallShape ==
  ASSUME NEW call \in Calling
  PROVE  \E p \in Providers, v \in 0 .. made :
           \/ /\ call.todo = Both(p, v)
              /\ Head(call.todo) = Write(p, "secret", v)
              /\ Tail(call.todo) = Stamp(p, v)
              /\ Advance(call) =
                   [todo |-> Stamp(p, v), step |-> "load", copy |-> NoSecrets]
           \/ /\ call.todo = Stamp(p, v)
              /\ Head(call.todo) = Write(p, "at", v)
              /\ Tail(call.todo) = <<>>
              /\ Advance(call) = Idle
<1>1. PICK p \in Providers, v \in 0 .. made : call.todo \in {Both(p, v), Stamp(p, v)}
  BY DEF Calling, Todos
<1>2. CASE call.todo = Both(p, v)
  <2>1. Len(Both(p, v)) = 2 /\ Tail(Both(p, v)) = Stamp(p, v)
        /\ Head(Both(p, v)) = Write(p, "secret", v)
    BY ShortTails DEF Both, Stamp
  <2>2. Advance(call) =
            [todo |-> Stamp(p, v), step |-> "load", copy |-> NoSecrets]
    <3>1. Len(call.todo) # 1 /\ Tail(call.todo) = Stamp(p, v)
      BY <1>2, <2>1
    <3>2. Advance(call) =
              [todo |-> Tail(call.todo), step |-> "load", copy |-> NoSecrets]
      BY <3>1 DEF Advance
    <3> QED BY <3>1, <3>2
  <2> QED BY <1>2, <2>1, <2>2
<1>3. CASE call.todo = Stamp(p, v)
  <2>1. Len(Stamp(p, v)) = 1 /\ Tail(Stamp(p, v)) = <<>>
        /\ Head(Stamp(p, v)) = Write(p, "at", v)
    BY ShortTails DEF Stamp
  <2>2. Advance(call) = Idle
    BY <1>3, <2>1 DEF Advance
  <2> QED BY <1>3, <2>1, <2>2
<1> QED BY <1>1, <1>2, <1>3

(* Both(p, v) and Stamp(p, v) say which they are.                           *)
LEMMA TodosDiffer ==
  ASSUME NEW p, NEW v, NEW q, NEW u
  PROVE  /\ Both(p, v) # Stamp(q, u)
         /\ Both(p, v) = Both(q, u) => p = q /\ v = u
         /\ Stamp(p, v) = Stamp(q, u) => p = q /\ v = u
<1>1. Len(Both(p, v)) = 2 /\ Len(Stamp(q, u)) = 1
  BY DEF Both, Stamp
<1>2. \A x : Both(p, v)[1] = Write(p, "secret", v) /\ Both(q, u)[1] = Write(q, "secret", u)
             /\ Stamp(p, v)[1] = Write(p, "at", v) /\ Stamp(q, u)[1] = Write(q, "at", u)
  BY DEF Both, Stamp
<1>3. ASSUME NEW e, Write(p, e, v) = Write(q, e, u) PROVE p = q /\ v = u
  BY <1>3 DEF Write
<1> QED BY <1>1, <1>2, <1>3

LEMMA NothingStored ==
  ASSUME made \in Nat
  PROVE  NoSecrets \in Contents /\ Vouched(NoSecrets)
<1>1. NoSecrets = [k \in EntryKeys |-> 0]
  BY DEF NoSecrets, Absent
<1>2. NoSecrets \in Contents
  BY <1>1 DEF Contents
<1>3. \A p \in Providers : NoSecrets[<<p, "at">>] = 0
  BY <1>1, Entries
<1> QED BY <1>2, <1>3 DEF Vouched

(* What an idle call is.                                                   *)
LEMMA IdleCall ==
  /\ Idle.step = "idle"
  /\ \A call \in Calling : call # Idle /\ call.step \in {"load", "truncate", "fill"}
  /\ OnTheWay(Idle) /\ SecretFirst(Idle)
<1>1. Idle.step = "idle"
  BY DEF Idle
<1>2. \A call \in Calling : call.step \in {"load", "truncate", "fill"}
  BY DEF Calling
<1> QED BY <1>1, <1>2 DEF OnTheWay, SecretFirst

(* More calls of set make no value illegal.                                *)
LEMMA TypesGrow ==
  ASSUME made \in Nat, made' \in Nat, made <= made'
  PROVE  Contents \subseteq Contents' /\ Calling \subseteq Calling'
<1>1. 0 .. made \subseteq 0 .. made'
  OBVIOUS
<1>2. Contents \subseteq Contents'
  BY <1>1 DEF Contents
<1>3. Todos \subseteq Todos'
  BY <1>1 DEF Todos, Both, Stamp
<1> QED BY <1>2, <1>3 DEF Calling

(* A call begins.                                                          *)
LEMMA BeginStep ==
  ASSUME CredentialInv, NEW c \in Callers, NEW p \in Providers, NEW v \in {0, made'},
         NEW todo \in {Both(p, v), Stamp(p, v)}, BeginCall(c, todo),
         made' \in {made, made + 1}, marks \subseteq marks',
         todo = Stamp(p, v) => v \in marks'
  PROVE  CredentialInv'
<1>1. /\ made \in Nat /\ made' \in Nat /\ made <= made'
      /\ file \in Contents /\ promised \in Contents
      /\ calls \in [Callers -> {Idle} \cup Calling]
      /\ mixed \in BOOLEAN /\ everMixed \in BOOLEAN
  BY DEF CredentialInv, CredentialTypes
<1> DEFINE call == [todo |-> todo, step |-> "load", copy |-> NoSecrets]
<1>2. /\ calls[c] = Idle
      /\ calls' = [calls EXCEPT ![c] = call]
      /\ mixed' = ~Quiet
      /\ everMixed' = (everMixed \/ mixed')
      /\ promised' = Applied(IF Quiet THEN file ELSE promised, todo)
      /\ file' = file
  BY DEF BeginCall
<1>3. Contents \subseteq Contents' /\ Calling \subseteq Calling'
  BY <1>1, TypesGrow
<1>4. call \in Calling'
  <2>1. todo \in Todos'
    <3>1. v \in 0 .. made'
      BY <1>1
    <3>2. todo \in {Both(q, u) : q \in Providers, u \in 0 .. made'}
                       \cup {Stamp(q, u) : q \in Providers, u \in 0 .. made'}
      BY <3>1
    <3>3. Todos' = {Both(q, u) : q \in Providers, u \in 0 .. made'}
                       \cup {Stamp(q, u) : q \in Providers, u \in 0 .. made'}
      BY DEF Todos, Both, Stamp
    <3> QED BY <3>2, <3>3
  <2>2. NoSecrets \in Contents
    BY <1>1, NothingStored
  <2> QED BY <1>3, <2>1, <2>2 DEF Calling
<1> HIDE DEF call
<1>5. ASSUME NEW s \in Contents PROVE Applied(s, todo) \in Contents'
  <2>1. s \in [EntryKeys -> 0 .. made'] /\ v \in 0 .. made'
    BY <1>1, <1>3, <1>5 DEF Contents
  <2>2. CASE todo = Both(p, v)
    <3>1. Applied(s, Both(p, v)) = [s EXCEPT ![<<p, "secret">>] = v, ![<<p, "at">>] = v]
      BY ONLY <2>1, AppliedBoth
    <3>2. Applied(s, todo) = [s EXCEPT ![<<p, "secret">>] = v, ![<<p, "at">>] = v]
      BY <2>2, <3>1
    <3> QED BY <2>1, <3>2 DEF Contents
  <2>3. CASE todo = Stamp(p, v)
    <3>1. Applied(s, todo) = [s EXCEPT ![<<p, "at">>] = v]
      BY <2>1, <2>3, AppliedLast
    <3> QED BY <2>1, <3>1 DEF Contents
  <2> QED BY <2>2, <2>3
<1>6. CredentialTypes'
  <2>1. promised' \in Contents'
    BY <1>1, <1>2, <1>5
  <2>2. calls' \in [Callers -> {Idle} \cup Calling']
    BY <1>1, <1>2, <1>3, <1>4
  <2>3. mixed' \in BOOLEAN /\ everMixed' \in BOOLEAN
    BY <1>2
  <2> QED BY <1>1, <1>2, <1>3, <2>1, <2>2, <2>3 DEF CredentialTypes, Idle
<1>7. ASSUME ~mixed' PROVE \A d \in Callers : d # c => calls'[d] = Idle
  BY <1>1, <1>2, <1>7 DEF Quiet
<1>8. calls'[c] = call /\ call.step = "load" /\ call.todo = todo
  BY <1>1, <1>2 DEF call
<1>9. OneCall'
  BY <1>2, <1>7 DEF OneCall, Idle
<1>10. Exact'
  <2>1. SUFFICES ASSUME ~mixed'
                 PROVE  /\ Quiet' => promised' = file'
                        /\ \A d \in Callers : OnTheWay(calls[d])'
    BY DEF Exact
  <2>2. ~Quiet'
    BY <1>8, IdleCall DEF Quiet, Idle
  <2>3. promised' = Applied(file', todo)
    BY <1>2, <2>1
  <2>4. \A d \in Callers : d # c => OnTheWay(calls[d])'
    BY <1>7, <2>1, IdleCall DEF OnTheWay
  <2>5. OnTheWay(calls[c])'
    BY <1>8, <2>3 DEF OnTheWay
  <2> QED BY <2>2, <2>4, <2>5
<1>11. Vouching'
  <2>1. SUFFICES ASSUME ~everMixed'
                 PROVE  Vouched(file)' /\ \A d \in Callers : SecretFirst(calls[d])'
    BY DEF Vouching
  <2>2. ~everMixed /\ ~mixed'
    BY <1>2, <2>1
  <2>3. Vouched(file)'
    <3>1. Vouched(file)
      BY <2>2 DEF CredentialInv, Vouching
    <3> QED BY <1>2, <3>1 DEF Vouched
  <2>4. \A d \in Callers : d # c => SecretFirst(calls[d])'
    BY <1>7, <2>2, IdleCall DEF SecretFirst
  <2>5. ASSUME NEW q \in Providers, NEW u \in 0 .. made'
        PROVE  /\ todo = Both(q, u) => u \in {0, made'}
               /\ todo = Stamp(q, u) => u = 0 \/ u \in marks' \/ file'[<<q, "secret">>] = u
    BY TodosDiffer
  <2>6. SecretFirst(calls[c])'
    BY <1>8, <2>5 DEF SecretFirst, Both, Stamp, Write
  <2> QED BY <2>3, <2>4, <2>6
<1> QED BY <1>6, <1>9, <1>10, <1>11 DEF CredentialInv

(* A call at work is alone, unless calls have overlapped.                  *)
LEMMA AtWork ==
  ASSUME CredentialInv, NEW c \in Callers, calls[c].step \in {"load", "truncate", "fill"}
  PROVE  /\ calls[c] \in Calling /\ calls[c] # Idle
         /\ ~mixed => \A d \in Callers : d # c => calls[d] = Idle
         /\ ~mixed => OnTheWay(calls[c])
         /\ ~everMixed => ~mixed /\ Vouched(file) /\ SecretFirst(calls[c])
<1>1. calls \in [Callers -> {Idle} \cup Calling] /\ mixed \in BOOLEAN
  BY DEF CredentialInv, CredentialTypes
<1>2. calls[c] # Idle
  BY IdleCall
<1> QED BY <1>1, <1>2 DEF CredentialInv, OneCall, Exact, Vouching

(* A step of one call, to be looked at when the others are idle.           *)
LEMMA OneCallStep ==
  ASSUME CredentialInv, NEW c \in Callers, calls[c].step \in {"load", "truncate", "fill"},
         NEW next \in {Idle} \cup Calling,
         calls' = [calls EXCEPT ![c] = next],
         file' \in Contents,
         UNCHANGED <<made, marks, promised, mixed, everMixed>>,
         ~mixed => IF next = Idle THEN promised = file' ELSE OnTheWay(calls[c])',
         ~everMixed => Vouched(file') /\ SecretFirst(calls[c])'
  PROVE  CredentialInv'
<1>1. /\ calls \in [Callers -> {Idle} \cup Calling]
      /\ made \in Nat /\ mixed \in BOOLEAN /\ everMixed \in BOOLEAN /\ promised \in Contents
  BY DEF CredentialInv, CredentialTypes
<1>2. Contents' = Contents /\ Calling' = Calling
  BY DEF Contents, Calling, Todos, Both, Stamp
<1>3. calls'[c] = next /\ \A d \in Callers : d # c => calls'[d] = calls[d]
  BY <1>1
<1>4. CredentialTypes'
  <2>1. calls' \in [Callers -> {Idle} \cup Calling']
    BY <1>1, <1>2
  <2> QED BY <1>1, <1>2, <2>1 DEF CredentialTypes, Idle
<1>5. OneCall'
  <2>1. mixed => everMixed
    BY DEF CredentialInv, OneCall
  <2>2. ~mixed => \A d \in Callers : d # c => calls'[d] = Idle
    BY <1>3, AtWork
  <2> QED BY <2>1, <2>2 DEF OneCall, Idle
<1>6. Exact'
  <2>1. SUFFICES ASSUME ~mixed
                 PROVE  /\ Quiet' => promised' = file'
                        /\ \A d \in Callers : OnTheWay(calls[d])'
    BY DEF Exact
  <2>2. \A d \in Callers : d # c => calls'[d] = Idle
    BY <1>3, <2>1, AtWork
  <2>3. \A d \in Callers : d # c => OnTheWay(calls[d])'
    BY <2>2, IdleCall DEF OnTheWay
  <2>4. CASE next = Idle
    BY <1>3, <2>1, <2>3, <2>4, IdleCall DEF OnTheWay
  <2>5. CASE next # Idle
    BY <1>3, <2>1, <2>3, <2>5 DEF Quiet, Idle
  <2> QED BY <2>4, <2>5
<1>7. Vouching'
  <2>1. SUFFICES ASSUME ~everMixed
                 PROVE  Vouched(file)' /\ \A d \in Callers : SecretFirst(calls[d])'
    BY DEF Vouching
  <2>2. \A d \in Callers : d # c => calls'[d] = Idle
    BY <1>3, <2>1, AtWork
  <2>3. \A d \in Callers : d # c => SecretFirst(calls[d])'
    BY <2>2, IdleCall DEF SecretFirst
  <2>4. Vouched(file)'
    BY <2>1 DEF Vouched
  <2> QED BY <2>1, <2>3, <2>4
<1> QED BY <1>4, <1>5, <1>6, <1>7 DEF CredentialInv

(* writeFile empties the file ...                                          *)
LEMMA TruncateStep ==
  ASSUME CredentialInv, NEW c \in Callers, Truncate(c)
  PROVE  CredentialInv'
<1> DEFINE call == calls[c]
           next == [call EXCEPT !.step = "fill"]
<1>1. /\ call.step = "truncate" /\ calls' = [calls EXCEPT ![c] = next]
      /\ file' = NoSecrets
      /\ UNCHANGED <<made, marks, promised, mixed, everMixed>>
  <2>1. calls' = [calls EXCEPT ![c].step = "fill"] /\ call.step = "truncate"
    BY DEF Truncate
  <2>2. calls \in [Callers -> {Idle} \cup Calling]
    BY DEF CredentialInv, CredentialTypes
  <2>3. calls' = [calls EXCEPT ![c] = next]
    BY <2>1, <2>2
  <2> QED BY <2>1, <2>3 DEF Truncate
<1>2. /\ call \in Calling
      /\ ~mixed => OnTheWay(call)
      /\ ~everMixed => SecretFirst(call)
  BY <1>1, AtWork
<1>3. next \in Calling /\ next.step = "fill" /\ next.todo = call.todo /\ next.copy = call.copy
  BY <1>2 DEF Calling
<1>4. calls'[c] = next
  BY <1>1 DEF CredentialInv, CredentialTypes
<1> HIDE DEF next
<1>5. file' \in Contents /\ Vouched(file')
  <2>1. made \in Nat
    BY DEF CredentialInv, CredentialTypes
  <2> QED BY <1>1, <2>1, NothingStored DEF Vouched
<1>6. ~mixed => OnTheWay(calls[c])'
  <2>1. ~mixed => promised' = Applied(next.copy, Tail(next.todo))
    BY <1>1, <1>2, <1>3 DEF OnTheWay
  <2> QED BY <1>3, <1>4, <2>1 DEF OnTheWay
<1>7. ~everMixed => SecretFirst(calls[c])'
  <2>1. SUFFICES ASSUME ~everMixed PROVE SecretFirst(calls[c])'
    OBVIOUS
  <2>2. /\ Vouched(call.copy)
        /\ \A p \in Providers, v \in 0 .. made :
              call.todo = Both(p, v) => call.copy[<<p, "secret">>] = v
    BY <1>1, <1>2, <2>1 DEF SecretFirst
  <2>3. Vouched(call.copy)' <=> Vouched(next.copy)
    BY <1>1, <1>3, <1>4 DEF Vouched
  <2> QED BY <1>1, <1>3, <1>4, <2>2, <2>3 DEF SecretFirst, Both, Write
<1>8. next # Idle
  BY <1>3, IdleCall
<1> QED BY <1>1, <1>3, <1>5, <1>6, <1>7, <1>8, OneCallStep

(* ... and fills it with the copy.                                         *)
LEMMA FillStep ==
  ASSUME CredentialInv, NEW c \in Callers, Fill(c)
  PROVE  CredentialInv'
<1> DEFINE call == calls[c]
           next == Advance(call)
<1>1. /\ call.step = "fill" /\ calls' = [calls EXCEPT ![c] = next]
      /\ file' = call.copy
      /\ UNCHANGED <<made, marks, promised, mixed, everMixed>>
  BY DEF Fill
<1>2. /\ call \in Calling
      /\ ~mixed => promised = Applied(call.copy, Tail(call.todo))
      /\ ~everMixed => SecretFirst(call)
  BY <1>1, AtWork DEF OnTheWay
<1>3. calls'[c] = next /\ made \in Nat
  BY <1>1 DEF CredentialInv, CredentialTypes
<1>4. call.copy \in Contents
  BY <1>2 DEF Calling
<1>5. ~everMixed => Vouched(file')
  <2>1. ~everMixed => Vouched(call.copy)
    BY <1>1, <1>2 DEF SecretFirst
  <2> QED BY <1>1, <2>1 DEF Vouched
<1>6. PICK p \in Providers, v \in 0 .. made :
           \/ /\ call.todo = Both(p, v)
              /\ Tail(call.todo) = Stamp(p, v)
              /\ next = [todo |-> Stamp(p, v), step |-> "load", copy |-> NoSecrets]
           \/ /\ call.todo = Stamp(p, v)
              /\ Tail(call.todo) = <<>>
              /\ next = Idle
  BY <1>2, CallShape
<1> HIDE DEF next
<1>7. CASE call.todo = Stamp(p, v)
  <2>1. next = Idle /\ Tail(call.todo) = <<>>
    BY <1>6, <1>7, TodosDiffer
  <2>2. ~mixed => promised = file'
    BY <1>1, <1>2, <1>4, <2>1, AppliedNone DEF Contents
  <2>3. SecretFirst(calls[c])'
    BY <1>3, <2>1, IdleCall DEF SecretFirst
  <2> QED BY <1>1, <1>4, <1>5, <2>1, <2>2, <2>3, OneCallStep
<1>8. CASE call.todo = Both(p, v)
  <2>1. next = [todo |-> Stamp(p, v), step |-> "load", copy |-> NoSecrets]
        /\ Tail(call.todo) = Stamp(p, v)
    BY <1>6, <1>8, TodosDiffer
  <2>2. next.step = "load" /\ next.todo = Stamp(p, v)
    BY <2>1
  <2>3. next \in Calling /\ next # Idle
    <3>1. NoSecrets \in Contents /\ Stamp(p, v) \in Todos
      BY <1>3, NothingStored DEF Todos
    <3>2. next \in Calling
      BY <2>1, <3>1 DEF Calling
    <3> QED BY <2>2, <3>2, IdleCall
  <2>4. ~mixed => OnTheWay(calls[c])'
    <3>1. ~mixed => promised' = Applied(file', Stamp(p, v))
      BY <1>1, <1>2, <2>1
    <3> QED BY <1>3, <2>2, <3>1 DEF OnTheWay
  <2>5. ~everMixed => SecretFirst(calls[c])'
    <3>1. ~everMixed => file'[<<p, "secret">>] = v
      BY <1>1, <1>2, <1>8 DEF SecretFirst
    <3>2. \A q \in Providers, u \in 0 .. made :
             Stamp(p, v) # Both(q, u) /\ (Stamp(p, v) = Stamp(q, u) => p = q /\ v = u)
      BY TodosDiffer
    <3> QED BY <1>1, <1>3, <2>2, <3>1, <3>2 DEF SecretFirst, Both, Stamp, Write
  <2> QED BY <1>1, <1>4, <1>5, <2>3, <2>4, <2>5, OneCallStep
<1> QED BY <1>6, <1>7, <1>8

(* The file is read, and the copy changed; or there is nothing to remove.  *)
LEMMA LoadStep ==
  ASSUME CredentialInv, NEW c \in Callers, Load(c)
  PROVE  CredentialInv'
<1> DEFINE call == calls[c]
           w == Head(call.todo)
           copy == [file EXCEPT ![w.key] = w.value]
           changed == [call EXCEPT !.step = "truncate", !.copy = copy]
           ended == Advance(call)
<1>1. /\ call.step = "load"
      /\ calls' = [calls EXCEPT ![c] =
                      IF w.value = 0 /\ file[w.key] = 0 THEN ended ELSE changed]
      /\ UNCHANGED <<file, made, marks, promised, mixed, everMixed>>
  BY DEF Load, Absent
<1>2. /\ call \in Calling
      /\ ~mixed => promised = Applied(file, call.todo)
      /\ ~everMixed => Vouched(file) /\ SecretFirst(call)
  BY <1>1, AtWork DEF OnTheWay
<1>3. /\ file \in [EntryKeys -> 0 .. made] /\ made \in Nat
      /\ calls \in [Callers -> {Idle} \cup Calling]
  BY DEF CredentialInv, CredentialTypes, Contents
<1>4. file' \in Contents /\ (~everMixed => Vouched(file'))
  BY <1>1, <1>2, <1>3 DEF Contents, Vouched
<1>5. PICK p \in Providers, v \in 0 .. made :
           \/ /\ call.todo = Both(p, v)
              /\ w = Write(p, "secret", v)
              /\ Tail(call.todo) = Stamp(p, v)
              /\ ended = [todo |-> Stamp(p, v), step |-> "load", copy |-> NoSecrets]
           \/ /\ call.todo = Stamp(p, v)
              /\ w = Write(p, "at", v)
              /\ Tail(call.todo) = <<>>
              /\ ended = Idle
  BY <1>2, CallShape
<1>6. <<p, "secret">> \in EntryKeys /\ <<p, "at">> \in EntryKeys
      /\ <<p, "secret">> # <<p, "at">>
  BY Entries
<1>7. w.value = v /\ w.key \in {<<p, "secret">>, <<p, "at">>}
  BY <1>5 DEF Write
<1>8. /\ copy \in Contents /\ changed \in Calling
      /\ changed.step = "truncate" /\ changed.copy = copy /\ changed.todo = call.todo
  <2>1. copy \in Contents
    BY <1>3, <1>6, <1>7 DEF Contents
  <2> HIDE DEF copy
  <2> QED BY <1>2, <2>1 DEF Calling
<1>9. ASSUME NEW q \in Providers, NEW u \in 0 .. made
      PROVE  /\ call.todo = Both(p, v) => call.todo # Stamp(q, u)
             /\ call.todo = Stamp(p, v) => call.todo # Both(q, u)
             /\ call.todo = Both(p, v) /\ call.todo = Both(q, u) => p = q /\ v = u
             /\ call.todo = Stamp(p, v) /\ call.todo = Stamp(q, u) => p = q /\ v = u
             /\ Stamp(p, v) # Both(q, u) /\ (Stamp(p, v) = Stamp(q, u) => p = q /\ v = u)
  BY TodosDiffer
<1>10. CASE call.todo = Both(p, v)
  <2>1. w.key = <<p, "secret">> /\ Tail(call.todo) = Stamp(p, v)
    BY <1>5, <1>10, TodosDiffer DEF Write
  <2>2. ended = [todo |-> Stamp(p, v), step |-> "load", copy |-> NoSecrets]
    BY <1>5, <1>10, TodosDiffer
  <2> HIDE DEF ended, changed, w
  <2>3. CASE v = 0 /\ file[<<p, "secret">>] = 0
    <3>1. calls' = [calls EXCEPT ![c] = ended] /\ calls'[c] = ended
      BY <1>1, <1>3, <1>7, <2>1, <2>3
    <3>2. ended.step = "load" /\ ended.todo = Stamp(p, v)
      BY <2>2
    <3>3. ended \in Calling /\ ended # Idle
      <4>1. NoSecrets \in Contents /\ Stamp(p, v) \in Todos
        BY <1>3, NothingStored DEF Todos
      <4>2. ended \in Calling
        BY <2>2, <4>1 DEF Calling
      <4> QED BY <3>2, <4>2, IdleCall
    <3>4. ~mixed => OnTheWay(calls[c])'
      <4>1. Applied(file, Both(p, v)) = Applied(file, Stamp(p, v))
        <5>1. Applied(file, Both(p, v)) =
                  [file EXCEPT ![<<p, "secret">>] = v, ![<<p, "at">>] = v]
          BY <1>3, AppliedBoth
        <5>2. Applied(file, Stamp(p, v)) = [file EXCEPT ![<<p, "at">>] = v]
          BY <1>3, AppliedLast
        <5> QED BY <1>3, <1>6, <2>3, <5>1, <5>2
      <4>2. ~mixed => promised' = Applied(file', ended.todo)
        BY <1>1, <1>2, <1>10, <3>2, <4>1
      <4> QED BY <3>1, <3>2, <4>2 DEF OnTheWay
    <3>5. SecretFirst(calls[c])'
      BY <1>1, <1>9, <2>3, <3>1, <3>2 DEF SecretFirst, Both, Stamp, Write
    <3> QED BY <1>1, <1>4, <3>1, <3>3, <3>4, <3>5, OneCallStep
  <2>4. CASE ~(v = 0 /\ file[<<p, "secret">>] = 0)
    <3>1. calls' = [calls EXCEPT ![c] = changed] /\ calls'[c] = changed
      BY <1>1, <1>3, <1>7, <2>1, <2>4
    <3>2. changed # Idle
      BY <1>8, IdleCall
    <3>3. copy = [file EXCEPT ![<<p, "secret">>] = v]
      BY <1>7, <2>1
    <3>4. ~mixed => OnTheWay(calls[c])'
      <4>1. Applied(file, Both(p, v)) = Applied(copy, Stamp(p, v))
        <5>1. Applied(file, Both(p, v)) =
                  [file EXCEPT ![<<p, "secret">>] = v, ![<<p, "at">>] = v]
          BY <1>3, AppliedBoth
        <5>2. Applied(copy, Stamp(p, v)) = [copy EXCEPT ![<<p, "at">>] = v]
          <6>1. copy \in [EntryKeys -> 0 .. made]
            BY <1>8 DEF Contents
          <6> HIDE DEF copy
          <6> QED BY <6>1, AppliedLast
        <5> QED BY <1>3, <1>6, <3>3, <5>1, <5>2
      <4>2. ~mixed => promised' = Applied(changed.copy, Tail(changed.todo))
        BY <1>1, <1>2, <1>8, <1>10, <2>1, <4>1
      <4> QED BY <1>8, <3>1, <4>2 DEF OnTheWay
    <3>5. ~everMixed => SecretFirst(calls[c])'
      <4>1. copy[<<p, "secret">>] = v
        BY <1>3, <1>6, <3>3
      <4>2. ~everMixed => v \in {0, made}
        BY <1>1, <1>2, <1>10 DEF SecretFirst
      <4>3. ~everMixed => Vouched(copy)
        <5>1. SUFFICES ASSUME ~everMixed, NEW q \in Providers
                       PROVE  \/ copy[<<q, "at">>] = 0 \/ copy[<<q, "at">>] \in marks
                              \/ copy[<<q, "secret">>] = 0
                              \/ copy[<<q, "secret">>] >= copy[<<q, "at">>]
          BY DEF Vouched
        <5>2. copy[<<q, "at">>] = file[<<q, "at">>] /\ file[<<q, "at">>] \in 0 .. made
          BY <1>3, <3>3, Entries
        <5>3. CASE q = p
          BY <1>3, <4>1, <4>2, <5>1, <5>2, <5>3
        <5>4. CASE q # p
          <6>1. copy[<<q, "secret">>] = file[<<q, "secret">>]
            BY <1>3, <3>3, <5>4, Entries
          <6> QED BY <1>2, <5>1, <5>2, <6>1 DEF Vouched
        <5> QED BY <5>3, <5>4
      <4> HIDE DEF copy
      <4> HIDE DEF call
      <4>4. Vouched(calls[c].copy)' <=> Vouched(copy)
        BY <1>1, <1>8, <3>1 DEF Vouched
      <4>5. \A q \in Providers, u \in 0 .. made :
               changed.todo = Both(q, u) => changed.copy[<<q, "secret">>] = u
        BY <1>8, <1>9, <1>10, <4>1
      <4> QED BY <1>1, <1>8, <3>1, <4>3, <4>4, <4>5 DEF SecretFirst, Both, Write
    <3> QED BY <1>1, <1>4, <1>8, <3>1, <3>2, <3>4, <3>5, OneCallStep
  <2> QED BY <2>3, <2>4
<1>11. CASE call.todo = Stamp(p, v)
  <2>1. w.key = <<p, "at">> /\ Tail(call.todo) = <<>> /\ ended = Idle
    BY <1>5, <1>11, TodosDiffer DEF Write
  <2>2. Applied(file, Stamp(p, v)) = [file EXCEPT ![<<p, "at">>] = v]
    BY <1>3, AppliedLast
  <2> HIDE DEF ended, changed, w
  <2>3. CASE v = 0 /\ file[<<p, "at">>] = 0
    <3>1. calls' = [calls EXCEPT ![c] = Idle] /\ calls'[c] = Idle
      BY <1>1, <1>3, <1>7, <2>1, <2>3
    <3>2. ~mixed => promised = file'
      BY <1>1, <1>2, <1>3, <1>11, <2>2, <2>3
    <3>3. SecretFirst(calls[c])'
      BY <3>1, IdleCall DEF SecretFirst
    <3> QED BY <1>1, <1>4, <3>1, <3>2, <3>3, OneCallStep
  <2>4. CASE ~(v = 0 /\ file[<<p, "at">>] = 0)
    <3>1. calls' = [calls EXCEPT ![c] = changed] /\ calls'[c] = changed
      BY <1>1, <1>3, <1>7, <2>1, <2>4
    <3>2. changed # Idle
      BY <1>8, IdleCall
    <3>3. copy = [file EXCEPT ![<<p, "at">>] = v]
      BY <1>7, <2>1
    <3>4. ~mixed => OnTheWay(calls[c])'
      <4>1. ~mixed => promised' = Applied(changed.copy, Tail(changed.todo))
        <5>1. Applied(copy, <<>>) = copy
          BY <1>8, AppliedNone DEF Contents
        <5> QED BY <1>1, <1>2, <1>8, <1>11, <2>1, <2>2, <3>3, <5>1
      <4> QED BY <1>8, <3>1, <4>1 DEF OnTheWay
    <3>5. ~everMixed => SecretFirst(calls[c])'
      <4>1. ~everMixed => v = 0 \/ v \in marks \/ file[<<p, "secret">>] = v
        BY <1>1, <1>2, <1>11 DEF SecretFirst
      <4>2. ~everMixed => Vouched(copy)
        <5>1. SUFFICES ASSUME ~everMixed, NEW q \in Providers
                       PROVE  \/ copy[<<q, "at">>] = 0 \/ copy[<<q, "at">>] \in marks
                              \/ copy[<<q, "secret">>] = 0
                              \/ copy[<<q, "secret">>] >= copy[<<q, "at">>]
          BY DEF Vouched
        <5>2. copy[<<q, "secret">>] = file[<<q, "secret">>]
          BY <1>3, <3>3, Entries
        <5>3. CASE q = p
          BY <1>3, <1>6, <3>3, <4>1, <5>1, <5>2, <5>3
        <5>4. CASE q # p
          <6>1. copy[<<q, "at">>] = file[<<q, "at">>]
            BY <1>3, <3>3, <5>4, Entries
          <6> QED BY <1>2, <5>1, <5>2, <6>1 DEF Vouched
        <5> QED BY <5>3, <5>4
      <4> HIDE DEF copy, call
      <4>3. Vouched(calls[c].copy)' <=> Vouched(copy)
        BY <1>1, <1>8, <3>1 DEF Vouched
      <4>4. \A q \in Providers, u \in 0 .. made : changed.todo # Both(q, u)
        BY <1>8, <1>9, <1>11
      <4> QED BY <1>1, <1>8, <3>1, <4>2, <4>3, <4>4 DEF SecretFirst, Both, Write
    <3> QED BY <1>1, <1>4, <1>8, <3>1, <3>2, <3>4, <3>5, OneCallStep
  <2> QED BY <2>3, <2>4
<1> QED BY <1>5, <1>10, <1>11

(* The process ends; what the file holds now is what it will hold.         *)
LEMMA CrashStep ==
  ASSUME CredentialInv, Crash
  PROVE  CredentialInv'
<1>1. /\ calls' = [c \in Callers |-> Idle] /\ promised' = file
      /\ UNCHANGED <<file, made, marks, mixed, everMixed>>
  BY DEF Crash
<1>2. CredentialTypes'
  BY <1>1 DEF CredentialInv, CredentialTypes, Contents, Idle
<1>3. OneCall' /\ Exact'
  BY <1>1, IdleCall DEF CredentialInv, OneCall, Exact, OnTheWay, Idle
<1>4. Vouching'
  <2>1. \A c \in Callers : SecretFirst(calls[c])'
    BY <1>1, IdleCall DEF SecretFirst
  <2> QED BY <1>1, <2>1 DEF CredentialInv, Vouching, Vouched
<1> QED BY <1>2, <1>3, <1>4 DEF CredentialInv

LEMMA CredentialStart == CredentialInit => CredentialInv
<1> SUFFICES ASSUME CredentialInit PROVE CredentialInv
  OBVIOUS
<1>1. /\ file = NoSecrets /\ promised = NoSecrets
      /\ calls = [c \in Callers |-> Idle]
      /\ made = 0 /\ mixed = FALSE /\ everMixed = FALSE
  BY DEF CredentialInit
<1>2. NoSecrets \in Contents /\ Vouched(NoSecrets)
  BY <1>1, NothingStored
<1>3. CredentialTypes
  BY <1>1, <1>2 DEF CredentialTypes
<1>4. OneCall /\ Exact /\ Vouching
  BY <1>1, <1>2, IdleCall DEF OneCall, Exact, Vouching
<1> QED BY <1>3, <1>4 DEF CredentialInv

LEMMA CredentialStep ==
  ASSUME CredentialInv, [CredentialNext]_(credentialVars)
  PROVE  CredentialInv'
<1>0. made \in Nat
  BY DEF CredentialInv, CredentialTypes
<1>1. ASSUME NEW c \in Callers, NEW p \in Providers, Set(c, p) PROVE CredentialInv'
  <2>1. BeginCall(c, Both(p, made')) /\ made' = made + 1 /\ marks' = marks
    BY <1>1 DEF Set, Both
  <2>2. Both(p, made') # Stamp(p, made')
    BY TodosDiffer
  <2> QED BY <2>1, <2>2, BeginStep
<1>2. ASSUME NEW c \in Callers, NEW p \in Providers, RemoveSecret(c, p) PROVE CredentialInv'
  <2>1. BeginCall(c, Both(p, 0)) /\ made' = made /\ marks' = marks
    BY <1>2 DEF RemoveSecret, Both, Absent
  <2>2. Both(p, 0) # Stamp(p, 0)
    BY TodosDiffer
  <2> QED BY <2>1, <2>2, BeginStep
<1>3. ASSUME NEW c \in Callers, NEW p \in Providers, MarkRotated(c, p)
      PROVE  CredentialInv'
  <2>1. /\ BeginCall(c, Stamp(p, made')) /\ made' = made + 1
        /\ marks' = marks \cup {made'}
    BY <1>3 DEF MarkRotated, Stamp
  <2> QED BY <2>1, BeginStep
<1>4. ASSUME NEW c \in Callers,
             Load(c) \/ Truncate(c) \/ Fill(c)
      PROVE  CredentialInv'
  BY <1>4, LoadStep, TruncateStep, FillStep
<1>5. CASE Crash
  BY <1>5, CrashStep
<1>6. CASE UNCHANGED credentialVars
  <2>1. UNCHANGED <<file, calls, made, marks, promised, mixed, everMixed>>
    BY <1>6 DEF credentialVars
  <2>2. CredentialTypes' /\ OneCall'
    BY <2>1 DEF CredentialInv, CredentialTypes, OneCall, Contents, Calling, Todos, Both, Stamp,
                Idle
  <2>3. \A c \in Callers : OnTheWay(calls[c])' <=> OnTheWay(calls[c])
    BY <2>1 DEF OnTheWay
  <2>4. Exact'
    BY <2>1, <2>3 DEF CredentialInv, Exact, Quiet, Idle
  <2>5. \A c \in Callers : SecretFirst(calls[c])' <=> SecretFirst(calls[c])
    BY <2>1 DEF SecretFirst, Vouched, Both, Stamp, Write
  <2>6. Vouching'
    BY <2>1, <2>5 DEF CredentialInv, Vouching, Vouched
  <2> QED BY <2>2, <2>4, <2>6 DEF CredentialInv
<1> QED BY <1>1, <1>2, <1>3, <1>4, <1>5, <1>6 DEF CredentialNext

(* A set, a remove or a markRotated that nothing overlapped has done what  *)
(* it says and left every other provider alone (auth/file-backend.ts).     *)
THEOREM CallsAreExact == CredentialSpec => []AloneIsExact
<1>1. CredentialInv => AloneIsExact
  BY DEF CredentialInv, Exact, AloneIsExact
<1> QED BY <1>1, CredentialStart, CredentialStep, PTL DEF CredentialSpec

(* As long as no calls overlap, no crash between two writes leaves a       *)
(* timestamp that vouches for an older secret (auth/rotation.ts).          *)
THEOREM TimestampsVouch == CredentialSpec => []TimestampVouches
<1>1. CredentialInv => TimestampVouches
  BY DEF CredentialInv, Vouching, Vouched, TimestampVouches, Absent
<1> QED BY <1>1, CredentialStart, CredentialStep, PTL DEF CredentialSpec
-----------------------------------------------------------------------------
Vaults(held, n) == [lock : held \cup {NoKey, Torn}, keys : [Cloud -> 0 .. n]]

WizardTypes ==
    /\ run \in 0 .. MaxRuns /\ mode \in Modes /\ selected \subseteq WizardProviders
    /\ toAsk \subseteq Cloud /\ secrets \subseteq Cloud
    /\ toSave \subseteq Cloud
    /\ vault \in Vaults(shown, run) /\ draft \in Vaults(shown, run)
    /\ cut \in 0 .. run
    /\ profiles \in [Cloud -> 0 .. run]
    /\ shown \subseteq 0 .. run
    /\ master \in shown \cup {NoKey}

(* A vault with keys in it has a lock; the gateway lags behind it, but for *)
(* what a save that was cut off has lost; until it is given this run's     *)
(* keys it has none of them; and a key that is asked for is dropped, or    *)
(* saved before the file is written.                                       *)
KeysOnTheWay ==
    /\ Stored.lock = NoKey => \A p \in Cloud : Stored.keys[p] = 0
    /\ \A p \in Cloud : profiles[p] <= Stored.keys[p] \/ profiles[p] < cut
    /\ stage \in {"mode", "keys", "save", "saving"} =>
          cut < run /\ \A p \in Cloud : profiles[p] < run
    /\ stage = "keys" => selected \cap Cloud \subseteq toAsk \cup secrets \cup declined
    /\ stage \in {"save", "saving", "satellite", "write", "writing", "done"} =>
          /\ selected \cap Cloud \subseteq secrets \cup declined
          /\ \A p \in secrets : p \in toSave \/ Stored.keys[p] = run
    /\ stage \in {"save", "saving"} => toSave \subseteq secrets /\ (secrets # {} => master # NoKey)
    /\ stage \in {"satellite", "write", "writing", "done"} => toSave = {}

(* No key is lost, and no lock changed that has keys behind it.            *)
Kept ==
    cut' = cut =>
        \A p \in Cloud : Stored.keys[p] # 0 =>
            Stored'.keys[p] >= Stored.keys[p] /\ Stored'.lock = Stored.lock

KeysInv == WizardTypes /\ KeysOnTheWay

LEMMA StoredKeys ==
  ASSUME WizardTypes
  PROVE  /\ Stored \in Vaults(shown, run) /\ run \in Nat /\ cut \in Nat
         /\ \A p \in Cloud : /\ Stored.keys[p] \in 0 .. run /\ Stored.keys[p] \in Nat
                             /\ profiles[p] \in 0 .. run /\ profiles[p] \in Nat
<1>1. Stored \in Vaults(shown, run) /\ run \in Nat /\ cut \in Nat /\ profiles \in [Cloud -> 0 .. run]
  BY DEF WizardTypes, Stored
<1>2. Stored.keys \in [Cloud -> 0 .. run]
  BY <1>1 DEF Vaults
<1> QED BY <1>1, <1>2

LEMMA StandingVault ==
  ASSUME KeysInv, Stored' = Stored
  PROVE  Kept
<1>1. \A p \in Cloud : Stored.keys[p] \in Nat
  BY StoredKeys DEF KeysInv
<1> QED BY <1>1 DEF Kept

(* The steps that leave the stores and the choices alone.                  *)
LEMMA StageStep ==
  ASSUME KeysInv, Stored' = Stored,
         UNCHANGED <<run, mode, selected, toAsk, secrets, declined, master, toSave,
                     cut, profiles, shown>>,
         vault' \in Vaults(shown, run), draft' \in Vaults(shown, run),
         \/ stage' \in {stage, "killed", "thrown"}
         \/ stage = "saving" /\ stage' = "save"
         \/ /\ stage \in {"satellite", "write", "writing"}
            /\ stage' \in {"write", "writing", "done"}
  PROVE  KeysInv'
<1>1. WizardTypes'
  BY DEF KeysInv, WizardTypes, Cloud, Modes, Vaults
<1>2. KeysOnTheWay'
  BY DEF KeysInv, KeysOnTheWay, Cloud
<1> QED BY <1>1, <1>2 DEF KeysInv

(* A run of the wizard begins; providers are chosen; keys are asked for.   *)
LEMMA BeginRun ==
  ASSUME WizardSchema, KeysInv, Begin
  PROVE  KeysInv' /\ Kept
<1>1. /\ run' = run + 1 /\ run < MaxRuns /\ master' \in shown \cup {NoKey}
      /\ stage' \in {"mode", "noop"} /\ secrets' = {} /\ declined' = {}
      /\ UNCHANGED <<mode, selected, toAsk, toSave, vault, draft, cut, profiles, shown>>
      /\ Stored' = Stored
  BY DEF Begin, stores, Stored, Resting
<1>2. run \in Nat /\ MaxRuns \in Nat /\ 0 .. run \subseteq 0 .. run' /\ run' \in Nat
  BY <1>1 DEF WizardSchema, KeysInv, WizardTypes
<1>3. WizardTypes'
  <2>1. run' \in 0 .. MaxRuns
    BY <1>1, <1>2 DEF KeysInv, WizardTypes
  <2>2. vault \in Vaults(shown, run') /\ draft \in Vaults(shown, run')
    BY <1>2 DEF KeysInv, WizardTypes, Vaults
  <2>3. profiles \in [Cloud -> 0 .. run'] /\ shown \subseteq 0 .. run' /\ cut \in 0 .. run'
    BY <1>2 DEF KeysInv, WizardTypes
  <2> QED BY <1>1, <2>1, <2>2, <2>3 DEF KeysInv, WizardTypes, Cloud, Modes, Vaults
<1>4. KeysOnTheWay'
  <2>1. cut < run' /\ \A p \in Cloud : profiles[p] < run'
    <3>1. cut \in 0 .. run /\ \A p \in Cloud : profiles[p] \in 0 .. run
      BY StoredKeys DEF KeysInv, WizardTypes
    <3> QED BY <1>1, <1>2, <3>1
  <2> QED BY <1>1, <2>1 DEF KeysInv, KeysOnTheWay, Cloud
<1> QED BY <1>1, <1>3, <1>4, StandingVault DEF KeysInv

LEMMA ChooseStep ==
  ASSUME KeysInv, NEW m \in Modes, NEW chosen \in SUBSET WizardProviders,
         ChooseProviders(m, chosen)
  PROVE  KeysInv' /\ Kept
<1>1. /\ mode' = m /\ selected' = chosen /\ toAsk' = chosen \cap Cloud
      /\ stage = "mode" /\ stage' \in {"thrown", "keys"}
      /\ UNCHANGED <<run, secrets, declined, master, toSave, vault, draft, cut, profiles, shown>>
      /\ Stored' = Stored
  BY DEF ChooseProviders, stores, Stored
<1>2. WizardTypes'
  BY <1>1 DEF KeysInv, WizardTypes, Cloud, Modes, Vaults
<1>3. KeysOnTheWay'
  BY <1>1 DEF KeysInv, KeysOnTheWay, Cloud
<1> QED BY <1>1, <1>2, <1>3, StandingVault DEF KeysInv

LEMMA AskStep ==
  ASSUME KeysInv, NEW p \in Cloud, NEW keep \in BOOLEAN, AskKey(p, keep)
  PROVE  KeysInv' /\ Kept
<1>1. /\ stage = "keys" /\ stage' = stage
      /\ toAsk' = toAsk \ {p}
      /\ secrets' = IF keep THEN secrets \cup {p} ELSE secrets
      /\ declined' = IF keep THEN declined ELSE declined \cup {p}
      /\ UNCHANGED <<run, mode, selected, master, toSave, vault, draft, cut, profiles, shown>>
      /\ Stored' = Stored
  BY DEF AskKey, stores, Stored
<1>2. WizardTypes'
  BY <1>1 DEF KeysInv, WizardTypes, Cloud, Modes, Vaults
<1>3. KeysOnTheWay'
  BY <1>1 DEF KeysInv, KeysOnTheWay, Cloud
<1> QED BY <1>1, <1>2, <1>3, StandingVault DEF KeysInv

(* There is a master key, or nothing to be saved.                          *)
LEMMA MasterStep ==
  ASSUME WizardSchema, KeysInv, NEW generate \in BOOLEAN, MasterKey(generate)
  PROVE  KeysInv' /\ Kept
<1>1. /\ stage = "keys" /\ toAsk = {} /\ toSave' = secrets
      /\ IF master = NoKey /\ generate
         THEN master' = run /\ shown' = shown \cup {run}
         ELSE UNCHANGED <<master, shown>>
      /\ stage' = IF master' = NoKey /\ secrets # {} THEN "thrown" ELSE "save"
      /\ UNCHANGED <<run, mode, selected, toAsk, secrets, declined, vault, draft, cut, profiles>>
  BY DEF MasterKey
<1>2. run \in 0 .. run /\ run # NoKey
  BY DEF WizardSchema, KeysInv, WizardTypes
<1>3. shown \subseteq shown' /\ shown' \subseteq 0 .. run /\ master' \in shown' \cup {NoKey}
  BY <1>1, <1>2 DEF KeysInv, WizardTypes
<1>4. Stored' = Stored
  BY <1>1 DEF Stored
<1>5. WizardTypes'
  <2>1. vault \in Vaults(shown', run) /\ draft \in Vaults(shown', run)
    BY <1>3 DEF KeysInv, WizardTypes, Vaults
  <2> QED BY <1>1, <1>3, <2>1 DEF KeysInv, WizardTypes, Cloud, Modes, Vaults
<1>6. KeysOnTheWay'
  BY <1>1, <1>4 DEF KeysInv, KeysOnTheWay, Cloud
<1> QED BY <1>4, <1>5, <1>6, StandingVault DEF KeysInv

(* A key is being saved, under the lock that the vault has or gets.        *)
LEMMA SaveStep ==
  ASSUME KeysInv, NEW p \in Cloud, SaveKey(p)
  PROVE  KeysInv' /\ Kept
<1>1. /\ stage = "save" /\ p \in toSave
      /\ UNCHANGED <<run, mode, selected, toAsk, secrets, declined, master, cut, profiles, shown>>
      /\ Stored = vault
  BY DEF SaveKey, Stored
<1>2. /\ run \in Nat /\ run \in 0 .. run
      /\ Stored \in [lock : shown \cup {NoKey, Torn}, keys : [Cloud -> 0 .. run]]
      /\ master \in shown \cup {NoKey} /\ profiles \in [Cloud -> 0 .. run]
      /\ \A q \in Cloud : Stored.keys[q] \in 0 .. run /\ profiles[q] \in 0 .. run
      /\ cut \in Nat
  BY StoredKeys DEF KeysInv, WizardTypes, Vaults
<1>3. CASE vault.lock \in {NoKey, master}
  <2> DEFINE keys == [Stored.keys EXCEPT ![p] = run]
  <2>1. /\ draft' = [lock |-> master, keys |-> keys] /\ vault' = NoVault
        /\ toSave' = toSave \ {p} /\ stage' = "saving"
    BY <1>1, <1>3 DEF SaveKey
  <2>2. keys \in [Cloud -> 0 .. run]
    BY <1>2
  <2>3. /\ keys[p] = run /\ \A q \in Cloud : q # p => keys[q] = Stored.keys[q]
        /\ \A q \in Cloud : Stored.keys[q] <= keys[q]
    <3>1. keys[p] = run /\ \A q \in Cloud : q # p => keys[q] = Stored.keys[q]
      BY <1>2
    <3> HIDE DEF keys
    <3> QED BY <1>2, <3>1
  <2> HIDE DEF keys
  <2>4. Stored' = draft'
    BY <2>1 DEF Stored
  <2>5. Stored'.lock = master /\ Stored'.keys = keys
    BY <2>1, <2>4
  <2>6. master # NoKey
    BY <1>1 DEF KeysInv, KeysOnTheWay
  <2>7. WizardTypes'
    <3>1. draft' \in Vaults(shown, run)
      BY <1>2, <2>1, <2>2 DEF Vaults
    <3>2. NoVault \in Vaults(shown, run)
      BY <1>2 DEF Vaults, NoVault, NoApiKeys
    <3> QED BY <1>1, <2>1, <3>1, <3>2 DEF KeysInv, WizardTypes, Cloud, Modes, Vaults
  <2>8. KeysOnTheWay'
    <3>1. \A q \in secrets : q \in Cloud
      BY DEF KeysInv, WizardTypes
    <3>2. \A q \in secrets : q \in toSave \ {p} \/ keys[q] = run
      BY <1>1, <2>3, <3>1 DEF KeysInv, KeysOnTheWay
    <3>3. \A q \in Cloud : profiles[q] <= keys[q] \/ profiles[q] < cut
      <4>1. \A q \in Cloud : profiles[q] <= Stored.keys[q] \/ profiles[q] < cut
        BY DEF KeysInv, KeysOnTheWay
      <4>2. \A q \in Cloud : keys[q] \in 0 .. run
        BY <2>2
      <4> QED BY <1>2, <2>3, <4>1, <4>2
    <3>4. cut < run /\ \A q \in Cloud : profiles[q] < run
      BY <1>1 DEF KeysInv, KeysOnTheWay
    <3> QED BY <1>1, <2>1, <2>5, <2>6, <3>2, <3>3, <3>4 DEF KeysInv, KeysOnTheWay, Cloud
  <2>9. Kept
    <3>1. ASSUME NEW q \in Cloud, Stored.keys[q] # 0
          PROVE  keys[q] >= Stored.keys[q] /\ Stored.lock = master
      <4>1. Stored.lock # NoKey
        BY <3>1 DEF KeysInv, KeysOnTheWay
      <4>2. keys[q] \in 0 .. run /\ Stored.keys[q] \in 0 .. run /\ Stored.keys[q] <= keys[q]
        BY <1>2, <2>2, <2>3
      <4> QED BY <1>1, <1>3, <4>1, <4>2
    <3> QED BY <2>5, <3>1 DEF Kept
  <2> QED BY <2>7, <2>8, <2>9 DEF KeysInv
<1>4. CASE vault.lock \notin {NoKey, master}
  <2>1. stage' = "thrown" /\ vault' = vault /\ draft' = draft /\ toSave' = toSave
    BY <1>4 DEF SaveKey
  <2>2. Stored' = Stored
    BY <1>1, <2>1 DEF Stored
  <2>3. vault' \in Vaults(shown, run) /\ draft' \in Vaults(shown, run)
    BY <2>1 DEF KeysInv, WizardTypes
  <2>4. KeysInv'
    BY <1>1, <2>1, <2>2, <2>3, StageStep
  <2>5. Kept
    BY <2>2, StandingVault
  <2> QED BY <2>4, <2>5
<1> QED BY <1>3, <1>4

(* A vault that is written has what was to be stored; one whose writing is *)
(* cut off has nothing, and the keys of this run are not in the gateway.   *)
LEMMA FillsVault ==
  ASSUME KeysInv, FillVault
  PROVE  KeysInv' /\ Kept
<1>1. /\ stage = "saving" /\ stage' = "save" /\ vault' = draft /\ draft' = NoVault
      /\ UNCHANGED <<run, mode, selected, toAsk, secrets, declined, master, toSave,
                     cut, profiles, shown>>
  BY DEF FillVault, inputs
<1>2. Stored' = Stored
  BY <1>1 DEF Stored
<1>3. vault' \in Vaults(shown, run) /\ draft' \in Vaults(shown, run)
  <2>1. run \in Nat
    BY DEF KeysInv, WizardTypes
  <2>2. NoVault \in Vaults(shown, run)
    BY <2>1 DEF Vaults, NoVault, NoApiKeys
  <2> QED BY <1>1, <2>2 DEF KeysInv, WizardTypes
<1> QED BY <1>1, <1>2, <1>3, StageStep, StandingVault

LEMMA KillStep ==
  ASSUME KeysInv, Kill
  PROVE  KeysInv' /\ Kept
<1>1. /\ stage' = "killed" /\ draft' = NoVault
      /\ UNCHANGED <<run, mode, selected, toAsk, secrets, declined, master, toSave, profiles, shown>>
  BY DEF Kill, inputs
<1>2. run \in Nat /\ cut \in Nat /\ \A p \in Cloud : profiles[p] \in Nat
  BY StoredKeys DEF KeysInv
<1>3. /\ NoVault \in Vaults(shown, run) /\ TornVault \in Vaults(shown, run)
      /\ \A p \in Cloud : NoVault.keys[p] = 0 /\ TornVault.keys[p] = 0
  BY <1>2 DEF Vaults, NoVault, TornVault, NoApiKeys
<1>4. CASE stage # "saving"
  <2>1. vault' = vault /\ cut' = cut
    BY <1>4 DEF Kill
  <2>2. Stored' = Stored
    BY <1>1, <1>4, <2>1 DEF Stored
  <2>3. vault' \in Vaults(shown, run) /\ draft' \in Vaults(shown, run)
    BY <1>1, <1>3, <2>1 DEF KeysInv, WizardTypes
  <2> QED BY <1>1, <2>1, <2>2, <2>3, StageStep, StandingVault
<1>5. CASE stage = "saving"
  <2>1. vault' \in {NoVault, TornVault} /\ cut' = run
    BY <1>5 DEF Kill
  <2>2. cut < run /\ \A p \in Cloud : profiles[p] < run
    BY <1>5 DEF KeysInv, KeysOnTheWay
  <2>3. Stored' = vault'
    BY <1>1 DEF Stored
  <2>4. WizardTypes'
    BY <1>1, <1>2, <1>3, <2>1 DEF KeysInv, WizardTypes, Cloud, Modes, Vaults
  <2>5. KeysOnTheWay'
    <3>1. \A p \in Cloud : Stored'.keys[p] = 0
      BY <1>3, <2>1, <2>3
    <3> QED BY <1>1, <2>1, <2>2, <3>1 DEF KeysOnTheWay, Cloud
  <2>6. cut' # cut
    BY <1>2, <2>1, <2>2
  <2> QED BY <2>4, <2>5, <2>6 DEF KeysInv, Kept
<1> QED BY <1>4, <1>5

(* The gateway gets the keys of this run, and no others, or loses all.     *)
LEMMA SyncStep ==
  ASSUME KeysInv, SyncGateway
  PROVE  KeysInv' /\ Kept
<1>1. /\ stage = "save" /\ toSave = {} /\ stage' \in {"satellite", "write"}
      /\ profiles' \in {profiles, NoApiKeys, [p \in Cloud |-> IF p \in secrets THEN run ELSE 0]}
      /\ UNCHANGED <<run, mode, selected, toAsk, secrets, declined, master, toSave,
                     vault, draft, cut, shown>>
      /\ Stored' = Stored
  BY DEF SyncGateway, inputs, Stored
<1>2. /\ run \in Nat /\ profiles \in [Cloud -> 0 .. run] /\ cut \in Nat
      /\ \A p \in Cloud : Stored.keys[p] \in 0 .. run
      /\ \A p \in secrets : Stored.keys[p] = run
      /\ \A p \in Cloud : profiles[p] <= Stored.keys[p] \/ profiles[p] < cut
  BY <1>1, StoredKeys DEF KeysInv, WizardTypes, KeysOnTheWay
<1>3. /\ profiles' \in [Cloud -> 0 .. run]
      /\ \A p \in Cloud : profiles'[p] <= Stored.keys[p] \/ profiles'[p] < cut
  <2>1. CASE profiles' = profiles
    BY <1>2, <2>1
  <2>2. CASE profiles' = NoApiKeys
    BY <1>2, <2>2 DEF NoApiKeys
  <2>3. CASE profiles' = [p \in Cloud |-> IF p \in secrets THEN run ELSE 0]
    BY <1>2, <2>3
  <2> QED BY <1>1, <2>1, <2>2, <2>3
<1>4. WizardTypes'
  BY <1>1, <1>3 DEF KeysInv, WizardTypes, Cloud, Modes, Vaults
<1>5. KeysOnTheWay'
  BY <1>1, <1>3 DEF KeysInv, KeysOnTheWay, Cloud
<1> QED BY <1>1, <1>4, <1>5, StandingVault DEF KeysInv

(* Every step of the wizard, or of the loader, keeps the keys.             *)
LEMMA KeysStep ==
  ASSUME WizardSchema, KeysInv, [WizardNext]_(wizardVars)
  PROVE  KeysInv' /\ Kept
<1>1. CASE Begin \/ FillVault \/ Kill \/ SyncGateway
  BY <1>1, BeginRun, FillsVault, KillStep, SyncStep
<1>2. ASSUME NEW m \in Modes, NEW chosen \in SUBSET WizardProviders,
             ChooseProviders(m, chosen)
      PROVE  KeysInv' /\ Kept
  BY <1>2, ChooseStep
<1>3. ASSUME NEW p \in Cloud, NEW keep \in BOOLEAN, AskKey(p, keep)
      PROVE  KeysInv' /\ Kept
  BY <1>3, AskStep
<1>4. ASSUME NEW yes \in BOOLEAN, MasterKey(yes)
      PROVE  KeysInv' /\ Kept
  BY <1>4, MasterStep
<1>5. ASSUME NEW p \in Cloud, SaveKey(p) PROVE KeysInv' /\ Kept
  BY <1>5, SaveStep
<1>6. ASSUME UNCHANGED <<inputs, stores>>,
             \/ stage' = stage
             \/ stage # "saving" /\ stage' = "thrown"
             \/ /\ stage \in {"satellite", "write", "writing"}
                /\ stage' \in {"write", "writing", "done"}
      PROVE  KeysInv' /\ Kept
  <2>1. /\ UNCHANGED <<run, mode, selected, toAsk, secrets, declined, master, toSave,
                       cut, profiles, shown>>
        /\ vault' = vault /\ draft' = draft
    BY <1>6 DEF inputs, stores
  <2>2. Stored' = Stored
    BY <1>6, <2>1 DEF Stored
  <2>3. vault' \in Vaults(shown, run) /\ draft' \in Vaults(shown, run)
    BY <2>1 DEF KeysInv, WizardTypes
  <2>4. KeysInv'
    BY <1>6, <2>1, <2>2, <2>3, StageStep
  <2> QED BY <2>2, <2>4, StandingVault
<1>7. CASE LinkSatellite \/ OpenConfig \/ FillConfig
  BY <1>6, <1>7 DEF LinkSatellite, OpenConfig, FillConfig
<1>8. CASE RefuseAnswer \/ StartLoad
  BY <1>6, <1>8 DEF RefuseAnswer, StartLoad
<1>9. CASE UNCHANGED <<stage, inputs, stores>>
  BY <1>6, <1>9
<1>10. CASE UNCHANGED wizardVars
  BY <1>9, <1>10 DEF wizardVars
<1> QED BY <1>1, <1>2, <1>3, <1>4, <1>5, <1>7, <1>8, <1>9, <1>10 DEF WizardNext

LEMMA KeysInit ==
  ASSUME WizardSchema, WizardInit
  PROVE  KeysInv
<1>1. /\ stage = "off" /\ mode = "standalone" /\ selected = {}
      /\ toAsk = {} /\ secrets = {} /\ declined = {} /\ toSave = {}
      /\ master = NoKey /\ vault = NoVault /\ draft = NoVault /\ cut = 0
      /\ profiles = NoApiKeys /\ shown = {0} /\ run = 0
  BY DEF WizardInit
<1>2. /\ NoApiKeys \in [Cloud -> 0 .. 0]
      /\ \A p \in Cloud : NoApiKeys[p] = 0
  BY DEF NoApiKeys
<1>3. MaxRuns \in Nat
  BY DEF WizardSchema
<1>4. Stored = NoVault /\ NoVault.keys = NoApiKeys /\ NoVault \in Vaults(shown, run)
  BY <1>1, <1>2 DEF Stored, NoVault, Vaults
<1>5. WizardTypes
  BY <1>1, <1>2, <1>3, <1>4 DEF WizardTypes, Modes
<1>6. KeysOnTheWay
  BY <1>1, <1>2, <1>4 DEF KeysOnTheWay
<1> QED BY <1>5, <1>6 DEF KeysInv

(* When the wizard is done, each key that was typed and kept is in the     *)
(* vault, under a lock the operator has, and the gateway has no other that *)
(* no save, cut off later, has lost (cli/init.ts, auth/file-backend.ts).   *)
THEOREM ChosenHaveKeys == WizardSpec => []SelectedHaveKeys
<1>1. WizardInit => KeysInv
  BY WizardAssumption, KeysInit
<1>2. KeysInv /\ [WizardNext]_(wizardVars) => KeysInv'
  BY WizardAssumption, KeysStep
<1>3. KeysInv => SelectedHaveKeys
  <2> SUFFICES ASSUME KeysInv PROVE SelectedHaveKeys
    OBVIOUS
  <2>1. Stored.lock \in shown \cup {NoKey, Torn}
    BY StoredKeys DEF KeysInv, Vaults
  <2>2. stage = "done" => Stored = vault
    BY DEF Stored
  <2> QED BY <2>1, <2>2 DEF KeysInv, KeysOnTheWay, SelectedHaveKeys
<1> QED BY <1>1, <1>2, <1>3, PTL DEF WizardSpec

(* No run of the wizard, with whatever master key, loses or relocks a key  *)
(* that an earlier one has saved, unless a save is cut off within writeFile*)
(* (cli/init.ts, auth/file-backend.ts).                                    *)
THEOREM SavedKeysStay == WizardSpec => KeysAreKept
<1>1. WizardInit => KeysInv
  BY WizardAssumption, KeysInit
<1>2. KeysInv /\ [WizardNext]_(wizardVars) => KeysInv'
  BY WizardAssumption, KeysStep
<1>3. KeysInv /\ [WizardNext]_(wizardVars) => Kept
  BY WizardAssumption, KeysStep
<1>4. KeysInv /\ [WizardNext]_(wizardVars)
         => [cut' = cut =>
               \A p \in Cloud : Stored.keys[p] # 0 =>
                  Stored'.keys[p] >= Stored.keys[p] /\ Stored'.lock = Stored.lock]_(wizardVars)
  BY <1>3 DEF Kept
<1> QED BY <1>1, <1>2, <1>4, PTL DEF WizardSpec, KeysAreKept

(* A patch mentions the pairs of which it sets a field.                    *)
IsPatch(s) ==
    /\ s.malformed \in BOOLEAN
    /\ s.mentions \subseteq Pairs
    /\ \A pair \in Pairs : \A f \in pair : s.set[f] # Unset => pair \in s.mentions

(* The first m sources make value of field f.                              *)
SettersTo(m, f) == {i \in 1 .. m : sources[i].set[f] # Unset}

Follows(m, f, value) ==
    /\ SettersTo(m, f) = {} => value = Defaults[f]
    /\ \A i \in SettersTo(m, f) :
          (\A j \in SettersTo(m, f) : j <= i) => value = sources[i].set[f]

(* A source is malformed, or ends with a pair that is not whole.           *)
Rejected ==
    \/ \E i \in 1 .. 3 : sources[i].malformed
    \/ \E i \in 1 .. 3 : \E pair \in sources[i].mentions : \E f \in pair :
           \A j \in SettersTo(3, f) : j > i

(* The sources stand while they are loaded, and what is merged follows     *)
(* those that have been merged.                                            *)
Loading ==
    /\ \E S : sources \in [1 .. 3 -> S]
    /\ \A i \in 1 .. 3 : IsPatch(sources[i])
    /\ parsed \in 0 .. 3 /\ merged \in 0 .. 3
    /\ outcome \in {"waiting", "loading", "loaded", "thrown"}
    /\ outcome = "waiting" => merged = 0
    /\ outcome = "loaded" => merged = 3
    /\ outcome # "waiting" => stage \in Resting
    /\ outcome # "thrown" => \A f \in Fields : Follows(merged, f, config[f])
    /\ \A pair \in Pairs : \A f, g \in pair : config[f] = Unset <=> config[g] = Unset
    /\ outcome = "thrown" => Rejected

(* A file of the wizard: it is in satellite mode just when it has a link.  *)
Loads(s) ==
    /\ ~s.malformed /\ s.mentions \subseteq {Satellite}
    /\ s.set["mode"] = "satellite" <=> s.mentions = {Satellite}
    /\ \A f \in Satellite : s.set[f] = Unset <=> s.mentions = {}

OwnFile ==
    run > 0 \/ outcome = "waiting" =>
        /\ sources[2] = Missing /\ sources[3] = Missing
        /\ sources[1] = Malformed \/ Loads(sources[1])
        /\ stage = "done" => sources[1] # Malformed

Schemas == Schema /\ WizardSchema

LEMMA TopmostSetter ==
  ASSUME NEW s \in SUBSET (1 .. 3), s # {}
  PROVE  \E i \in s : \A j \in s : j <= i
<1>1. CASE 3 \in s
  BY <1>1
<1>2. CASE 3 \notin s /\ 2 \in s
  BY <1>2
<1>3. CASE 3 \notin s /\ 2 \notin s
  <2>1. PICK i \in s : TRUE
    OBVIOUS
  <2>2. \A j \in s : j = 1
    BY <1>3
  <2> QED BY <2>1, <2>2
<1> QED BY <1>1, <1>2, <1>3

LEMMA PatchTypes ==
  ASSUME Schemas
  PROVE  /\ IsPatch(Missing) /\ IsPatch(Malformed)
         /\ \A i : \A s \in FlatPatches(i) : IsPatch(s)
         /\ \A s \in FilePatches : IsPatch(s)
<1>1. ASSUME NEW pair \in Pairs, NEW f \in pair PROVE f \in Fields
  BY DEF Fields
<1>2. IsPatch(Missing) /\ IsPatch(Malformed)
  BY <1>1 DEF IsPatch, Missing, Malformed
<1>3. ASSUME NEW said, NEW empty \in SUBSET Pairs
      PROVE  IsPatch([set |-> said, mentions |-> Mentioned(said) \cup empty,
                      malformed |-> FALSE])
  BY DEF IsPatch, Mentioned
<1>4. ASSUME NEW said
      PROVE  IsPatch([set |-> said, mentions |-> Mentioned(said), malformed |-> FALSE])
  BY DEF IsPatch, Mentioned
<1>5. \A i : \A s \in FlatPatches(i) : IsPatch(s)
  BY <1>2, <1>4 DEF FlatPatches
<1>6. \A s \in FilePatches : IsPatch(s)
  BY <1>2, <1>3 DEF FilePatches
<1> QED BY <1>2, <1>5, <1>6

(* What the wizard writes.                                                 *)
LEMMA WrittenIs ==
  ASSUME Schemas
  PROVE  /\ IsPatch(Written) /\ Loads(Written)
         /\ Written # Malformed
<1> DEFINE said == Written.set
           linked == mode = "satellite"
<1>1. /\ {"mode", "providers"} \subseteq Single /\ Satellite \in Pairs
      /\ Single \cap UNION Pairs = {} /\ Unset # "linked" /\ Unset # "satellite"
      /\ Ollama \in ProviderNames
      /\ \A pair, other \in Pairs : pair # other => pair \cap other = {}
  BY DEF Schemas, Schema, WizardSchema, Modes
<1>2. Listed(selected) \subseteq ProviderNames
  BY <1>1 DEF Listed
<1>3. /\ Written.malformed = FALSE
      /\ Written.mentions = IF linked THEN {Satellite} ELSE {}
  BY <1>2 DEF Written
<1>4. said = [f \in Fields |->
                CASE f = "mode" -> mode
                  [] f = "providers" -> Listed(selected)
                  [] f \in Satellite /\ mode = "satellite" -> "linked"
                  [] OTHER -> Unset]
  BY DEF Written
<1>5. "mode" \in Fields /\ said["mode"] = mode
  BY <1>1, <1>4 DEF Fields
<1>6. ASSUME NEW pair \in Pairs, NEW f \in pair
      PROVE  said[f] = IF f \in Satellite /\ linked THEN "linked" ELSE Unset
  <2>1. f \in Fields /\ f # "mode" /\ f # "providers"
    BY <1>1 DEF Fields
  <2> QED BY <1>4, <2>1
<1>7. \A f \in Satellite : said[f] = IF linked THEN "linked" ELSE Unset
  BY <1>1, <1>6
<1>8. ASSUME NEW pair \in Pairs, NEW f \in pair, said[f] # Unset
      PROVE  pair \in Written.mentions
  <2>1. linked /\ f \in Satellite
    BY <1>6, <1>8
  <2>2. pair = Satellite
    BY <1>1, <2>1
  <2> QED BY <1>3, <2>1, <2>2
<1>9. IsPatch(Written)
  BY <1>1, <1>3, <1>8 DEF IsPatch
<1>10. Loads(Written)
  BY <1>1, <1>3, <1>5, <1>7 DEF Loads
<1>11. Malformed.malformed = TRUE
  BY DEF Malformed
<1> QED BY <1>3, <1>9, <1>10, <1>11

(* While the loader waits, the wizard may write the file.                  *)
LEMMA WaitingStep ==
  ASSUME Loading, outcome = "waiting", UNCHANGED <<parsed, merged, config, outcome>>,
         \/ sources' = sources
         \/ \E s : IsPatch(s) /\ sources' = [sources EXCEPT ![1] = s]
  PROVE  Loading'
<1>1. /\ \A i \in 1 .. 3 : IsPatch(sources[i])
      /\ parsed \in 0 .. 3 /\ merged = 0
      /\ \A f \in Fields : Follows(merged, f, config[f])
      /\ \A pair \in Pairs : \A f, g \in pair : config[f] = Unset <=> config[g] = Unset
  BY DEF Loading
<1>2. PICK S : sources \in [1 .. 3 -> S]
  BY DEF Loading
<1>3. (\E T : sources' \in [1 .. 3 -> T]) /\ \A i \in 1 .. 3 : IsPatch(sources'[i])
  <2>1. CASE sources' = sources
    BY <1>1, <1>2, <2>1
  <2>2. ASSUME NEW s, IsPatch(s), sources' = [sources EXCEPT ![1] = s]
        PROVE  (\E T : sources' \in [1 .. 3 -> T]) /\ \A i \in 1 .. 3 : IsPatch(sources'[i])
    <3>1. sources' \in [1 .. 3 -> S \cup {s}]
      BY <1>2, <2>2
    <3>2. \A i \in 1 .. 3 : sources'[i] = IF i = 1 THEN s ELSE sources[i]
      BY <1>2, <2>2
    <3> QED BY <1>1, <2>2, <3>1, <3>2
  <2> QED BY <2>1, <2>2
<1>4. ASSUME NEW f \in Fields PROVE Follows(merged, f, config[f])'
  <2>1. SettersTo(merged, f) = {} /\ SettersTo(merged, f)' = {}
    BY <1>1 DEF SettersTo
  <2>2. config[f] = Defaults[f]
    BY <1>1, <2>1 DEF Follows
  <2> QED BY <2>1, <2>2 DEF Follows
<1> QED BY <1>1, <1>3, <1>4 DEF Loading, IsPatch, Fields, Resting

(* A source is parsed.                                                     *)
LEMMA ParseStep ==
  ASSUME Loading, Parse, stage' = stage
  PROVE  Loading'
<1>1. /\ outcome = "loading" /\ parsed < 3 /\ parsed' = parsed + 1
      /\ outcome' = IF sources[parsed'].malformed THEN "thrown" ELSE "loading"
      /\ UNCHANGED <<sources, merged, config>>
  BY DEF Parse
<1>2. parsed' \in 1 .. 3
  BY <1>1 DEF Loading
<1>3. \A m, f : SettersTo(m, f)' = SettersTo(m, f)
  BY <1>1 DEF SettersTo
<1>4. \A f \in Fields : Follows(merged, f, config[f])'
  BY <1>1, <1>3 DEF Loading, Follows
<1>5. outcome' = "thrown" => Rejected'
  BY <1>1, <1>2 DEF Rejected
<1>6. outcome' \in {"loading", "thrown"}
  BY <1>1
<1> QED BY <1>1, <1>2, <1>4, <1>5, <1>6 DEF Loading, IsPatch, Fields, Resting

(* A source is merged, or leaves a pair unfinished.                        *)
LEMMA MergeStep ==
  ASSUME Schemas, Loading, Merge, stage' = stage
  PROVE  Loading'
<1> DEFINE m == merged
           patch == sources[merged + 1]
           over == Over(config, patch)
<1>1. /\ outcome = "loading" /\ merged < 3 /\ merged' = merged + 1
      /\ UNCHANGED <<sources, parsed>>
  BY DEF Merge
<1>2. /\ m \in 0 .. 2 /\ m + 1 \in 1 .. 3 /\ IsPatch(patch)
      /\ \A f \in Fields : Follows(m, f, config[f])
      /\ \A pair \in Pairs : \A f, g \in pair : config[f] = Unset <=> config[g] = Unset
  BY <1>1 DEF Loading
<1>3. \A f \in Fields :
          over[f] = IF patch.set[f] # Unset THEN patch.set[f] ELSE config[f]
  BY DEF Over
<1>4. \A n, f : SettersTo(n, f)' = SettersTo(n, f)
  BY <1>1 DEF SettersTo
<1>5. ASSUME NEW f
      PROVE  SettersTo(m + 1, f) =
                 SettersTo(m, f) \cup (IF patch.set[f] # Unset THEN {m + 1} ELSE {})
  <2>1. 1 .. m + 1 = (1 .. m) \cup {m + 1}
    BY <1>2
  <2> QED BY <2>1 DEF SettersTo
<1>6. \A pair \in Pairs : \A f \in pair : f \in Fields
  BY DEF Fields
<1>7. CASE \A pair \in patch.mentions : Whole(pair, config, patch)
  <2>1. config' = over /\ outcome' \in {"loaded", "loading"} /\ (outcome' = "loaded" => merged' = 3)
    BY <1>1, <1>7 DEF Merge
  <2> HIDE DEF over
  <2>2. ASSUME NEW f \in Fields PROVE Follows(merged, f, config[f])'
    <3>1. CASE patch.set[f] # Unset
      <4>1. m + 1 \in SettersTo(m + 1, f) /\ \A i \in SettersTo(m + 1, f) : i <= m + 1
        BY <1>2, <1>5, <3>1 DEF SettersTo
      <4>2. config'[f] = sources[m + 1].set[f]
        BY <1>3, <2>1, <3>1
      <4>3. \A i \in SettersTo(m + 1, f) : (\A j \in SettersTo(m + 1, f) : j <= i) => i = m + 1
        <5>1. \A i \in SettersTo(m + 1, f) : i \in Int
          BY DEF SettersTo
        <5> QED BY <1>2, <4>1, <5>1
      <4> QED BY <1>1, <1>4, <4>1, <4>2, <4>3 DEF Follows
    <3>2. CASE patch.set[f] = Unset
      <4>1. SettersTo(m + 1, f) = SettersTo(m, f) /\ config'[f] = config[f]
        BY <1>3, <1>5, <2>1, <3>2
      <4> QED BY <1>1, <1>2, <1>4, <4>1 DEF Follows
    <3> QED BY <3>1, <3>2
  <2>3. ASSUME NEW pair \in Pairs, NEW f \in pair, NEW g \in pair
        PROVE  config'[f] = Unset <=> config'[g] = Unset
    <3>1. CASE pair \in patch.mentions
      <4>1. over[f] # Unset /\ over[g] # Unset
        BY <1>7, <3>1 DEF Whole, over
      <4> QED BY <2>1, <4>1
    <3>2. CASE pair \notin patch.mentions
      <4>1. patch.set[f] = Unset /\ patch.set[g] = Unset
        BY <1>2, <3>2 DEF IsPatch
      <4>2. config'[f] = config[f] /\ config'[g] = config[g]
        BY <1>3, <1>6, <2>1, <4>1
      <4> QED BY <1>2, <4>2
    <3> QED BY <3>1, <3>2
  <2> QED BY <1>1, <1>2, <2>1, <2>2, <2>3 DEF Loading, IsPatch, Fields, Resting
<1>8. CASE ~\A pair \in patch.mentions : Whole(pair, config, patch)
  <2>1. config' = config /\ outcome' = "thrown"
    BY <1>1, <1>8 DEF Merge
  <2>2. PICK pair \in patch.mentions : \E f \in pair : over[f] = Unset
    BY <1>8 DEF Whole
  <2>3. PICK f \in pair : over[f] = Unset
    BY <2>2
  <2>4. pair \in Pairs /\ f \in Fields
    BY <1>2, <1>6, <2>2, <2>3 DEF IsPatch
  <2>5. patch.set[f] = Unset /\ config[f] = Unset
    BY <1>3, <2>3, <2>4
  <2>6. SettersTo(m, f) = {}
    <3>1. SUFFICES ASSUME SettersTo(m, f) # {} PROVE FALSE
      OBVIOUS
    <3>2. SettersTo(m, f) \subseteq 1 .. 3
      BY <1>2 DEF SettersTo
    <3>3. PICK i \in SettersTo(m, f) : \A j \in SettersTo(m, f) : j <= i
      BY <3>1, <3>2, TopmostSetter
    <3>4. config[f] = sources[i].set[f]
      BY <1>2, <2>4, <3>3 DEF Follows
    <3> QED BY <2>5, <3>3, <3>4 DEF SettersTo
  <2>7. \A j \in SettersTo(3, f) : j > m + 1
    <3>1. \A j \in 1 .. 3 : sources[j].set[f] # Unset => j \notin 1 .. m /\ j # m + 1
      BY <2>5, <2>6 DEF SettersTo
    <3> QED BY <1>2, <3>1 DEF SettersTo
  <2>8. Rejected'
    BY <1>1, <1>2, <1>4, <2>2, <2>7 DEF Rejected
  <2> QED BY <1>1, <1>2, <2>1, <2>8 DEF Loading, IsPatch, Fields, Resting
<1> QED BY <1>7, <1>8

(* A load starts, and then nothing of the wizard moves.                    *)
LEMMA StartStep ==
  ASSUME Loading, StartLoad
  PROVE  Loading'
<1>1. /\ outcome = "waiting" /\ stage \in Resting /\ outcome' = "loading"
      /\ UNCHANGED <<sources, parsed, merged, config, stage>>
  BY DEF StartLoad
<1>2. \A f \in Fields : Follows(merged, f, config[f])'
  BY <1>1 DEF Loading, Follows, SettersTo
<1> QED BY <1>1, <1>2 DEF Loading, IsPatch, Fields, Resting

(* What a step of the wizard does to the file.                             *)
LEMMA FileStep ==
  ASSUME [WizardNext]_wizardVars
  PROVE  \/ StartLoad
         \/ OpenConfig
         \/ FillConfig
         \/ /\ Parse \/ Merge
            /\ UNCHANGED <<stage, run, sources>> /\ outcome # "waiting"
         \/ Begin
         \/ /\ UNCHANGED <<stage, run, sources, parsed, merged, config, outcome>>
         \/ /\ stage \notin Resting /\ stage' # "done"
            /\ UNCHANGED <<run, sources, parsed, merged, config, outcome>>
<1> USE DEF inputs, loader, stores
<1>1. CASE UNCHANGED wizardVars
  BY <1>1 DEF wizardVars, loaderVars
<1>2. CASE (Parse \/ Merge) /\ UNCHANGED <<stage, inputs, stores>>
  BY <1>2 DEF Parse, Merge
<1>3. CASE FillVault \/ SyncGateway \/ LinkSatellite \/ RefuseAnswer \/ Kill
  BY <1>3 DEF FillVault, SyncGateway, LinkSatellite, RefuseAnswer, Kill, Resting
<1>4. ASSUME NEW m, NEW chosen, ChooseProviders(m, chosen)
      PROVE  /\ stage \notin Resting /\ stage' # "done"
             /\ UNCHANGED <<run, sources, parsed, merged, config, outcome>>
  BY <1>4 DEF ChooseProviders, Resting
<1>5. ASSUME NEW p, SaveKey(p)
      PROVE  /\ stage \notin Resting /\ stage' # "done"
             /\ UNCHANGED <<run, sources, parsed, merged, config, outcome>>
  BY <1>5 DEF SaveKey, Resting
<1>6. ASSUME NEW p, NEW keep, AskKey(p, keep)
      PROVE  /\ stage \notin Resting /\ stage' # "done"
             /\ UNCHANGED <<run, sources, parsed, merged, config, outcome>>
  BY <1>6 DEF AskKey, Resting
<1>7. ASSUME NEW yes, MasterKey(yes)
      PROVE  /\ stage \notin Resting /\ stage' # "done"
             /\ UNCHANGED <<run, sources, parsed, merged, config, outcome>>
  BY <1>7 DEF MasterKey, Resting
<1> QED BY <1>1, <1>2, <1>3, <1>4, <1>5, <1>6, <1>7 DEF WizardNext

LEMMA LoadingStep ==
  ASSUME Schemas, Loading, [WizardNext]_wizardVars
  PROVE  Loading'
<1>1. outcome # "waiting" => stage \in Resting
  BY DEF Loading
<1>2. CASE StartLoad
  BY <1>2, StartStep
<1>3. CASE OpenConfig
  <2>1. /\ outcome = "waiting" /\ UNCHANGED <<parsed, merged, config, outcome>>
        /\ sources' = [sources EXCEPT ![1] = Malformed]
    BY <1>1, <1>3 DEF OpenConfig, loader, Resting
  <2>2. IsPatch(Malformed)
    BY PatchTypes
  <2> QED BY <2>1, <2>2, WaitingStep
<1>4. CASE FillConfig
  <2>1. /\ outcome = "waiting" /\ UNCHANGED <<parsed, merged, config, outcome>>
        /\ sources' = [sources EXCEPT ![1] = Written]
    BY <1>1, <1>4 DEF FillConfig, loader, Resting
  <2>2. IsPatch(Written)
    BY WrittenIs
  <2> QED BY <2>1, <2>2, WaitingStep
<1>5. CASE /\ Parse \/ Merge
           /\ UNCHANGED <<stage, run, sources>> /\ outcome # "waiting"
  BY <1>5, ParseStep, MergeStep
<1>6. CASE Begin
  <2>1. outcome = "waiting" /\ UNCHANGED <<sources, parsed, merged, config, outcome>>
    BY <1>6 DEF Begin, loader
  <2> QED BY <2>1, WaitingStep
<1>7. CASE UNCHANGED <<stage, run, sources, parsed, merged, config, outcome>>
  <2>1. \A f \in Fields : Follows(merged, f, config[f])' <=> Follows(merged, f, config[f])
    BY <1>7 DEF Follows, SettersTo
  <2>2. Rejected' <=> Rejected
    BY <1>7 DEF Rejected, SettersTo
  <2> QED BY <1>7, <2>1, <2>2 DEF Loading, IsPatch, Fields, Resting
<1>8. CASE /\ stage \notin Resting /\ stage' # "done"
           /\ UNCHANGED <<run, sources, parsed, merged, config, outcome>>
  BY <1>1, <1>8, WaitingStep
<1> QED BY <1>2, <1>3, <1>4, <1>5, <1>6, <1>7, <1>8, FileStep

(* The file stays the wizard's own.                                        *)
LEMMA OwnFileStep ==
  ASSUME Schemas, Loading, OwnFile, [WizardNext]_wizardVars
  PROVE  OwnFile'
<1>1. outcome # "waiting" => stage \in Resting
  BY DEF Loading
<1>2. CASE StartLoad
  BY <1>2 DEF StartLoad, inputs, OwnFile, Loads, Missing,
              Malformed, Fields, Satellite
<1>3. ASSUME NEW s, sources' = [sources EXCEPT ![1] = s], Malformed = s \/ Loads(s),
             stage \in {"write", "writing"}, stage' = "done" => s # Malformed
      PROVE  OwnFile'
  <2>1. outcome = "waiting"
    BY <1>1, <1>3 DEF Resting
  <2>2. sources'[1] = s /\ sources'[2] = sources[2] /\ sources'[3] = sources[3]
    BY <1>3 DEF Loading
  <2> QED
    BY <1>3, <2>1, <2>2 DEF OwnFile, Loads, Missing, Malformed, Fields,
                            Satellite
<1>4. CASE OpenConfig
  BY <1>3, <1>4 DEF OpenConfig
<1>5. CASE FillConfig
  BY <1>3, <1>5, WrittenIs DEF FillConfig
<1>6. CASE Begin
  <2>1. outcome = "waiting" /\ stage' # "done" /\ UNCHANGED sources
    BY <1>6 DEF Begin
  <2> QED BY <2>1 DEF OwnFile, Loads, Missing, Malformed, Fields,
                      Satellite
<1>7. CASE /\ Parse \/ Merge
           /\ UNCHANGED <<stage, run, sources>> /\ outcome # "waiting"
  <2>1. outcome' # "waiting"
    BY <1>7 DEF Parse, Merge
  <2> QED BY <1>7, <2>1 DEF OwnFile, Loads, Missing, Malformed, Fields,
                            Satellite
<1>8. CASE /\ stage' = stage \/ stage' # "done"
           /\ UNCHANGED <<run, sources, parsed, merged, config, outcome>>
  BY <1>8 DEF OwnFile, Loads, Missing, Malformed, Fields,
              Satellite
<1> QED BY <1>2, <1>4, <1>5, <1>6, <1>7, <1>8, FileStep

LEMMA LoadingInit ==
  ASSUME Schemas, WizardInit
  PROVE  Loading /\ OwnFile
<1>1. /\ stage = "off" /\ run = 0 /\ parsed = 0 /\ merged = 0 /\ config = Defaults
      /\ outcome \in {"loading", "waiting"}
      /\ \/ sources \in FilePatches \X FlatPatches(2) \X FlatPatches(3)
            /\ outcome = "loading"
         \/ sources = <<Missing, Missing, Missing>>
  BY DEF WizardInit, LoaderInit
<1>2. (\E S : sources \in [1 .. 3 -> S]) /\ \A i \in 1 .. 3 : IsPatch(sources[i])
  <2>1. ASSUME NEW a, NEW b, NEW c, sources = <<a, b, c>>, IsPatch(a), IsPatch(b), IsPatch(c)
        PROVE  (\E S : sources \in [1 .. 3 -> S]) /\ \A i \in 1 .. 3 : IsPatch(sources[i])
    <3>1. sources \in [1 .. 3 -> {a, b, c}]
      BY <2>1
    <3>2. sources[1] = a /\ sources[2] = b /\ sources[3] = c
      BY <2>1
    <3> QED BY <2>1, <3>1, <3>2
  <2>2. CASE sources \in FilePatches \X FlatPatches(2) \X FlatPatches(3)
    <3>1. PICK a \in FilePatches, b \in FlatPatches(2),
               c \in FlatPatches(3) : sources = <<a, b, c>>
      BY <2>2
    <3> QED BY <2>1, <3>1, PatchTypes
  <2>3. CASE sources = <<Missing, Missing, Missing>>
    BY <2>1, <2>3, PatchTypes
  <2> QED BY <1>1, <2>2, <2>3
<1>3. ASSUME NEW f \in Fields PROVE Follows(merged, f, config[f])
  <2>1. SettersTo(merged, f) = {}
    BY <1>1 DEF SettersTo
  <2> QED BY <1>1, <2>1 DEF Follows
<1>4. \A pair \in Pairs : \A f, g \in pair : config[f] = Unset <=> config[g] = Unset
  BY <1>1 DEF Schemas, Schema
<1>5. Loading
  BY <1>1, <1>2, <1>3, <1>4 DEF Loading, Resting
<1>6. Loads(Missing)
  <2>1. "mode" \in Fields /\ Satellite \subseteq Fields /\ Unset # "satellite"
    BY DEF Schemas, WizardSchema, Fields, Modes
  <2> QED BY <2>1 DEF Loads, Missing
<1>7. OwnFile
  BY <1>1, <1>6 DEF OwnFile
<1> QED BY <1>5, <1>7

(* What loads, and what does not, comes from the sources.                  *)
LEMMA LoadingFollows ==
  ASSUME Schemas, Loading
  PROVE  LoadFollowsSources
<1>1. \A f : Setters(f) = SettersTo(3, f)
  BY DEF Setters, SettersTo
<1>2. ASSUME outcome = "loaded", NEW f \in Fields
      PROVE  config[f] = Topmost(f)
  <2>1. Follows(3, f, config[f])
    BY <1>2 DEF Loading
  <2>2. CASE SettersTo(3, f) = {}
    BY <1>1, <2>1, <2>2 DEF Follows, Topmost
  <2>3. CASE SettersTo(3, f) # {}
    <3> DEFINE top == CHOOSE i \in SettersTo(3, f) : \A j \in SettersTo(3, f) : j <= i
    <3>1. \E i \in SettersTo(3, f) : \A j \in SettersTo(3, f) : j <= i
      BY <2>3, TopmostSetter DEF SettersTo
    <3>2. top \in SettersTo(3, f) /\ \A j \in SettersTo(3, f) : j <= top
      BY <3>1
    <3>3. Topmost(f) = sources[top].set[f]
      BY <1>1, <2>3 DEF Topmost
    <3> HIDE DEF top
    <3> QED BY <2>1, <3>2, <3>3 DEF Follows
  <2> QED BY <2>2, <2>3
<1>3. ASSUME outcome = "thrown"
      PROVE  \/ \E i \in 1 .. 3 : sources[i].malformed
             \/ \E i \in 1 .. 3 : \E pair \in sources[i].mentions : \E f \in pair :
                  \A j \in Setters(f) : j > i
  BY <1>1, <1>3 DEF Loading, Rejected
<1> QED BY <1>2, <1>3 DEF Loading, LoadFollowsSources

(* The wizard's own file loads.                                            *)
LEMMA OwnFileLoads ==
  ASSUME Schemas, Loading, OwnFile
  PROVE  WrittenConfigLoads
<1> SUFFICES ASSUME run > 0
             PROVE  /\ outcome = "thrown" => sources[1] = Malformed /\ stage # "done"
                    /\ outcome = "loaded" =>
                          (config["mode"] = "satellite" <=>
                             \A f \in Satellite : config[f] # Unset)
  BY DEF WrittenConfigLoads
<1> DEFINE patch == sources[1]
<1>1. /\ sources[2] = Missing /\ sources[3] = Missing
      /\ patch = Malformed \/ Loads(patch)
      /\ stage = "done" => patch # Malformed
  BY DEF OwnFile
<1>2. /\ Missing.malformed = FALSE /\ Missing.mentions = {}
      /\ \A f \in Fields : Missing.set[f] = Unset /\ Malformed.set[f] = Unset
  BY DEF Missing, Malformed
<1>3. /\ "mode" \in Fields /\ Satellite \subseteq Fields
      /\ Unset # "satellite" /\ Defaults["mode"] = "standalone"
      /\ \A f \in Satellite : Defaults[f] = Unset
      /\ "secret" \in Satellite
  BY DEF Schemas, Schema, WizardSchema, Fields, Modes,
         Satellite
<1>4. ASSUME outcome = "thrown" PROVE patch = Malformed
  <2>1. SUFFICES ASSUME Loads(patch) PROVE FALSE
    BY <1>1
  <2>2. Rejected
    BY <1>4 DEF Loading
  <2>3. ~patch.malformed /\ patch.mentions \subseteq {Satellite}
    BY <2>1 DEF Loads
  <2>4. \A i \in 1 .. 3 : ~sources[i].malformed /\ (i # 1 => sources[i].mentions = {})
    BY <1>1, <1>2, <2>3
  <2>5. PICK pair \in patch.mentions : \E f \in pair : \A j \in SettersTo(3, f) : j > 1
    BY <2>2, <2>4 DEF Rejected
  <2>6. PICK f \in Satellite : \A j \in SettersTo(3, f) : j > 1
    BY <2>3, <2>5
  <2>7. patch.set[f] # Unset
    BY <2>1, <2>5, <2>6 DEF Loads
  <2>8. 1 \in SettersTo(3, f)
    BY <2>7 DEF SettersTo
  <2> QED BY <2>6, <2>8
<1>5. ASSUME outcome = "loaded"
      PROVE  config["mode"] = "satellite" <=> \A f \in Satellite : config[f] # Unset
  <2>1. ASSUME NEW f \in Fields
        PROVE  config[f] = IF patch.set[f] # Unset THEN patch.set[f] ELSE Defaults[f]
    <3>1. Follows(3, f, config[f])
      BY <1>5 DEF Loading
    <3>2. SettersTo(3, f) = IF patch.set[f] # Unset THEN {1} ELSE {}
      <4>1. \A i \in 1 .. 3 : i # 1 => sources[i].set[f] = Unset
        BY <1>1, <1>2
      <4> QED BY <4>1 DEF SettersTo
    <3> QED BY <3>1, <3>2 DEF Follows
  <2>2. CASE patch = Malformed
    BY <1>2, <1>3, <2>1, <2>2
  <2>3. CASE Loads(patch)
    BY <1>3, <2>1, <2>3 DEF Loads
  <2> QED BY <1>1, <2>2, <2>3
<1> QED BY <1>1, <1>4, <1>5

(* What is loaded follows the sources, the topmost that says anything of a *)
(* field before all others, and a configuration is rejected only for a     *)
(* malformed source or for a pair that a source leaves unfinished.         *)
THEOREM LoadFollows == WizardSpec => []LoadFollowsSources
<1>0. Schemas
  BY ConfigAssumption, WizardAssumption DEF Schemas
<1>1. WizardInit => Loading
  BY <1>0, LoadingInit
<1>2. Loading /\ [WizardNext]_wizardVars => Loading'
  BY <1>0, LoadingStep
<1>3. Loading => LoadFollowsSources
  BY <1>0, LoadingFollows
<1> QED BY <1>1, <1>2, <1>3, PTL DEF WizardSpec

(* What the wizard leaves after any number of runs, finished or not, can   *)
(* be loaded unless its last write was cut off, and a configuration in     *)
(* satellite mode has its link.                                            *)
THEOREM WrittenLoads == WizardSpec => []WrittenConfigLoads
<1>0. Schemas
  BY ConfigAssumption, WizardAssumption DEF Schemas
<1>1. WizardInit => Loading /\ OwnFile
  BY <1>0, LoadingInit
<1>2. Loading /\ OwnFile /\ [WizardNext]_wizardVars => (Loading /\ OwnFile)'
  BY <1>0, LoadingStep, OwnFileStep
<1>3. Loading /\ OwnFile => WrittenConfigLoads
  BY <1>0, OwnFileLoads
<1> QED BY <1>1, <1>2, <1>3, PTL DEF WizardSpec
=============================================================================
