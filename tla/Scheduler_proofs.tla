-------------------------- MODULE Scheduler_proofs --------------------------
(***************************************************************************)
(* Proofs about both schedulers, Scheduler and ConcurrentScheduler, for    *)
(* any tasks, agents and slots: types, the order of the queue, and the     *)
(* runs that are awaited.  The ticks of the two classes differ in what     *)
(* becomes of a task that is dispatched; what they do to the queue is the  *)
(* same, and is stated once (CutsQueue).                                   *)
(***************************************************************************)
EXTENDS ConcurrentScheduler, SequenceLemmas, FiniteSetTheorems, FunctionTheorems

(* A count of positions of a sequence is a position or zero; when they are *)
(* those that come first, it is the last of them.                          *)
LEMMA CountBounded ==
  ASSUME NEW n \in Nat, NEW S \in SUBSET (1 .. n)
  PROVE  Cardinality(S) \in 0 .. n
<1>1. IsFiniteSet(1 .. n) /\ Cardinality(1 .. n) = n
  BY FS_Interval
<1>2. IsFiniteSet(S) /\ Cardinality(S) <= n
  BY <1>1, FS_Subset
<1> QED BY <1>2, FS_CardinalityType

LEMMA PrefixCount ==
  ASSUME NEW n \in Nat, NEW S \in SUBSET (1 .. n), \A i \in S : \A j \in 1 .. i : j \in S
  PROVE  Cardinality(S) \in 0 .. n /\ S = 1 .. Cardinality(S)
<1> DEFINE T == {i \in 0 .. n : i + 1 \notin S}
<1>1. n \in T /\ T \in SUBSET Nat
  OBVIOUS
<1>2. PICK k \in T : \A i \in T : ~(i < k)
  <2> HIDE DEF T
  <2> QED BY <1>1, Least
<1>3. k \in 0 .. n /\ k + 1 \notin S
  BY <1>2
<1>4. ASSUME NEW j \in 1 .. k PROVE j \in S
  <2>1. j - 1 \in 0 .. n /\ j - 1 < k /\ (j - 1) + 1 = j
    BY <1>3
  <2>2. j - 1 \notin T
    BY <1>2, <2>1
  <2> QED BY <2>1, <2>2
<1>5. ASSUME NEW i \in S PROVE i \in 1 .. k
  <2>1. SUFFICES ASSUME i > k PROVE FALSE
    BY <1>3
  <2>2. k + 1 \in 1 .. i
    BY <1>3, <2>1
  <2> QED BY <1>3, <2>2
<1>6. S = 1 .. k
  BY <1>4, <1>5
<1>7. Cardinality(1 .. k) = k
  BY <1>3, FS_Interval
<1> QED BY <1>3, <1>6, <1>7

(* Where the tasks of a queue are after an insertion.                      *)
Inserted(q, t, k) == SubSeq(q, 1, k) \o <<t>> \o SubSeq(q, k + 1, Len(q))

LEMMA InsertedPlaces ==
  ASSUME NEW q \in Seq(Tasks), NEW t \in Tasks, NEW k \in 0 .. Len(q)
  PROVE  /\ Inserted(q, t, k) \in Seq(Tasks)
         /\ Len(Inserted(q, t, k)) = Len(q) + 1
         /\ \A i \in 1 .. Len(q) + 1 :
               Inserted(q, t, k)[i] = IF i <= k THEN q[i]
                                      ELSE IF i = k + 1 THEN t ELSE q[i - 1]
<1> DEFINE a == SubSeq(q, 1, k)
           b == SubSeq(q, k + 1, Len(q))
<1>1. k \in 0 .. Len(q) /\ Len(q) \in Nat
  OBVIOUS
<1>2. /\ a \in Seq(Tasks) /\ Len(a) = k
      /\ \A i \in 1 .. k : a[i] = q[i]
  BY <1>1, SubSeqProperties
<1>3. /\ b \in Seq(Tasks) /\ Len(b) = Len(q) - k
      /\ \A i \in 1 .. Len(q) - k : b[i] = q[k + i]
  BY <1>1, SubSeqProperties
<1> HIDE DEF a, b
<1>4. <<t>> \in Seq(Tasks) /\ Len(<<t>>) = 1 /\ <<t>>[1] = t
  OBVIOUS
<1> DEFINE c == a \o <<t>>
<1>5. /\ c \in Seq(Tasks) /\ Len(c) = k + 1
      /\ \A i \in 1 .. k + 1 : c[i] = IF i <= k THEN q[i] ELSE t
  BY <1>1, <1>2, <1>4, ConcatProperties
<1> HIDE DEF c
<1>6. /\ Len(c \o b) = Len(q) + 1
      /\ \A i \in 1 .. Len(q) + 1 : (c \o b)[i] = IF i <= k + 1 THEN c[i] ELSE b[i - (k + 1)]
  <2>1. /\ Len(c \o b) = Len(c) + Len(b)
        /\ \A i \in 1 .. Len(c) + Len(b) :
              (c \o b)[i] = IF i <= Len(c) THEN c[i] ELSE b[i - Len(c)]
    BY <1>3, <1>5, ConcatProperties
  <2>2. Len(c) + Len(b) = Len(q) + 1
    BY <1>1, <1>3, <1>5
  <2> QED BY <1>5, <2>1, <2>2
<1>7. \A i \in 1 .. Len(q) + 1 :
         (c \o b)[i] = IF i <= k THEN q[i] ELSE IF i = k + 1 THEN t ELSE q[i - 1]
  <2> TAKE i \in 1 .. Len(q) + 1
  <2>1. CASE i <= k + 1
    BY <1>1, <1>5, <1>6, <2>1
  <2>2. CASE ~(i <= k + 1)
    <3>1. i - (k + 1) \in 1 .. Len(q) - k /\ k + (i - (k + 1)) = i - 1
      BY <1>1, <2>2
    <3> QED BY <1>1, <1>3, <1>6, <2>2, <3>1
  <2> QED BY <2>1, <2>2
<1>8. Inserted(q, t, k) = c \o b
  BY DEF Inserted, a, b, c
<1>9. c \o b \in Seq(Tasks)
  BY <1>3, <1>5, ConcatProperties
<1> QED BY <1>6, <1>7, <1>8, <1>9

(* A queue in which nothing comes before what is due earlier.              *)
InTime(q, when) == \A i, j \in 1 .. Len(q) : i < j => when[q[i]] <= when[q[j]]

(* The position of an insertion is behind all that is due no later.        *)
LEMMA InsertIndex ==
  ASSUME NEW q \in Seq(Tasks), NEW at \in Nat, NEW when \in [Tasks -> Nat], InTime(q, when)
  PROVE  /\ FindInsertIndex(q, at, when) \in 0 .. Len(q)
         /\ \A i \in 1 .. Len(q) : when[q[i]] <= at <=> i <= FindInsertIndex(q, at, when)
<1> DEFINE S == {i \in 1 .. Len(q) : when[q[i]] <= at}
           k == FindInsertIndex(q, at, when)
<1>1. Len(q) \in Nat /\ \A i \in 1 .. Len(q) : when[q[i]] \in Nat
  OBVIOUS
<1>2. ASSUME NEW i \in S, NEW j \in 1 .. i PROVE j \in S
  <2>1. j \in 1 .. Len(q) /\ (j = i \/ j < i)
    BY <1>1
  <2>2. when[q[j]] <= when[q[i]]
    BY <1>1, <2>1 DEF InTime
  <2> QED BY <1>1, <2>1, <2>2
<1>3. k = Cardinality(S)
  BY DEF FindInsertIndex
<1> HIDE DEF k
<1>4. k \in 0 .. Len(q) /\ S = 1 .. k
  <2>1. S \in SUBSET (1 .. Len(q))
    OBVIOUS
  <2> HIDE DEF S
  <2> QED BY <1>1, <1>2, <1>3, <2>1, PrefixCount
<1>5. ASSUME NEW i \in 1 .. Len(q) PROVE when[q[i]] <= at <=> i <= k
  <2>1. k \in Nat /\ i \in Nat /\ 1 <= i
    BY <1>1, <1>4
  <2>2. i \in 1 .. k <=> i <= k
    BY ONLY <2>1
  <2>3. i \in S <=> when[q[i]] <= at
    OBVIOUS
  <2> HIDE DEF S
  <2> QED BY ONLY <1>4, <2>2, <2>3
<1> QED BY <1>4, <1>5 DEF k
-----------------------------------------------------------------------------
InFlightFinite == IsFiniteSet(InFlight)

(* The queue is cut where the tasks cease to be due, ...                   *)
LEMMA DuePlaces ==
  ASSUME TypeOK
  PROVE  /\ Due \in Seq(Tasks) /\ Rest \in Seq(Tasks)
         /\ Len(Due) \in 0 .. Len(queue) /\ Len(Rest) = Len(queue) - Len(Due)
         /\ \A i \in 1 .. Len(Due) : Due[i] = queue[i] /\ runAt[queue[i]] <= clock
         /\ \A i \in 1 .. Len(Rest) : Rest[i] = queue[Len(Due) + i]
         /\ Len(Due) < Len(queue) => ~(runAt[queue[Len(Due) + 1]] <= clock)
<1> DEFINE S == {i \in 1 .. Len(queue) : \A j \in 1 .. i : runAt[queue[j]] <= clock}
           d == DueCount(queue, clock, runAt)
<1>1. queue \in Seq(Tasks) /\ Len(queue) \in Nat
  BY DEF TypeOK
<1>2. \A i \in S : \A j \in 1 .. i : j \in S
  BY <1>1
<1>3. d = Cardinality(S) /\ Due = SubSeq(queue, 1, d) /\ Rest = SubSeq(queue, d + 1, Len(queue))
  BY DEF DueCount, Due, Rest
<1> HIDE DEF d
<1>4. d \in 0 .. Len(queue) /\ S = 1 .. d
  <2>1. S \in SUBSET (1 .. Len(queue))
    OBVIOUS
  <2> HIDE DEF S
  <2> QED BY <1>1, <1>2, <1>3, <2>1, PrefixCount
<1>5. \A i \in 1 .. d : runAt[queue[i]] <= clock
  <2> TAKE i \in 1 .. d
  <2>1. i \in S /\ i \in 1 .. i
    BY <1>1, <1>4
  <2> QED BY <2>1
<1>6. d < Len(queue) => ~(runAt[queue[d + 1]] <= clock)
  <2> SUFFICES ASSUME d < Len(queue), runAt[queue[d + 1]] <= clock PROVE FALSE
    OBVIOUS
  <2>1. d + 1 \in 1 .. Len(queue) /\ \A j \in 1 .. d + 1 : j \in 1 .. d \/ j = d + 1
    BY <1>1, <1>4
  <2>2. d + 1 \in S
    BY <1>5, <2>1
  <2> QED BY <1>1, <1>4, <2>2
<1> HIDE DEF S
<1>7. /\ Due \in Seq(Tasks) /\ Len(Due) = d
      /\ \A i \in 1 .. d : Due[i] = queue[i]
  BY <1>1, <1>3, <1>4, SubSeqProperties
<1>8. /\ Rest \in Seq(Tasks) /\ Len(Rest) = Len(queue) - d
      /\ \A i \in 1 .. Len(queue) - d : Rest[i] = queue[d + i]
  BY <1>1, <1>3, <1>4, SubSeqProperties
<1> QED BY <1>4, <1>5, <1>6, <1>7, <1>8

(* ... and again before the first task of an unknown agent.                *)
LEMMA KnownPlaces ==
  ASSUME TypeOK
  PROVE  /\ Known(Due) \in 0 .. Len(Due)
         /\ Known(Due) < Len(Due) => AgentOf[queue[Known(Due) + 1]] \notin registered
<1> DEFINE S == {i \in 1 .. Len(Due) : \A j \in 1 .. i : AgentOf[Due[j]] \in registered}
           k == Known(Due)
<1>1. Len(Due) \in Nat /\ \A i \in 1 .. Len(Due) : Due[i] = queue[i]
  BY DuePlaces DEF TypeOK
<1>2. \A i \in S : \A j \in 1 .. i : j \in S
  BY <1>1
<1>3. k = Cardinality(S)
  BY DEF Known
<1> HIDE DEF k
<1>4. k \in 0 .. Len(Due) /\ S = 1 .. k
  <2>1. S \in SUBSET (1 .. Len(Due))
    OBVIOUS
  <2> HIDE DEF S
  <2> QED BY <1>1, <1>2, <1>3, <2>1, PrefixCount
<1>5. ASSUME k < Len(Due), AgentOf[queue[k + 1]] \in registered PROVE FALSE
  <2>1. k + 1 \in 1 .. Len(Due) /\ \A j \in 1 .. k + 1 : j \in 1 .. k \/ j = k + 1
    BY <1>1, <1>4, <1>5
  <2>2. \A j \in 1 .. k : AgentOf[Due[j]] \in registered
    <3> TAKE j \in 1 .. k
    <3>1. j \in S /\ j \in 1 .. j
      BY <1>1, <1>4
    <3> QED BY <3>1
  <2>3. k + 1 \in S
    BY <1>1, <1>5, <2>1, <2>2
  <2> QED BY <1>1, <1>4, <2>3
<1> QED BY <1>4, <1>5 DEF k
-----------------------------------------------------------------------------
(* Task queue[i], when all up to it are dispatched, starts its agent.      *)
Starts(i) ==
    /\ agentState[AgentOf[queue[i]]] = "init"
    /\ \A j \in 1 .. i - 1 : AgentOf[queue[j]] # AgentOf[queue[i]]

Started(n) == {a \in Agents : agentState[a] = "init" /\ \E i \in 1 .. n : AgentOf[queue[i]] = a}

(* What the ticks of both classes do: d tasks are due, the first n are     *)
(* dispatched, and the queue loses m, the others of which are lost.        *)
CutsQueue(n, m, d) ==
    /\ d \in 0 .. Len(queue) /\ n \in 0 .. d /\ m \in {n, d}
    /\ \A i \in 1 .. d : runAt[queue[i]] <= clock
    /\ queue' \in Seq(Tasks) /\ Len(queue') = Len(queue) - m
    /\ \A i \in 1 .. Len(queue) - m : queue'[i] = queue[m + i]
    /\ task' \in [Tasks -> TaskStates]
    /\ \A i \in 1 .. n :
          /\ task'[queue[i]] \in InFlightStates
          /\ task'[queue[i]] = "waiting" <=> Starts(i)
          /\ class = "ConcurrentScheduler" => task'[queue[i]] # "rejecting"
    /\ \A i \in n + 1 .. m : task'[queue[i]] = "lost"
    /\ m > n => AgentOf[queue[n + 1]] \notin registered
    /\ \A t \in Tasks : (\A i \in 1 .. m : queue[i] # t) => task'[t] = task[t]
    /\ running' = running \cup Started(n)
    /\ agentState' = [a \in Agents |-> IF a \in Started(n) THEN "running" ELSE agentState[a]]
    /\ InFlightBounded => Cardinality(InFlight) + n <= MaxConcurrent
    /\ ~stopped
    /\ UNCHANGED <<clock, runAt, registered, aborted, stopPc, awaited, unhandled, arrival>>

(* The parts of the queue at a tick that dispatches n tasks.               *)
Sent(n) == SubSeq(Due, 1, n)
Left(n) == SubSeq(Due, n + 1, Len(Due))

LEMMA SentAndLeft ==
  ASSUME TypeOK, NEW n \in 0 .. Len(Due)
  PROVE  /\ \A i \in 1 .. n : Sent(n)[i] = queue[i]
         /\ Left(n) \in Seq(Tasks) /\ Len(Left(n)) = Len(Due) - n
         /\ \A i \in 1 .. Len(Due) - n : Left(n)[i] = queue[n + i]
         /\ Left(n) \o Rest \in Seq(Tasks) /\ Len(Left(n) \o Rest) = Len(queue) - n
         /\ \A i \in 1 .. Len(queue) - n : (Left(n) \o Rest)[i] = queue[n + i]
<1> DEFINE d == Len(Due)
           sent == Sent(n)
           left == Left(n)
<1>1. /\ Len(queue) \in Nat /\ Due \in Seq(Tasks) /\ Rest \in Seq(Tasks)
      /\ d \in 0 .. Len(queue) /\ n \in 0 .. d /\ Len(Rest) = Len(queue) - d
      /\ \A i \in 1 .. d : Due[i] = queue[i]
      /\ \A i \in 1 .. Len(Rest) : Rest[i] = queue[d + i]
  BY DuePlaces DEF TypeOK
<1>3. \A i \in 1 .. n : sent[i] = queue[i]
  BY <1>1, SubSeqProperties DEF Sent
<1>4. /\ left \in Seq(Tasks) /\ Len(left) = d - n
      /\ \A i \in 1 .. d - n : left[i] = queue[n + i]
  <2>1. \A i \in n + 1 .. d : Due[i] \in Tasks
    BY <1>1
  <2>2. /\ left \in Seq(Tasks) /\ Len(left) = d - n
        /\ \A i \in 1 .. d - n : left[i] = Due[n + 1 + i - 1]
    BY <1>1, <2>1, SubSeqProperties DEF Left
  <2>3. \A i \in 1 .. d - n : n + 1 + i - 1 = n + i /\ n + i \in 1 .. d
    BY <1>1
  <2> QED BY <1>1, <2>2, <2>3
<1> HIDE DEF sent, left
<1>5. /\ left \o Rest \in Seq(Tasks) /\ Len(left \o Rest) = Len(left) + Len(Rest)
      /\ \A i \in 1 .. Len(left) + Len(Rest) :
            (left \o Rest)[i] = IF i <= Len(left) THEN left[i] ELSE Rest[i - Len(left)]
  BY <1>1, <1>4, ConcatProperties
<1>6. Len(left) + Len(Rest) = Len(queue) - n
  BY <1>1, <1>4
<1>7. ASSUME NEW i \in 1 .. Len(queue) - n PROVE (left \o Rest)[i] = queue[n + i]
  <2>1. CASE i <= d - n
    <3>1. i \in 1 .. d - n /\ i \in 1 .. Len(left) + Len(Rest) /\ i <= Len(left)
      BY <1>1, <1>4, <1>6, <2>1
    <3> QED BY <1>4, <1>5, <3>1
  <2>2. CASE ~(i <= d - n)
    <3>1. /\ i - (d - n) \in 1 .. Len(Rest) /\ d + (i - (d - n)) = n + i
          /\ i \in 1 .. Len(left) + Len(Rest) /\ ~(i <= Len(left))
      BY <1>1, <1>4, <1>6, <2>2
    <3>2. (left \o Rest)[i] = Rest[i - (d - n)]
      BY <1>4, <1>5, <3>1
    <3> QED BY <1>1, <3>1, <3>2
  <2> QED BY <2>1, <2>2
<1> QED BY <1>3, <1>4, <1>5, <1>6, <1>7 DEF sent, left

(* What becomes of the tasks of a tick: out[i] of the i-th that is sent.   *)
CutTasks(n, throws, out) ==
    task' = [t \in Tasks |->
               IF \E i \in 1 .. n : Sent(n)[i] = t
               THEN out[CHOOSE i \in 1 .. n : Sent(n)[i] = t]
               ELSE IF throws /\ \E i \in 1 .. Len(Left(n)) : Left(n)[i] = t
               THEN "lost" ELSE task[t]]

LEMMA CutPlaces ==
  ASSUME TypeOK, QueuedOnce, NEW n \in 0 .. Len(Due), NEW throws \in BOOLEAN, NEW out,
         CutTasks(n, throws, out)
  PROVE  /\ \A i \in 1 .. n : task'[queue[i]] = out[i]
         /\ throws => \A i \in n + 1 .. Len(Due) : task'[queue[i]] = "lost"
         /\ \A t \in Tasks : /\ \A i \in 1 .. n : queue[i] # t
                             /\ throws => \A i \in 1 .. Len(Due) : queue[i] # t
                             => task'[t] = task[t]
<1> DEFINE d == Len(Due)
           place(t) == CHOOSE i \in 1 .. n : Sent(n)[i] = t
<1>1. /\ Len(queue) \in Nat /\ d \in 0 .. Len(queue) /\ n \in 0 .. d
      /\ \A i \in 1 .. Len(queue) : queue[i] \in Tasks
  BY DuePlaces DEF TypeOK
<1>2. /\ \A i \in 1 .. n : Sent(n)[i] = queue[i]
      /\ Len(Left(n)) = d - n
      /\ \A i \in 1 .. d - n : Left(n)[i] = queue[n + i]
  BY SentAndLeft
<1>3. \A i, j \in 1 .. Len(queue) : queue[i] = queue[j] => i = j
  BY DEF QueuedOnce
<1>4. ASSUME NEW i \in 1 .. n PROVE task'[queue[i]] = out[i]
  <2>1. i \in 1 .. Len(queue) /\ queue[i] \in Tasks /\ Sent(n)[i] = queue[i]
    BY <1>1, <1>2
  <2>2. task'[queue[i]] = out[place(queue[i])]
    BY <2>1 DEF CutTasks
  <2>3. place(queue[i]) \in 1 .. n /\ Sent(n)[place(queue[i])] = queue[i]
    BY <2>1
  <2> HIDE DEF place
  <2>4. place(queue[i]) = i
    <3>1. place(queue[i]) \in 1 .. Len(queue) /\ queue[place(queue[i])] = queue[i]
      BY <1>1, <1>2, <2>3
    <3> QED BY <1>3, <2>1, <3>1
  <2> QED BY <2>2, <2>4
<1> HIDE DEF place
<1>5. ASSUME throws, NEW i \in n + 1 .. d PROVE task'[queue[i]] = "lost"
  <2>1. /\ i \in 1 .. Len(queue) /\ queue[i] \in Tasks
        /\ i - n \in 1 .. d - n /\ n + (i - n) = i
    BY <1>1
  <2>2. Left(n)[i - n] = queue[i] /\ i - n \in 1 .. Len(Left(n))
    BY <1>2, <2>1
  <2>3. ~ \E j \in 1 .. n : Sent(n)[j] = queue[i]
    <3> SUFFICES ASSUME NEW j \in 1 .. n, Sent(n)[j] = queue[i] PROVE FALSE
      OBVIOUS
    <3>1. j \in 1 .. Len(queue) /\ queue[j] = queue[i] /\ j # i
      BY <1>1, <1>2
    <3> QED BY <1>3, <2>1, <3>1
  <2> QED BY <1>5, <2>1, <2>2, <2>3 DEF CutTasks
<1>6. ASSUME NEW t \in Tasks, \A i \in 1 .. n : queue[i] # t,
             throws => \A i \in 1 .. d : queue[i] # t
      PROVE  task'[t] = task[t]
  <2>1. \A i \in 1 .. n : Sent(n)[i] # t
    BY <1>2, <1>6
  <2>2. throws => \A i \in 1 .. Len(Left(n)) : Left(n)[i] # t
    <3>1. \A i \in 1 .. d - n : n + i \in 1 .. d
      BY <1>1
    <3> QED BY <1>2, <1>6, <3>1
  <2> QED BY <2>1, <2>2 DEF CutTasks
<1> QED BY <1>4, <1>5, <1>6
LEMMA CutShape ==
  ASSUME TypeOK, QueuedOnce, NEW n \in 0 .. Len(Due), NEW throws \in BOOLEAN,
         NEW out \in [1 .. n -> InFlightStates], CutTasks(n, throws, out),
         queue' = IF throws THEN Rest ELSE Left(n) \o Rest
  PROVE  LET m == IF throws THEN Len(Due) ELSE n IN
         /\ queue' \in Seq(Tasks) /\ Len(queue') = Len(queue) - m
         /\ \A i \in 1 .. Len(queue) - m : queue'[i] = queue[m + i]
         /\ task' \in [Tasks -> TaskStates]
         /\ \A i \in 1 .. n : task'[queue[i]] = out[i]
         /\ \A i \in n + 1 .. m : task'[queue[i]] = "lost"
         /\ \A t \in Tasks : (\A i \in 1 .. m : queue[i] # t) => task'[t] = task[t]
<1> DEFINE d == Len(Due)
<1>1. /\ Len(queue) \in Nat /\ d \in 0 .. Len(queue) /\ n \in 0 .. d
      /\ Rest \in Seq(Tasks) /\ Len(Rest) = Len(queue) - d
      /\ \A i \in 1 .. Len(Rest) : Rest[i] = queue[d + i]
  BY DuePlaces DEF TypeOK
<1>2. /\ \A i \in 1 .. n : task'[queue[i]] = out[i]
      /\ throws => \A i \in n + 1 .. d : task'[queue[i]] = "lost"
      /\ \A t \in Tasks : /\ \A i \in 1 .. n : queue[i] # t
                          /\ throws => \A i \in 1 .. d : queue[i] # t
                          => task'[t] = task[t]
  BY CutPlaces
<1>3. task' \in [Tasks -> TaskStates]
  <2>1. \A t \in Tasks : (\E i \in 1 .. n : Sent(n)[i] = t) =>
            (CHOOSE i \in 1 .. n : Sent(n)[i] = t) \in 1 .. n
    OBVIOUS
  <2>2. \A i \in 1 .. n : out[i] \in TaskStates
    BY DEF TaskStates
  <2> QED BY <2>1, <2>2 DEF CutTasks, TypeOK, TaskStates
<1> HIDE DEF d
<1>4. CASE throws
  <2>1. \A t \in Tasks : (\A i \in 1 .. d : queue[i] # t) => task'[t] = task[t]
    <3>1. \A i \in 1 .. n : i \in 1 .. d
      BY <1>1
    <3> QED BY <1>2, <3>1
  <2> QED BY <1>1, <1>2, <1>3, <1>4, <2>1 DEF d
<1>5. CASE ~throws
  <2>1. /\ Left(n) \o Rest \in Seq(Tasks) /\ Len(Left(n) \o Rest) = Len(queue) - n
        /\ \A i \in 1 .. Len(queue) - n : (Left(n) \o Rest)[i] = queue[n + i]
    BY SentAndLeft
  <2>2. \A i \in n + 1 .. n : FALSE
    BY <1>1
  <2> QED BY <1>2, <1>3, <1>5, <2>1, <2>2
<1> QED BY <1>4, <1>5

(* A tick dispatches no more tasks than are due, nor than there are slots. *)
LEMMA DispatchedBounds ==
  ASSUME TypeOK, InFlightFinite
  PROVE  /\ Dispatched(Due) \in 0 .. Len(Due)
         /\ Throws(Due) => Dispatched(Due) = Known(Due) /\ Known(Due) < Len(Due)
         /\ InFlightBounded => Cardinality(InFlight) + Dispatched(Due) <= MaxConcurrent
<1>1. Len(Due) \in Nat /\ Known(Due) \in 0 .. Len(Due)
  BY DuePlaces, KnownPlaces DEF TypeOK
<1>2. Cardinality(InFlight) \in Nat
  BY FS_CardinalityType DEF InFlightFinite
<1>3. Free \in Nat /\ (InFlightBounded => Cardinality(InFlight) + Free <= MaxConcurrent)
  BY <1>2, SchedulerAssumption DEF Free, InFlightBounded
<1> HIDE DEF InFlightBounded
<1> QED BY <1>1, <1>2, <1>3, SchedulerAssumption DEF Dispatched, Throws

LEMMA SameStarter ==
  ASSUME TypeOK, NEW n \in 0 .. Len(Due), NEW i \in 1 .. n
  PROVE  /\ AgentOf[Sent(n)[i]] = AgentOf[queue[i]]
         /\ agentState[AgentOf[queue[i]]] = "init" /\ Starter(Sent(n), i) <=> Starts(i)
<1>1. \A j \in 1 .. n : Sent(n)[j] = queue[j]
  BY SentAndLeft
<1>2. \A j \in 1 .. i - 1 : j \in 1 .. n
  BY <1>1
<1> QED BY <1>1, <1>2 DEF Starter, Starts

(* The tick of the single-pass scheduler is such a cut, ...                *)
LEMMA TickCuts ==
  ASSUME TypeOK, InFlightFinite, QueuedOnce, Tick, class # "ConcurrentScheduler"
  PROVE  \E n, m, d : CutsQueue(n, m, d)
<1> DEFINE n == Dispatched(Due)
           d == Len(Due)
           m == IF Throws(Due) THEN d ELSE n
           out == [i \in 1 .. n |-> DispatchOutcome(Sent(n), i)]
<1>1. /\ n \in 0 .. d /\ d \in 0 .. Len(queue) /\ Throws(Due) \in BOOLEAN
      /\ Throws(Due) => AgentOf[queue[n + 1]] \notin registered
      /\ InFlightBounded => Cardinality(InFlight) + n <= MaxConcurrent
      /\ \A i \in 1 .. d : runAt[queue[i]] <= clock
  BY DispatchedBounds, DuePlaces, KnownPlaces DEF Throws
<1>2. out \in [1 .. n -> InFlightStates]
  BY DEF DispatchOutcome, InFlightStates
<1>3. CutTasks(n, Throws(Due), out)
  <2>1. \A t \in Tasks : (\E i \in 1 .. n : Sent(n)[i] = t) =>
            (CHOOSE i \in 1 .. n : Sent(n)[i] = t) \in 1 .. n
    OBVIOUS
  <2>2. task' = [t \in Tasks |->
                  IF \E i \in 1 .. n : Sent(n)[i] = t
                  THEN DispatchOutcome(Sent(n), CHOOSE i \in 1 .. n : Sent(n)[i] = t)
                  ELSE IF Throws(Due) /\ \E i \in 1 .. Len(Left(n)) : Left(n)[i] = t
                  THEN "lost" ELSE task[t]]
    BY DEF Tick, Sent, Left
  <2> HIDE DEF n
  <2> QED BY <2>1, <2>2 DEF CutTasks
<1>4. queue' = IF Throws(Due) THEN Rest ELSE Left(n) \o Rest
  BY DEF Tick, Left
<1>5. /\ queue' \in Seq(Tasks) /\ Len(queue') = Len(queue) - m
      /\ \A i \in 1 .. Len(queue) - m : queue'[i] = queue[m + i]
      /\ task' \in [Tasks -> TaskStates]
      /\ \A i \in 1 .. n : task'[queue[i]] = out[i]
      /\ \A i \in n + 1 .. m : task'[queue[i]] = "lost"
      /\ \A t \in Tasks : (\A i \in 1 .. m : queue[i] # t) => task'[t] = task[t]
  <2> HIDE DEF n, out
  <2> QED BY <1>1, <1>2, <1>3, <1>4, CutShape
<1>6. {a \in Agents : agentState[a] = "init" /\ \E i \in 1 .. n : AgentOf[Sent(n)[i]] = a}
        = Started(n)
  BY <1>1, SameStarter DEF Started
<1>7. /\ running' = running \cup Started(n)
      /\ agentState' = [a \in Agents |-> IF a \in Started(n) THEN "running" ELSE agentState[a]]
      /\ ~stopped
      /\ UNCHANGED <<clock, runAt, registered, aborted, stopPc, awaited, unhandled, arrival>>
  BY <1>6 DEF Tick, Sent, stopVars
<1>8. ASSUME NEW i \in 1 .. n
      PROVE  out[i] \in InFlightStates /\ (out[i] = "waiting" <=> Starts(i))
  <2>1. AgentOf[Sent(n)[i]] = AgentOf[queue[i]]
        /\ (agentState[AgentOf[queue[i]]] = "init" /\ Starter(Sent(n), i) <=> Starts(i))
    BY <1>1, SameStarter
  <2> HIDE DEF n
  <2>2. out[i] = DispatchOutcome(Sent(n), i)
    OBVIOUS
  <2> HIDE DEF out
  <2> QED BY <1>2, <2>1, <2>2 DEF DispatchOutcome, Starts
<1> HIDE DEF n, d, out
<1>9. CutsQueue(n, m, d)
  BY <1>1, <1>5, <1>7, <1>8 DEF CutsQueue
<1> QED BY <1>9

(* ... and so is that of the isolating one.                                *)
LEMMA ActiveInFlight == Active = InFlight
BY SchedulerAssumption DEF Active, InFlight

LEMMA ConcurrentCuts ==
  ASSUME TypeOK, InFlightFinite, QueuedOnce, ConcurrentTick
  PROVE  \E n, m, d : CutsQueue(n, m, d)
<1> DEFINE n == Dispatched(Due)
           d == Len(Due)
           m == IF Throws(Due) THEN d ELSE n
           out == [i \in 1 .. n |-> ConcurrentOutcome(Sent(n), i)]
<1>0. /\ n = IF Known(Due) < ConcurrentFree THEN Known(Due) ELSE ConcurrentFree
      /\ Throws(Due) = (Known(Due) < Len(Due) /\ Known(Due) < ConcurrentFree)
  BY ActiveInFlight DEF ConcurrentFree, Free, Dispatched, Throws
<1>1. /\ n \in 0 .. d /\ d \in 0 .. Len(queue) /\ Throws(Due) \in BOOLEAN
      /\ Throws(Due) => AgentOf[queue[n + 1]] \notin registered
      /\ InFlightBounded => Cardinality(InFlight) + n <= MaxConcurrent
      /\ \A i \in 1 .. d : runAt[queue[i]] <= clock
  BY DispatchedBounds, DuePlaces, KnownPlaces DEF Throws
<1>2. out \in [1 .. n -> InFlightStates]
  BY DEF ConcurrentOutcome, InFlightStates
<1>3. CutTasks(n, Throws(Due), out)
  <2>1. \A t \in Tasks : (\E i \in 1 .. n : Sent(n)[i] = t) =>
            (CHOOSE i \in 1 .. n : Sent(n)[i] = t) \in 1 .. n
    OBVIOUS
  <2>2. task' = [t \in Tasks |->
                  CASE t \in {Sent(n)[i] : i \in 1 .. n} ->
                         ConcurrentOutcome(Sent(n), CHOOSE i \in 1 .. n : Sent(n)[i] = t)
                    [] Throws(Due) /\ t \in {Left(n)[i] : i \in 1 .. Len(Left(n))} -> "lost"
                    [] OTHER -> task[t]]
    BY <1>0 DEF ConcurrentTick, Sent, Left
  <2> HIDE DEF n
  <2>3. ASSUME NEW t \in Tasks
        PROVE  task'[t] = IF \E i \in 1 .. n : Sent(n)[i] = t
                          THEN out[CHOOSE i \in 1 .. n : Sent(n)[i] = t]
                          ELSE IF Throws(Due) /\ \E i \in 1 .. Len(Left(n)) : Left(n)[i] = t
                          THEN "lost" ELSE task[t]
    <3>1. t \in {Sent(n)[i] : i \in 1 .. n} <=> \E i \in 1 .. n : Sent(n)[i] = t
      OBVIOUS
    <3>2. t \in {Left(n)[i] : i \in 1 .. Len(Left(n))} <=>
              \E i \in 1 .. Len(Left(n)) : Left(n)[i] = t
      OBVIOUS
    <3>3. ASSUME NEW i \in 1 .. n, Sent(n)[i] = t, NEW j \in 1 .. Len(Left(n)), Left(n)[j] = t
          PROVE  FALSE
      <4>1. Sent(n)[i] = queue[i] /\ Len(Left(n)) = d - n /\ Left(n)[j] = queue[n + j]
        BY <1>1, SentAndLeft
      <4>2. n \in Nat /\ d \in Nat /\ Len(queue) \in Nat /\ n <= d /\ d <= Len(queue)
        BY <1>1 DEF TypeOK
      <4> HIDE DEF d
      <4>3. 1 <= i /\ i <= n /\ i \in Nat /\ 1 <= j /\ j <= d - n /\ j \in Nat
        BY <4>1, <4>2
      <4>4. i \in 1 .. Len(queue) /\ n + j \in 1 .. Len(queue) /\ i # n + j
        BY ONLY <4>2, <4>3
      <4> QED BY <3>3, <4>1, <4>4 DEF QueuedOnce
    <3>4. CASE \E i \in 1 .. n : Sent(n)[i] = t
      BY <2>1, <2>2, <3>1, <3>2, <3>3, <3>4
    <3>5. CASE ~ \E i \in 1 .. n : Sent(n)[i] = t
      BY <2>2, <3>1, <3>2, <3>5
    <3> QED BY <3>4, <3>5
  <2>4. task' = [t \in Tasks |-> task'[t]]
    BY <2>2
  <2> HIDE DEF out
  <2> QED BY <2>3, <2>4 DEF CutTasks
<1>4. queue' = IF Throws(Due) THEN Rest ELSE Left(n) \o Rest
  BY <1>0 DEF ConcurrentTick, Left
<1>5. /\ queue' \in Seq(Tasks) /\ Len(queue') = Len(queue) - m
      /\ \A i \in 1 .. Len(queue) - m : queue'[i] = queue[m + i]
      /\ task' \in [Tasks -> TaskStates]
      /\ \A i \in 1 .. n : task'[queue[i]] = out[i]
      /\ \A i \in n + 1 .. m : task'[queue[i]] = "lost"
      /\ \A t \in Tasks : (\A i \in 1 .. m : queue[i] # t) => task'[t] = task[t]
  <2> HIDE DEF n, out
  <2> QED BY <1>1, <1>2, <1>3, <1>4, CutShape
<1>6. {AgentOf[t] : t \in {Sent(n)[i] : i \in 1 .. n}} \cap {a \in Agents : agentState[a] = "init"}
        = Started(n)
  BY <1>1, SameStarter DEF Started
<1>7. /\ running' = running \cup Started(n)
      /\ agentState' = [a \in Agents |-> IF a \in Started(n) THEN "running" ELSE agentState[a]]
      /\ ~stopped
      /\ UNCHANGED <<clock, runAt, registered, aborted, stopPc, awaited, unhandled, arrival>>
  <2> HIDE DEF n, d, m, out
  <2> DEFINE started == {AgentOf[t] : t \in {Sent(n)[i] : i \in 1 .. n}}
                          \cap {a \in Agents : agentState[a] = "init"}
  <2>1. /\ running' = running \cup started
        /\ agentState' = [a \in Agents |-> IF a \in started THEN "running" ELSE agentState[a]]
    BY <1>0 DEF ConcurrentTick, Sent
  <2>2. started = Started(n)
    BY <1>6
  <2> HIDE DEF started
  <2> QED BY <2>1, <2>2 DEF ConcurrentTick, stopVars
<1>8. ASSUME NEW i \in 1 .. n
      PROVE  /\ out[i] \in InFlightStates /\ out[i] # "rejecting"
             /\ out[i] = "waiting" <=> Starts(i)
  <2>1. AgentOf[Sent(n)[i]] = AgentOf[queue[i]]
        /\ (agentState[AgentOf[queue[i]]] = "init" /\ Starter(Sent(n), i) <=> Starts(i))
    BY <1>1, SameStarter
  <2> HIDE DEF n
  <2>2. out[i] = ConcurrentOutcome(Sent(n), i)
    OBVIOUS
  <2> HIDE DEF out
  <2> QED BY <1>2, <2>1, <2>2 DEF ConcurrentOutcome
<1>9. \A i \in 1 .. n : /\ task'[queue[i]] \in InFlightStates
                        /\ task'[queue[i]] # "rejecting"
                        /\ task'[queue[i]] = "waiting" <=> Starts(i)
  <2> HIDE DEF n, out
  <2> QED BY <1>5, <1>8
<1> HIDE DEF n, d, out
<1>10. m \in {n, d} /\ (m > n => AgentOf[queue[n + 1]] \notin registered)
  BY <1>1
<1> HIDE DEF m
<1>11. CutsQueue(n, m, d)
  BY ONLY <1>1, <1>5, <1>7, <1>9, <1>10 DEF CutsQueue
<1> QED BY ONLY <1>11
-----------------------------------------------------------------------------
(* The steps of either scheduler.                                          *)
SchedulerInv == TypeOK /\ InFlightFinite /\ QueueInv /\ StopInv

StopSteps ==
    \/ Stop
    \/ StopResumes /\ class # "ConcurrentScheduler"
    \/ ConcurrentStopResumes

LEMMA Steps ==
  ASSUME SchedulerInv, [EitherNext]_bothVars
  PROVE  /\ class' = class
         /\ \/ \E n, m, d : CutsQueue(n, m, d)
            \/ \E t \in Tasks, at \in 0 .. MaxClock : Enqueue(t, at)
            \/ \E t \in Tasks : Settle(t)
            \/ \E a \in Agents : RunEnds(a, "resolving")
            \/ \E a \in Agents : RunEnds(a, "rejecting") /\ class # "ConcurrentScheduler"
            \/ \E a \in Agents : Suspend(a) \/ Resume(a) \/ StopAgent(a)
            \/ \E a \in Agents : Register(a)
            \/ Advance \/ Abort \/ StopSteps
            \/ UNCHANGED vars
<1>1. TypeOK /\ InFlightFinite /\ QueuedOnce /\ class \in {"Scheduler", "ConcurrentScheduler"}
  BY DEF SchedulerInv, QueueInv, StopInv
<1>2. CASE UNCHANGED bothVars
  BY <1>2 DEF bothVars
<1>3. CASE class = "Scheduler" /\ Next /\ UNCHANGED class
  <2>1. class # "ConcurrentScheduler" /\ class' = class
    BY <1>3
  <2>2. Tick => \E n, m, d : CutsQueue(n, m, d)
    BY <1>1, <2>1, TickCuts
  <2>3. Next
    BY <1>3
  <2> HIDE DEF CutsQueue
  <2> QED BY <2>1, <2>2, <2>3 DEF Next, StopSteps
<1>4. CASE class = "ConcurrentScheduler" /\ ConcurrentNext /\ UNCHANGED class
  <2>1. ConcurrentTick => \E n, m, d : CutsQueue(n, m, d)
    BY <1>1, ConcurrentCuts
  <2>2. ConcurrentNext /\ class' = class
    BY <1>4
  <2> QED BY <2>1, <2>2 DEF ConcurrentNext, StopSteps
<1> QED BY <1>2, <1>3, <1>4 DEF EitherNext

(* Type correctness, and what is in flight is finite.                      *)
LEMMA FewerInFlight ==
  ASSUME InFlightFinite, InFlight' \subseteq InFlight
  PROVE  InFlightFinite'
BY FS_Subset DEF InFlightFinite

LEMMA CutInFlight ==
  ASSUME NEW n, NEW m, NEW d, CutsQueue(n, m, d), TypeOK, InFlightFinite
  PROVE  LET T == {queue[i] : i \in 1 .. n} IN
         InFlight' \subseteq InFlight \cup T /\ IsFiniteSet(T) /\ Cardinality(T) <= n
<1> DEFINE T == {queue[i] : i \in 1 .. n}
           f == [i \in 1 .. n |-> queue[i]]
<1>1. /\ n \in Nat
      /\ \A i \in n + 1 .. m : task'[queue[i]] = "lost"
      /\ \A t \in Tasks : (\A i \in 1 .. m : queue[i] # t) => task'[t] = task[t]
  BY DEF CutsQueue, TypeOK
<1>2. ASSUME NEW t \in Tasks, task'[t] \in InFlightStates, t \notin T
      PROVE  task[t] \in InFlightStates
  <2>1. \A i \in 1 .. m : queue[i] # t
    <3> TAKE i \in 1 .. m
    <3>1. CASE i <= n
      BY <1>1, <1>2, <3>1
    <3>2. CASE ~(i <= n)
      <4>1. i \in n + 1 .. m
        BY <1>1, <3>2
      <4> QED BY <1>1, <1>2, <4>1 DEF InFlightStates
    <3> QED BY <3>1, <3>2
  <2> QED BY <1>1, <1>2, <2>1
<1>3. InFlight' \subseteq InFlight \cup T
  BY <1>2 DEF InFlight
<1>4. IsFiniteSet(1 .. n) /\ Cardinality(1 .. n) = n
  BY <1>1, FS_Interval
<1>5. f \in Surjection(1 .. n, T)
  BY DEF Surjection
<1> HIDE DEF f, T
<1>6. IsFiniteSet(T) /\ Cardinality(T) <= n
  BY <1>4, <1>5, FS_Surjection
<1> QED BY <1>3, <1>6 DEF T

LEMMA TypeStep ==
  ASSUME SchedulerInv, [EitherNext]_bothVars
  PROVE  TypeOK' /\ InFlightFinite'
<1>0. TypeOK /\ InFlightFinite
  BY DEF SchedulerInv
<1>1. ASSUME NEW n, NEW m, NEW d, CutsQueue(n, m, d) PROVE TypeOK' /\ InFlightFinite'
  <2>1. /\ queue' \in Seq(Tasks) /\ task' \in [Tasks -> TaskStates]
        /\ running' = running \cup Started(n)
        /\ agentState' = [a \in Agents |-> IF a \in Started(n) THEN "running" ELSE agentState[a]]
        /\ UNCHANGED <<clock, runAt, registered, aborted, stopPc, awaited, unhandled, arrival>>
    BY <1>1 DEF CutsQueue
  <2>2. running' \subseteq Agents /\ agentState' \in [Agents -> AgentStates]
    BY <1>0, <2>1 DEF TypeOK, Started, AgentStates
  <2>3. TypeOK'
    BY <1>0, <2>1, <2>2 DEF TypeOK
  <2>4. InFlight' \subseteq InFlight \cup {queue[i] : i \in 1 .. n}
        /\ IsFiniteSet({queue[i] : i \in 1 .. n})
    BY <1>0, <1>1, CutInFlight
  <2>5. InFlightFinite'
    BY <1>0, <2>4, FS_Union, FS_Subset DEF InFlightFinite
  <2> QED BY <2>3, <2>5
<1>2. ASSUME NEW t \in Tasks, NEW at \in 0 .. MaxClock, Enqueue(t, at)
      PROVE  TypeOK' /\ InFlightFinite'
  <2>1. queue' \in Seq(Tasks)
    <3>1. FindInsertIndex(queue, runAt'[t], runAt') \in 0 .. Len(queue)
      <4> DEFINE S == {i \in 1 .. Len(queue) : runAt'[queue[i]] <= runAt'[t]}
      <4>1. Len(queue) \in Nat /\ S \in SUBSET (1 .. Len(queue))
        BY <1>0 DEF TypeOK
      <4> HIDE DEF S
      <4>2. Cardinality(S) \in 0 .. Len(queue)
        BY <4>1, CountBounded
      <4> QED BY <4>2 DEF FindInsertIndex, S
    <3>2. queue' = Inserted(queue, t, FindInsertIndex(queue, runAt'[t], runAt'))
      BY <1>2 DEF Enqueue, Enqueued, Inserted
    <3> QED BY <1>0, <3>1, <3>2, InsertedPlaces DEF TypeOK
  <2>2. runAt' \in [Tasks -> Nat]
    BY <1>0, <1>2, SchedulerAssumption DEF Enqueue, TypeOK
  <2>3. task' \in [Tasks -> TaskStates]
    BY <1>0, <1>2 DEF Enqueue, TypeOK, TaskStates
  <2>4. arrival' \in Seq(Tasks)
    BY <1>0, <1>2, AppendProperties DEF Enqueue, TypeOK
  <2>5. InFlight' \subseteq InFlight
    BY <1>0, <1>2 DEF Enqueue, InFlight, InFlightStates, TypeOK
  <2> QED BY <1>0, <1>2, <2>1, <2>2, <2>3, <2>4, <2>5, FewerInFlight
          DEF Enqueue, TypeOK, agentVars, stopVars
<1>3. ASSUME NEW t \in Tasks, Settle(t) PROVE TypeOK' /\ InFlightFinite'
  <2>1. task' \in [Tasks -> TaskStates]
    BY <1>0, <1>3 DEF Settle, TypeOK, TaskStates
  <2>2. InFlight' \subseteq InFlight
    BY <1>0, <1>3 DEF Settle, InFlight, InFlightStates, TypeOK
  <2> QED BY <1>0, <1>3, <2>1, <2>2, FewerInFlight DEF Settle, TypeOK, agentVars, stopVars
<1>4. ASSUME NEW a \in Agents, NEW outcome \in {"resolving", "rejecting"}, RunEnds(a, outcome)
      PROVE  TypeOK' /\ InFlightFinite'
  <2>1. task' \in [Tasks -> TaskStates]
    BY <1>0, <1>4 DEF RunEnds, TypeOK, TaskStates, InFlightStates
  <2>2. InFlight' \subseteq InFlight
    BY <1>0, <1>4 DEF RunEnds, InFlight, InFlightStates, TypeOK
  <2>3. agentState' \in [Agents -> AgentStates]
    BY <1>0, <1>4 DEF RunEnds, TypeOK, AgentStates
  <2> QED BY <1>0, <1>4, <2>1, <2>2, <2>3, FewerInFlight DEF RunEnds, TypeOK, stopVars
<1>5. ASSUME NEW a \in Agents, Suspend(a) \/ Resume(a) \/ StopAgent(a)
      PROVE  TypeOK' /\ InFlightFinite'
  <2>1. InFlight' \subseteq InFlight
    BY <1>5 DEF Suspend, Resume, StopAgent, MoveAgent, InFlight
  <2>2. agentState' \in [Agents -> AgentStates]
    BY <1>0, <1>5 DEF Suspend, Resume, StopAgent, MoveAgent, TypeOK, AgentStates
  <2> QED BY <1>0, <1>5, <2>1, <2>2, FewerInFlight
          DEF Suspend, Resume, StopAgent, MoveAgent, TypeOK, stopVars
<1>6. ASSUME NEW a \in Agents, Register(a) PROVE TypeOK' /\ InFlightFinite'
  <2>1. InFlight' \subseteq InFlight
    BY <1>6 DEF Register, InFlight
  <2> QED BY <1>0, <1>6, <2>1, FewerInFlight DEF Register, TypeOK, agentVars, stopVars
<1>7. CASE Advance \/ Abort
  <2>1. InFlight' \subseteq InFlight
    BY <1>7 DEF Advance, Abort, InFlight
  <2>2. clock' \in Nat
    BY <1>0, <1>7 DEF Advance, Abort, TypeOK
  <2>3. aborted' \in BOOLEAN
    BY <1>0, <1>7, Zenon DEF Advance, Abort, TypeOK
  <2> QED BY <1>0, <1>7, <2>1, <2>2, <2>3, FewerInFlight
          DEF Advance, Abort, TypeOK, agentVars, stopVars
<1>8. CASE StopSteps
  <2>1. InFlight' \subseteq InFlight
    BY <1>8 DEF StopSteps, Stop, StopResumes, ConcurrentStopResumes, InFlight
  <2>2. awaited' \subseteq Tasks /\ stopPc' \in {"idle", "awaiting", "resolved", "rejected"}
    BY <1>0, <1>8, ActiveInFlight
    DEF StopSteps, Stop, StopResumes, ConcurrentStopResumes, InFlight, TypeOK
  <2>3. UNCHANGED <<clock, queue, runAt, task, registered, agentState, running, aborted,
                    unhandled, arrival>>
    BY <1>8 DEF StopSteps, Stop, StopResumes, ConcurrentStopResumes, agentVars
  <2> QED BY <1>0, <2>1, <2>2, <2>3, FewerInFlight DEF TypeOK
<1>9. CASE UNCHANGED vars
  BY <1>0, <1>9, FewerInFlight DEF vars, TypeOK, InFlight
<1> QED
  BY <1>1, <1>2, <1>3, <1>4, <1>5, <1>6, <1>7, <1>8, <1>9, Steps
-----------------------------------------------------------------------------
(* The order of the queue: a task comes before those that are behind it,   *)
(* and they do not come before it.                                         *)
LEMMA QueueFacts ==
  ASSUME TypeOK, QueueInv
  PROVE  /\ Len(queue) \in Nat /\ Len(arrival) \in Nat
         /\ \A i \in 1 .. Len(queue) : queue[i] \in Tasks /\ task[queue[i]] = "queued"
         /\ \A i \in 1 .. Len(arrival) : arrival[i] \in Tasks
         /\ \A t \in Tasks : runAt[t] \in Nat
         /\ \A i, j \in 1 .. Len(queue) : queue[i] = queue[j] => i = j
         /\ \A i, j \in 1 .. Len(queue) : i < j => Before(queue[i], queue[j])
         /\ \A t \in Tasks : task[t] = "queued" => \E i \in 1 .. Len(queue) : queue[i] = t
<1>1. /\ queue \in Seq(Tasks) /\ arrival \in Seq(Tasks)
      /\ \A t \in Tasks : runAt[t] \in Nat
  BY DEF TypeOK
<1>2. /\ Len(queue) \in Nat /\ Len(arrival) \in Nat
      /\ \A i \in 1 .. Len(queue) : queue[i] \in Tasks
      /\ \A i \in 1 .. Len(arrival) : arrival[i] \in Tasks
  BY <1>1, ElementOfSeq
<1>3. /\ \A i \in 1 .. Len(queue) : task[queue[i]] = "queued"
      /\ \A i, j \in 1 .. Len(queue) : queue[i] = queue[j] => i = j
  BY DEF QueueInv, QueuedOnce
<1>4. /\ \A i, j \in 1 .. Len(queue) : i < j => Before(queue[i], queue[j])
      /\ \A t \in Tasks : task[t] = "queued" => \E i \in 1 .. Len(queue) : queue[i] = t
  BY DEF QueueInv
<1> QED BY <1>1, <1>2, <1>3, <1>4

LEMMA OneComesFirst ==
  ASSUME TypeOK, QueueInv, NEW t \in Tasks, NEW u \in Tasks, Before(t, u)
  PROVE  ~Before(u, t)
<1>1. /\ runAt[t] \in Nat /\ runAt[u] \in Nat
      /\ \A i, j \in 1 .. Len(arrival) : arrival[i] = arrival[j] => i = j
  BY QueueFacts DEF QueueInv
<1>2. SUFFICES ASSUME Before(u, t) PROVE FALSE
  OBVIOUS
<1>3. runAt[t] = runAt[u]
  BY <1>1, <1>2 DEF Before
<1>4. PICK i, j \in 1 .. Len(arrival) : i < j /\ arrival[i] = t /\ arrival[j] = u
  BY <1>1, <1>3 DEF Before
<1>5. PICK k, l \in 1 .. Len(arrival) : k < l /\ arrival[k] = u /\ arrival[l] = t
  BY <1>1, <1>2, <1>3 DEF Before
<1>6. i = l /\ j = k
  BY <1>1, <1>4, <1>5
<1>7. Len(arrival) \in Nat
  BY DEF TypeOK
<1> QED BY <1>4, <1>5, <1>6, <1>7

(* Before, of given times and arrivals.                                    *)
ComesFirst(when, arrivals, t, u) ==
    \/ when[t] < when[u]
    \/ /\ when[t] = when[u]
       /\ \E i, j \in 1 .. Len(arrivals) : i < j /\ arrivals[i] = t /\ arrivals[j] = u

LEMMA BeforeIs == \A t, u : Before(t, u) = ComesFirst(runAt, arrival, t, u)
BY DEF Before, ComesFirst

(* The cut of a tick leaves the queue in order.                            *)
LEMMA CutOrder ==
  ASSUME TypeOK, QueueInv, NEW n, NEW m, NEW d, CutsQueue(n, m, d)
  PROVE  QueueInv'
<1>1. /\ n \in Nat /\ m \in Nat /\ n <= m /\ m <= Len(queue)
      /\ Len(queue') = Len(queue) - m
      /\ \A i \in 1 .. Len(queue) - m : queue'[i] = queue[m + i]
      /\ \A i \in 1 .. n : task'[queue[i]] \in InFlightStates
      /\ \A i \in n + 1 .. m : task'[queue[i]] = "lost"
      /\ \A t \in Tasks : (\A i \in 1 .. m : queue[i] # t) => task'[t] = task[t]
      /\ UNCHANGED <<runAt, arrival>>
  <2>1. Len(queue) \in Nat
    BY DEF TypeOK
  <2> QED BY <2>1 DEF CutsQueue
<1>2. /\ Len(queue) \in Nat
      /\ \A i \in 1 .. Len(queue) : queue[i] \in Tasks /\ task[queue[i]] = "queued"
      /\ \A i, j \in 1 .. Len(queue) : queue[i] = queue[j] => i = j
      /\ \A i, j \in 1 .. Len(queue) : i < j => Before(queue[i], queue[j])
      /\ \A t \in Tasks : task[t] = "queued" => \E i \in 1 .. Len(queue) : queue[i] = t
  BY QueueFacts
<1>3. ASSUME NEW i \in 1 .. m
      PROVE  task'[queue[i]] # "queued" /\ task'[queue[i]] # "new"
  <2>1. i \in 1 .. n \/ i \in n + 1 .. m
    BY <1>1
  <2> QED BY <1>1, <2>1 DEF InFlightStates
<1>4. ASSUME NEW i \in 1 .. Len(queue')
      PROVE  /\ m + i \in 1 .. Len(queue) /\ queue'[i] = queue[m + i]
             /\ task'[queue'[i]] = "queued"
  <2>1. m + i \in 1 .. Len(queue) /\ queue'[i] = queue[m + i]
    <3>1. i \in 1 .. Len(queue) - m
      BY <1>1
    <3>2. m \in Nat /\ Len(queue) \in Nat
      BY <1>1, <1>2
    <3>3. m + i \in 1 .. Len(queue)
      BY ONLY <3>1, <3>2
    <3> QED BY ONLY <1>1, <3>1, <3>3
  <2>2. \A j \in 1 .. m : j \in 1 .. Len(queue) /\ j # m + i
    BY <1>1, <1>2
  <2>3. \A j \in 1 .. m : queue[j] # queue[m + i]
    BY <1>2, <2>1, <2>2
  <2>4. queue[m + i] \in Tasks /\ task[queue[m + i]] = "queued"
    BY ONLY <1>2, <2>1
  <2>5. task'[queue[m + i]] = task[queue[m + i]]
    BY ONLY <1>1, <2>3, <2>4
  <2> QED BY ONLY <2>1, <2>4, <2>5
<1>5. ASSUME NEW i \in 1 .. Len(queue'), NEW j \in 1 .. Len(queue'), queue'[i] = queue'[j]
      PROVE  i = j
  <2>1. /\ m + i \in 1 .. Len(queue) /\ queue'[i] = queue[m + i]
        /\ m + j \in 1 .. Len(queue) /\ queue'[j] = queue[m + j]
    BY <1>4
  <2>2. m + i = m + j
    BY ONLY <1>2, <1>5, <2>1
  <2>3. m \in Nat /\ i \in Int /\ j \in Int
    BY <1>1
  <2> QED BY ONLY <2>2, <2>3
<1>6. ASSUME NEW t \in Tasks, task'[t] = "queued"
      PROVE  \E i \in 1 .. Len(queue') : queue'[i] = t
  <2>1. \A i \in 1 .. m : queue[i] # t
    BY <1>3, <1>6
  <2>2. PICK i \in 1 .. Len(queue) : queue[i] = t
    BY <1>1, <1>2, <1>6, <2>1
  <2>3. i - m \in 1 .. Len(queue') /\ m + (i - m) = i
    BY <1>1, <1>2, <2>1, <2>2
  <2> QED BY <1>4, <2>2, <2>3
<1>7. ASSUME NEW i \in 1 .. Len(queue'), NEW j \in 1 .. Len(queue'), i < j
      PROVE  Before(queue[m + i], queue[m + j])
  <2>1. m + i < m + j
    BY <1>1, <1>7
  <2> QED BY <1>2, <1>4, <2>1
<1>8. ASSUME NEW i \in 1 .. Len(queue'), NEW j \in 1 .. Len(queue'), i < j
      PROVE  ComesFirst(runAt', arrival', queue'[i], queue'[j])
  BY <1>1, <1>4, <1>7, <1>8, BeforeIs
<1>9. ASSUME NEW t \in Tasks PROVE task'[t] # "new" <=> task[t] # "new"
  <2>1. CASE \A i \in 1 .. m : queue[i] # t
    BY <1>1, <2>1
  <2>2. ASSUME NEW i \in 1 .. m, queue[i] = t PROVE task'[t] # "new" /\ task[t] # "new"
    <3>1. i \in 1 .. Len(queue)
      BY <1>1, <1>2
    <3> QED BY <1>2, <1>3, <2>2, <3>1
  <2> QED BY <2>1, <2>2
<1>10. QueuedOnce'
  BY <1>4, <1>5 DEF QueuedOnce
<1>11. \A i, j \in 1 .. Len(queue') : i < j => Before(queue[i], queue[j])'
  BY <1>8 DEF Before, ComesFirst
<1>12. \A t \in Tasks : task'[t] # "new" <=> \E i \in 1 .. Len(arrival') : arrival'[i] = t
  BY <1>1, <1>9 DEF QueueInv
<1>13. \A i, j \in 1 .. Len(arrival') : arrival'[i] = arrival'[j] => i = j
  BY <1>1 DEF QueueInv
<1> QED BY <1>6, <1>10, <1>11, <1>12, <1>13 DEF QueueInv

(* A task that is enqueued goes behind all that are due no later.          *)
LEMMA EnqueueOrder ==
  ASSUME TypeOK, QueueInv, NEW t \in Tasks, NEW at \in 0 .. MaxClock, Enqueue(t, at)
  PROVE  QueueInv'
<1> DEFINE k == FindInsertIndex(queue, at, runAt')
           n == Len(queue)
           l == Len(arrival)
<1>1. /\ task[t] = "new" /\ task' = [task EXCEPT ![t] = "queued"]
      /\ runAt' = [runAt EXCEPT ![t] = at] /\ arrival' = Append(arrival, t)
      /\ queue' = Enqueued(queue, t, runAt')
  BY DEF Enqueue
<1>2. /\ n \in Nat /\ l \in Nat /\ queue \in Seq(Tasks)
      /\ \A i \in 1 .. n : queue[i] \in Tasks /\ task[queue[i]] = "queued"
      /\ \A u \in Tasks : runAt[u] \in Nat
      /\ \A i, j \in 1 .. n : queue[i] = queue[j] => i = j
      /\ \A i, j \in 1 .. n : i < j => Before(queue[i], queue[j])
      /\ \A u \in Tasks : task[u] = "queued" => \E i \in 1 .. n : queue[i] = u
  BY QueueFacts DEF TypeOK
<1>3. /\ \A u \in Tasks : task[u] # "new" <=> \E i \in 1 .. l : arrival[i] = u
      /\ \A i, j \in 1 .. l : arrival[i] = arrival[j] => i = j
      /\ \A i \in 1 .. l : arrival[i] \in Tasks
  BY QueueFacts DEF QueueInv
<1>4. at \in Nat /\ runAt' \in [Tasks -> Nat] /\ runAt'[t] = at
      /\ \A u \in Tasks : u # t => runAt'[u] = runAt[u]
  BY <1>1, SchedulerAssumption DEF TypeOK
<1>5. /\ \A u \in Tasks : u # t => task'[u] = task[u]
      /\ task'[t] = "queued"
  BY <1>1 DEF TypeOK
<1>6. /\ Len(arrival') = l + 1 /\ arrival'[l + 1] = t
      /\ \A i \in 1 .. l : arrival'[i] = arrival[i]
  BY <1>1, AppendProperties DEF TypeOK
<1>7. \A i \in 1 .. n : queue[i] # t /\ runAt'[queue[i]] = runAt[queue[i]]
  BY <1>1, <1>2, <1>4
<1>8. InTime(queue, runAt')
  <2> SUFFICES ASSUME NEW i \in 1 .. n, NEW j \in 1 .. n, i < j
               PROVE  runAt'[queue[i]] <= runAt'[queue[j]]
    BY DEF InTime
  <2>1. Before(queue[i], queue[j])
    BY <1>2
  <2>2. runAt[queue[i]] <= runAt[queue[j]]
    BY <1>2, <2>1 DEF Before
  <2> QED BY <1>7, <2>2
<1>9. k \in 0 .. n /\ \A i \in 1 .. n : runAt'[queue[i]] <= at <=> i <= k
  BY <1>2, <1>4, <1>8, InsertIndex
<1> HIDE DEF k
<1>10. /\ Len(queue') = n + 1
       /\ \A i \in 1 .. n + 1 :
             queue'[i] = IF i <= k THEN queue[i] ELSE IF i = k + 1 THEN t ELSE queue[i - 1]
  <2>1. queue' = Inserted(queue, t, k)
    <3>1. k = FindInsertIndex(queue, runAt'[t], runAt')
      BY <1>4 DEF k
    <3> QED BY <1>1, <3>1 DEF Enqueued, Inserted
  <2>2. queue \in Seq(Tasks) /\ k \in 0 .. Len(queue) /\ t \in Tasks
    BY <1>2, <1>9
  <2>3. /\ Len(Inserted(queue, t, k)) = Len(queue) + 1
        /\ \A i \in 1 .. Len(queue) + 1 :
              Inserted(queue, t, k)[i]
                = IF i <= k THEN queue[i] ELSE IF i = k + 1 THEN t ELSE queue[i - 1]
    BY ONLY <2>2, InsertedPlaces
  <2> QED BY <2>1, <2>3
<1> HIDE DEF n, l
<1>11. ASSUME NEW i \in 1 .. n + 1
       PROVE  \/ i = k + 1 /\ queue'[i] = t
              \/ i <= k /\ i \in 1 .. n /\ queue'[i] = queue[i]
              \/ i > k + 1 /\ i - 1 \in 1 .. n /\ i - 1 > k /\ queue'[i] = queue[i - 1]
  <2>1. n \in Nat /\ k \in Nat /\ k <= n /\ i \in Nat /\ 1 <= i /\ i <= n + 1
    BY <1>2, <1>9
  <2>2. queue'[i] = IF i <= k THEN queue[i] ELSE IF i = k + 1 THEN t ELSE queue[i - 1]
    BY ONLY <1>10, <1>11
  <2>3. \/ i <= k /\ i \in 1 .. n
        \/ i = k + 1 /\ ~(i <= k)
        \/ i > k + 1 /\ i - 1 \in 1 .. n /\ i - 1 > k /\ ~(i <= k) /\ i # k + 1
    BY ONLY <2>1
  <2> QED BY ONLY <2>2, <2>3
<1>12. \A i \in 1 .. n + 1 : task'[queue'[i]] = "queued"
  <2>1. \A i \in 1 .. n : task'[queue[i]] = "queued"
    BY <1>2, <1>5, <1>7
  <2> QED BY <1>5, <1>11, <2>1
<1>13. ASSUME NEW i \in 1 .. n + 1, NEW j \in 1 .. n + 1, queue'[i] = queue'[j]
       PROVE  i = j
  <2>1. n \in Nat /\ k \in Nat
    BY <1>2, <1>9
  <2>2. /\ \A x, y \in 1 .. n : queue[x] = queue[y] => x = y
        /\ \A x \in 1 .. n : queue[x] # t
    BY <1>2, <1>7
  <2>3. i \in Nat /\ j \in Nat
    BY <2>1
  <2> QED BY ONLY <1>11, <1>13, <2>1, <2>2, <2>3
<1>14. ASSUME NEW u \in Tasks, task'[u] = "queued"
       PROVE  \E i \in 1 .. n + 1 : queue'[i] = u
  <2>1. CASE u = t
    <3>1. k + 1 \in 1 .. n + 1 /\ queue'[k + 1] = t
      BY <1>2, <1>9, <1>10
    <3> QED BY <2>1, <3>1
  <2>2. CASE u # t
    <3>1. PICK i \in 1 .. n : queue[i] = u
      BY <1>2, <1>5, <1>14, <2>2
    <3>2. CASE i <= k
      <4>1. i \in 1 .. n + 1 /\ queue'[i] = queue[i]
        BY <1>2, <1>10, <3>2
      <4> QED BY <3>1, <4>1
    <3>3. CASE ~(i <= k)
      <4>1. i + 1 \in 1 .. n + 1 /\ ~(i + 1 <= k) /\ i + 1 # k + 1 /\ (i + 1) - 1 = i
        BY <1>2, <1>9, <3>3
      <4>2. queue'[i + 1] = queue[i]
        BY <1>10, <4>1
      <4> QED BY <3>1, <4>1, <4>2
    <3> QED BY <3>2, <3>3
  <2> QED BY <2>1, <2>2
<1>15. ASSUME NEW u \in Tasks
       PROVE  task'[u] # "new" <=> \E i \in 1 .. l + 1 : arrival'[i] = u
  <2>1. l + 1 \in 1 .. l + 1 /\ \A i \in 1 .. l + 1 : i \in 1 .. l \/ i = l + 1
    BY <1>2
  <2>2. \A i \in 1 .. l : i \in 1 .. l + 1
    BY <1>2
  <2> QED BY <1>3, <1>5, <1>6, <2>1, <2>2
<1>16. ASSUME NEW i \in 1 .. l + 1, NEW j \in 1 .. l + 1, arrival'[i] = arrival'[j]
       PROVE  i = j
  <2>1. (i \in 1 .. l \/ i = l + 1) /\ (j \in 1 .. l \/ j = l + 1)
    BY <1>2
  <2>2. \A x \in 1 .. l : arrival[x] # t
    BY <1>1, <1>3
  <2> QED BY <1>3, <1>6, <1>16, <2>1, <2>2
<1>17. ASSUME NEW u \in Tasks, NEW v \in Tasks, u # t, v # t, Before(u, v)
       PROVE  ComesFirst(runAt', arrival', u, v)
  <2>1. CASE runAt[u] < runAt[v]
    BY <1>4, <1>17, <2>1 DEF ComesFirst
  <2>2. CASE ~(runAt[u] < runAt[v])
    <3>1. PICK i, j \in 1 .. l : i < j /\ arrival[i] = u /\ arrival[j] = v
      BY <1>17, <2>2 DEF Before, l
    <3>2. i \in 1 .. l + 1 /\ j \in 1 .. l + 1
      BY <1>2
    <3>3. runAt[u] = runAt[v]
      BY <1>17, <2>2 DEF Before
    <3> QED BY <1>4, <1>6, <1>17, <3>1, <3>2, <3>3 DEF ComesFirst
  <2> QED BY <2>1, <2>2
<1>18. ASSUME NEW i \in 1 .. n, i <= k PROVE ComesFirst(runAt', arrival', queue[i], t)
  <2>1. runAt'[queue[i]] <= at /\ runAt'[queue[i]] \in Nat
    BY <1>2, <1>4, <1>9, <1>18
  <2>2. PICK x \in 1 .. l : arrival[x] = queue[i]
    BY <1>2, <1>3
  <2>3. x \in 1 .. l + 1 /\ l + 1 \in 1 .. l + 1 /\ x < l + 1
    BY <1>2
  <2>4. arrival'[x] = queue[i] /\ arrival'[l + 1] = t
    BY <1>6, <2>2
  <2> QED BY <1>4, <1>6, <2>1, <2>3, <2>4 DEF ComesFirst
<1>19. ASSUME NEW i \in 1 .. n, i > k PROVE ComesFirst(runAt', arrival', t, queue[i])
  <2>1. runAt'[queue[i]] \in Nat /\ ~(runAt'[queue[i]] <= at)
    BY <1>2, <1>4, <1>9, <1>19
  <2> QED BY <1>4, <2>1 DEF ComesFirst
<1>20. ASSUME NEW i \in 1 .. n + 1, NEW j \in 1 .. n + 1, i < j
       PROVE  ComesFirst(runAt', arrival', queue'[i], queue'[j])
  <2>1. \A x, y \in 1 .. n : x < y => ComesFirst(runAt', arrival', queue[x], queue[y])
    BY <1>2, <1>7, <1>17
  <2>2. CASE i <= k /\ j <= k
    BY <1>2, <1>9, <1>11, <1>20, <2>1, <2>2
  <2>3. CASE i <= k /\ j = k + 1
    BY <1>2, <1>9, <1>11, <1>18, <2>3
  <2>4. CASE i <= k /\ j > k + 1
    <3>1. i < j - 1 /\ i \in 1 .. n /\ j - 1 \in 1 .. n
      BY <1>2, <1>9, <2>4
    <3>2. queue'[i] = queue[i] /\ queue'[j] = queue[j - 1]
      BY <1>2, <1>9, <1>10, <2>4
    <3> QED BY <2>1, <3>1, <3>2
  <2>5. CASE i = k + 1
    BY <1>2, <1>9, <1>11, <1>19, <1>20, <2>5
  <2>6. CASE i > k + 1
    <3>1. i - 1 < j - 1 /\ i - 1 \in 1 .. n /\ j - 1 \in 1 .. n
      BY <1>2, <1>9, <1>20, <2>6
    <3>2. queue'[i] = queue[i - 1] /\ queue'[j] = queue[j - 1]
      BY <1>2, <1>9, <1>10, <1>20, <2>6
    <3> QED BY <2>1, <3>1, <3>2
  <2> QED BY <1>2, <1>9, <1>20, <2>2, <2>3, <2>4, <2>5, <2>6
<1>21. QueuedOnce'
  BY <1>10, <1>12, <1>13 DEF QueuedOnce
<1>22. \A i, j \in 1 .. Len(queue') : i < j => Before(queue[i], queue[j])'
  BY <1>10, <1>20 DEF Before, ComesFirst
<1> QED BY <1>6, <1>10, <1>14, <1>15, <1>16, <1>21, <1>22 DEF QueueInv
LEMMA QueueStep ==
  ASSUME SchedulerInv, [EitherNext]_bothVars
  PROVE  QueueInv'
<1>0. TypeOK /\ QueueInv
  BY DEF SchedulerInv
<1>1. ASSUME UNCHANGED <<queue, runAt, arrival>>,
             \A t \in Tasks : /\ task'[t] = "queued" <=> task[t] = "queued"
                              /\ task'[t] = "new" <=> task[t] = "new"
      PROVE  QueueInv'
  <2>1. \A t, u : Before(t, u)' <=> Before(t, u)
    BY <1>1 DEF Before
  <2>2. \A i \in 1 .. Len(queue) : queue[i] \in Tasks
    BY <1>0, QueueFacts
  <2> QED BY <1>0, <1>1, <2>1, <2>2 DEF QueueInv, QueuedOnce, Before
<1>2. ASSUME NEW t \in Tasks, Settle(t) PROVE QueueInv'
  BY <1>0, <1>1, <1>2 DEF Settle, TypeOK
<1>3. ASSUME NEW a \in Agents, NEW outcome \in {"resolving", "rejecting"}, RunEnds(a, outcome)
      PROVE  QueueInv'
  BY <1>0, <1>1, <1>3 DEF RunEnds, TypeOK
<1>4. CASE UNCHANGED <<queue, runAt, arrival, task>>
  BY <1>1, <1>4
<1>5. ASSUME NEW a \in Agents, Suspend(a) \/ Resume(a) \/ StopAgent(a) \/ Register(a)
      PROVE  UNCHANGED <<queue, runAt, arrival, task>>
  BY <1>5 DEF Suspend, Resume, StopAgent, MoveAgent, Register
<1>6. ASSUME Advance \/ Abort \/ StopSteps \/ UNCHANGED vars
      PROVE  UNCHANGED <<queue, runAt, arrival, task>>
  BY <1>6 DEF vars, Advance, Abort, StopSteps, Stop, StopResumes, ConcurrentStopResumes
<1>7. \A n, m, d : CutsQueue(n, m, d) => QueueInv'
  BY <1>0, CutOrder
<1>8. \A t \in Tasks, at \in 0 .. MaxClock : Enqueue(t, at) => QueueInv'
  BY <1>0, EnqueueOrder
<1> HIDE DEF QueueInv
<1> QED BY <1>2, <1>3, <1>4, <1>5, <1>6, <1>7, <1>8, Steps

(* What has stopped has nothing in flight, and gets nothing.               *)
LEMMA StopStep ==
  ASSUME SchedulerInv, [EitherNext]_bothVars
  PROVE  StopInv'
<1>0. /\ TypeOK /\ class' = class
      /\ class \in {"Scheduler", "ConcurrentScheduler"}
      /\ class = "ConcurrentScheduler" =>
            ~unhandled /\ stopPc # "rejected" /\ \A t \in Tasks : task[t] # "rejecting"
      /\ stopPc = "resolved" => InFlight = {}
  BY Steps DEF SchedulerInv, StopInv
<1>1. ASSUME NEW n, NEW m, NEW d, CutsQueue(n, m, d) PROVE StopInv'
  <2>1. /\ stopPc = "idle" /\ UNCHANGED <<stopPc, unhandled>>
        /\ \A i \in 1 .. n : class = "ConcurrentScheduler" => task'[queue[i]] # "rejecting"
        /\ \A i \in n + 1 .. m : task'[queue[i]] = "lost"
        /\ \A t \in Tasks : (\A i \in 1 .. m : queue[i] # t) => task'[t] = task[t]
        /\ n \in Nat /\ m \in Nat /\ n <= m
    BY <1>0, <1>1 DEF CutsQueue, stopped, TypeOK
  <2>2. ASSUME NEW t \in Tasks, class = "ConcurrentScheduler" PROVE task'[t] # "rejecting"
    <3>1. CASE \A i \in 1 .. m : queue[i] # t
      BY <1>0, <2>1, <2>2, <3>1
    <3>2. ASSUME NEW i \in 1 .. m, queue[i] = t PROVE task'[t] # "rejecting"
      <4>1. i \in 1 .. n \/ i \in n + 1 .. m
        BY <2>1
      <4> QED BY <2>1, <2>2, <3>2, <4>1
    <3> QED BY <3>1, <3>2
  <2> QED BY <1>0, <2>1, <2>2 DEF StopInv
<1>2. ASSUME NEW t \in Tasks, NEW at \in 0 .. MaxClock, Enqueue(t, at) PROVE StopInv'
  <2>1. stopPc = "idle" /\ UNCHANGED <<stopPc, unhandled>>
    BY <1>2 DEF Enqueue, stopped, stopVars
  <2>2. \A u \in Tasks : task'[u] = "rejecting" => task[u] = "rejecting"
    BY <1>0, <1>2 DEF Enqueue, TypeOK
  <2> QED BY <1>0, <2>1, <2>2 DEF StopInv
<1>3. ASSUME NEW t \in Tasks, Settle(t) PROVE StopInv'
  <2>1. UNCHANGED stopPc /\ (unhandled' <=> unhandled \/ task[t] = "rejecting")
    BY <1>3 DEF Settle, stopVars
  <2>2. \A u \in Tasks : task'[u] = "rejecting" => task[u] = "rejecting"
    BY <1>0, <1>3 DEF Settle, TypeOK
  <2>3. InFlight' \subseteq InFlight
    BY <1>0, <1>3 DEF Settle, InFlight, InFlightStates, TypeOK
  <2> QED BY <1>0, <2>1, <2>2, <2>3 DEF StopInv
<1>4. ASSUME NEW a \in Agents, NEW outcome \in {"resolving", "rejecting"}, RunEnds(a, outcome),
             outcome = "resolving" \/ class # "ConcurrentScheduler"
      PROVE  StopInv'
  <2>1. UNCHANGED <<stopPc, unhandled>>
    BY <1>4 DEF RunEnds, stopVars
  <2>2. class = "ConcurrentScheduler" =>
           \A u \in Tasks : task'[u] = "rejecting" => task[u] = "rejecting"
    BY <1>0, <1>4 DEF RunEnds, TypeOK
  <2>3. InFlight' \subseteq InFlight
    BY <1>0, <1>4 DEF RunEnds, InFlight, InFlightStates, TypeOK
  <2> QED BY <1>0, <2>1, <2>2, <2>3 DEF StopInv
<1>5. CASE StopSteps
  <2>1. UNCHANGED <<task, unhandled>> /\ InFlight' = InFlight
    BY <1>5 DEF StopSteps, Stop, StopResumes, ConcurrentStopResumes, InFlight
  <2>2. stopPc' = "resolved" => InFlight = {}
    BY <1>5, ActiveInFlight DEF StopSteps, Stop, StopResumes, ConcurrentStopResumes
  <2>3. class = "ConcurrentScheduler" => stopPc' # "rejected"
    BY <1>5 DEF StopSteps, Stop, StopResumes, ConcurrentStopResumes
  <2> QED BY <1>0, <2>1, <2>2, <2>3 DEF StopInv
<1>6. CASE UNCHANGED <<stopPc, task, unhandled>>
  BY <1>0, <1>6 DEF StopInv, InFlight
<1>7. ASSUME NEW a \in Agents, Suspend(a) \/ Resume(a) \/ StopAgent(a) \/ Register(a)
      PROVE  UNCHANGED <<stopPc, task, unhandled>>
  BY <1>7 DEF Suspend, Resume, StopAgent, MoveAgent, Register, stopVars
<1>8. ASSUME Advance \/ Abort \/ UNCHANGED vars
      PROVE  UNCHANGED <<stopPc, task, unhandled>>
  BY <1>8 DEF vars, Advance, Abort, stopVars
<1> HIDE DEF StopInv
<1> QED BY <1>1, <1>2, <1>3, <1>4, <1>5, <1>6, <1>7, <1>8, Steps

LEMMA SchedulerInit == EitherInit => SchedulerInv
<1> SUFFICES ASSUME EitherInit PROVE SchedulerInv
  OBVIOUS
<1>1. Init /\ class \in {"Scheduler", "ConcurrentScheduler"}
  BY DEF EitherInit, ConcurrentInit
<1>2. queue = <<>> /\ arrival = <<>> /\ Len(queue) = 0 /\ Len(arrival) = 0
  BY <1>1 DEF Init
<1>3. TypeOK
  <2>1. queue \in Seq(Tasks) /\ arrival \in Seq(Tasks)
    BY <1>2, EmptySeq
  <2>2. task \in [Tasks -> TaskStates] /\ agentState \in [Agents -> AgentStates]
    BY <1>1 DEF Init, TaskStates, AgentStates
  <2> QED BY <1>1, <2>1, <2>2 DEF Init, TypeOK
<1>4. InFlight = {}
  BY <1>1 DEF Init, InFlight, InFlightStates
<1>5. QueueInv
  BY <1>1, <1>2 DEF Init, QueueInv, QueuedOnce
<1>6. StopInv
  BY <1>1, <1>4 DEF Init, StopInv
<1> QED BY <1>3, <1>4, <1>5, <1>6, FS_EmptySet DEF SchedulerInv, InFlightFinite

LEMMA SchedulerStep == SchedulerInv /\ [EitherNext]_bothVars => SchedulerInv'
BY TypeStep, QueueStep, StopStep DEF SchedulerInv

LEMMA SchedulerInvariance == EitherSpec => []SchedulerInv
BY SchedulerInit, SchedulerStep, PTL DEF EitherSpec

(* Type correctness of the schedulers, their queue and their agents.       *)
THEOREM SchedulerTypes == EitherSpec => [](TypeOK /\ InFlightFinite)
<1>1. SchedulerInv => TypeOK /\ InFlightFinite
  BY DEF SchedulerInv
<1> QED BY <1>1, SchedulerInvariance, PTL
-----------------------------------------------------------------------------
(* A tick dispatches in queue order and never ahead of time.               *)
LEMMA OvertakingStep ==
  ASSUME SchedulerInv, [EitherNext]_bothVars, NEW t \in Tasks,
         task[t] = "queued", task'[t] \in InFlightStates
  PROVE  /\ runAt[t] <= clock
         /\ \A u \in Tasks : task[u] = "queued" /\ Before(u, t) => task'[u] \in InFlightStates
<1>0. TypeOK /\ QueueInv
  BY DEF SchedulerInv
<1>1. PICK n, m, d : CutsQueue(n, m, d)
  <2>1. \A u \in Tasks, at \in 0 .. MaxClock : ~Enqueue(u, at)
    BY <1>0 DEF Enqueue, TypeOK, InFlightStates
  <2>2. \A u \in Tasks : ~Settle(u)
    BY <1>0 DEF Settle, TypeOK, InFlightStates
  <2>3. \A a \in Agents, outcome \in {"resolving", "rejecting"} : ~RunEnds(a, outcome)
    BY <1>0 DEF RunEnds, TypeOK, InFlightStates
  <2>4. task' # task
    BY DEF InFlightStates
  <2>5. ~ \E a \in Agents : Suspend(a) \/ Resume(a) \/ StopAgent(a) \/ Register(a)
    BY <2>4 DEF Suspend, Resume, StopAgent, MoveAgent, Register
  <2>6. ~(Advance \/ Abort \/ StopSteps \/ UNCHANGED vars)
    BY <2>4 DEF vars, Advance, Abort, StopSteps, Stop, StopResumes, ConcurrentStopResumes
  <2> HIDE DEF CutsQueue
  <2> QED BY <2>1, <2>2, <2>3, <2>5, <2>6, Steps
<1>2. /\ n \in Nat /\ m \in Nat /\ d \in Nat /\ n <= m /\ n <= d /\ m <= d /\ d <= Len(queue)
      /\ \A i \in 1 .. d : runAt[queue[i]] <= clock
      /\ \A i \in 1 .. n : task'[queue[i]] \in InFlightStates
      /\ \A i \in n + 1 .. m : task'[queue[i]] = "lost"
      /\ \A u \in Tasks : (\A i \in 1 .. m : queue[i] # u) => task'[u] = task[u]
  <2>1. Len(queue) \in Nat
    BY <1>0 DEF TypeOK
  <2> QED BY <1>1, <2>1 DEF CutsQueue
<1>3. PICK i \in 1 .. n : queue[i] = t
  <2>1. PICK i \in 1 .. m : queue[i] = t
    BY <1>2 DEF InFlightStates
  <2>2. i \notin n + 1 .. m
    BY <1>2, <2>1 DEF InFlightStates
  <2>3. i \in 1 .. n
    BY <1>2, <2>2
  <2> QED BY <2>1, <2>3
<1>4. runAt[t] <= clock
  <2>1. i \in 1 .. d
    BY <1>2
  <2> QED BY <1>2, <1>3, <2>1
<1>5. ASSUME NEW u \in Tasks, task[u] = "queued", Before(u, t)
      PROVE  task'[u] \in InFlightStates
  <2>1. PICK j \in 1 .. Len(queue) : queue[j] = u
    BY <1>0, <1>5, QueueFacts
  <2>2. ~Before(t, u)
    BY <1>0, <1>5, OneComesFirst
  <2>3. ~(i < j)
    <3>1. i \in 1 .. Len(queue)
      BY <1>0, <1>2, QueueFacts
    <3> QED BY <1>0, <1>3, <2>1, <2>2, <3>1, QueueFacts
  <2>4. j \in 1 .. n
    BY <1>0, <1>2, <2>3, QueueFacts
  <2> QED BY <1>2, <2>1, <2>4
<1> QED BY <1>4, <1>5

(* No task is dispatched before its time, nor while one that comes before  *)
(* it stays in the queue, for any tasks, by either scheduler.              *)
THEOREM InTurn == EitherSpec => NoOvertaking
<1>1. SchedulerInv /\ [EitherNext]_bothVars =>
        [\A t \in Tasks :
          task[t] = "queued" /\ task'[t] \in InFlightStates =>
              /\ runAt[t] <= clock
              /\ \A u \in Tasks : task[u] = "queued" /\ Before(u, t)
                                    => task'[u] \in InFlightStates]_vars
  BY OvertakingStep
<1> QED BY <1>1, SchedulerInvariance, PTL DEF EitherSpec, NoOvertaking
-----------------------------------------------------------------------------
(* What a cut may do to a task.                                            *)
LEMMA CutFate ==
  ASSUME TypeOK, NEW n, NEW m, NEW d, CutsQueue(n, m, d), NEW t \in Tasks
  PROVE  \/ \E i \in 1 .. n : queue[i] = t
         \/ task'[t] = "lost" /\ \E i \in n + 1 .. m : queue[i] = t
         \/ task'[t] = task[t]
<1>1. /\ n \in Nat /\ m \in Nat /\ n <= m
      /\ \A i \in n + 1 .. m : task'[queue[i]] = "lost"
      /\ (\A i \in 1 .. m : queue[i] # t) => task'[t] = task[t]
  <2>1. Len(queue) \in Nat
    BY DEF TypeOK
  <2> QED BY <2>1 DEF CutsQueue
<1>2. ASSUME NEW i \in 1 .. m, queue[i] = t
      PROVE  \/ \E j \in 1 .. n : queue[j] = t
             \/ task'[t] = "lost" /\ \E j \in n + 1 .. m : queue[j] = t
  <2>1. i \in 1 .. n \/ i \in n + 1 .. m
    BY <1>1
  <2> QED BY <1>1, <1>2, <2>1
<1> QED BY <1>1, <1>2

(* A task is lost by a tick alone, behind the first of an unknown agent.   *)
LEMMA LostStep ==
  ASSUME SchedulerInv, [EitherNext]_bothVars, NEW t \in Tasks,
         task[t] # "lost", task'[t] = "lost"
  PROVE  \E u \in Tasks : /\ u = t \/ Before(u, t)
                          /\ AgentOf[u] \notin registered
                          /\ runAt[u] <= clock
<1>0. TypeOK /\ QueueInv
  BY DEF SchedulerInv
<1>1. PICK n, m, d : CutsQueue(n, m, d)
  <2>1. \A u \in Tasks, at \in 0 .. MaxClock : ~Enqueue(u, at)
    BY <1>0 DEF Enqueue, TypeOK
  <2>2. \A u \in Tasks : ~Settle(u)
    BY <1>0 DEF Settle, TypeOK
  <2>3. \A a \in Agents : ~RunEnds(a, "resolving") /\ ~RunEnds(a, "rejecting")
    BY <1>0 DEF RunEnds, TypeOK
  <2>4. task' # task
    OBVIOUS
  <2>5. ~ \E a \in Agents : Suspend(a) \/ Resume(a) \/ StopAgent(a) \/ Register(a)
    BY <2>4 DEF Suspend, Resume, StopAgent, MoveAgent, Register
  <2>6. ~(Advance \/ Abort \/ StopSteps \/ UNCHANGED vars)
    BY <2>4 DEF vars, Advance, Abort, StopSteps, Stop, StopResumes, ConcurrentStopResumes
  <2> HIDE DEF CutsQueue
  <2> QED BY <2>1, <2>2, <2>3, <2>5, <2>6, Steps
<1>2. /\ n \in Nat /\ m \in Nat /\ d \in Nat /\ n <= m /\ m \in {n, d} /\ d <= Len(queue)
      /\ \A i \in 1 .. d : runAt[queue[i]] <= clock
      /\ \A i \in 1 .. n : task'[queue[i]] \in InFlightStates
      /\ m > n => AgentOf[queue[n + 1]] \notin registered
  <2>1. Len(queue) \in Nat
    BY <1>0 DEF TypeOK
  <2> QED BY <1>1, <2>1 DEF CutsQueue
<1>3. PICK i \in n + 1 .. m : queue[i] = t
  BY <1>0, <1>1, <1>2, CutFate DEF InFlightStates
<1>4. m = d /\ m > n /\ n + 1 \in 1 .. d /\ n + 1 \in 1 .. Len(queue) /\ i \in 1 .. Len(queue)
      /\ (n + 1 = i \/ n + 1 < i)
  <2>1. Len(queue) \in Nat
    BY <1>0 DEF TypeOK
  <2> QED BY <1>2, <2>1
<1>5. queue[n + 1] \in Tasks /\ (queue[n + 1] = t \/ Before(queue[n + 1], t))
  BY <1>0, <1>3, <1>4, QueueFacts
<1> QED BY <1>2, <1>4, <1>5

(* Tasks are lost only behind a task of an unknown agent that is due in    *)
(* the same tick, by either scheduler.                                     *)
THEOREM LostBehindUnknown == EitherSpec => LostOnlyBehindUnknown
<1>1. SchedulerInv /\ [EitherNext]_bothVars =>
        [\A t \in Tasks :
          task[t] # "lost" /\ task'[t] = "lost" =>
              \E u \in Tasks : /\ u = t \/ Before(u, t)
                               /\ AgentOf[u] \notin registered
                               /\ runAt[u] <= clock]_vars
  BY LostStep
<1> QED BY <1>1, SchedulerInvariance, PTL DEF EitherSpec, LostOnlyBehindUnknown
-----------------------------------------------------------------------------
(* The other steps put nothing in flight, and start nothing.               *)
LEMMA OtherSteps ==
  ASSUME SchedulerInv, [EitherNext]_bothVars
  PROVE  \/ \E n, m, d : CutsQueue(n, m, d)
         \/ \E a \in Agents, outcome \in {"resolving", "rejecting"} : RunEnds(a, outcome)
         \/ /\ running' = running
            /\ \A t \in Tasks : task'[t] = "waiting" <=> task[t] = "waiting"
            /\ \A t \in Tasks : task'[t] \in InFlightStates => task[t] \in InFlightStates
            /\ \A a \in Agents : agentState'[a] = "init" <=> agentState[a] = "init"
<1>0. TypeOK
  BY DEF SchedulerInv
<1> DEFINE Quiet == /\ running' = running
                    /\ \A t \in Tasks : task'[t] = "waiting" <=> task[t] = "waiting"
                    /\ \A t \in Tasks : task'[t] \in InFlightStates => task[t] \in InFlightStates
                    /\ \A a \in Agents : agentState'[a] = "init" <=> agentState[a] = "init"
<1>1. ASSUME NEW t \in Tasks, NEW at \in 0 .. MaxClock, Enqueue(t, at) PROVE Quiet
  BY <1>0, <1>1 DEF Enqueue, TypeOK, InFlightStates, agentVars
<1>2. ASSUME NEW t \in Tasks, Settle(t) PROVE Quiet
  BY <1>0, <1>2 DEF Settle, TypeOK, InFlightStates, agentVars
<1>3. ASSUME NEW a \in Agents, Suspend(a) \/ Resume(a) \/ StopAgent(a) \/ Register(a) PROVE Quiet
  BY <1>0, <1>3 DEF Suspend, Resume, StopAgent, MoveAgent, Register, TypeOK, agentVars
<1>4. ASSUME Advance \/ Abort \/ StopSteps \/ UNCHANGED vars PROVE Quiet
  BY <1>4 DEF vars, Advance, Abort, StopSteps, Stop, StopResumes, ConcurrentStopResumes, agentVars
<1> HIDE DEF Quiet, CutsQueue
<1>5. \/ \E n, m, d : CutsQueue(n, m, d)
      \/ \E a \in Agents, outcome \in {"resolving", "rejecting"} : RunEnds(a, outcome)
      \/ Quiet
  BY <1>1, <1>2, <1>3, <1>4, Steps
<1> QED BY <1>5 DEF Quiet

(* What a tick adds to the runs in flight: the tasks it dispatches.        *)
LEMMA BoundedStep ==
  ASSUME SchedulerInv, InFlightBounded, [EitherNext]_bothVars
  PROVE  InFlightBounded'
<1>0. TypeOK /\ InFlightFinite /\ Cardinality(InFlight) \in Nat
  BY FS_CardinalityType DEF SchedulerInv, InFlightFinite
<1>1. ASSUME NEW n, NEW m, NEW d, CutsQueue(n, m, d) PROVE InFlightBounded'
  <2> DEFINE T == {queue[i] : i \in 1 .. n}
  <2>1. InFlight' \subseteq InFlight \cup T /\ IsFiniteSet(T) /\ Cardinality(T) <= n
    BY <1>0, <1>1, CutInFlight
  <2>2. n \in Nat /\ Cardinality(InFlight) + n <= MaxConcurrent
    BY <1>0, <1>1 DEF CutsQueue, TypeOK
  <2> HIDE DEF T
  <2>3. /\ IsFiniteSet(InFlight \cup T)
        /\ Cardinality(InFlight \cup T)
             = Cardinality(InFlight) + Cardinality(T) - Cardinality(InFlight \cap T)
    BY <1>0, <2>1, FS_Union DEF InFlightFinite
  <2>4. Cardinality(InFlight \cap T) \in Nat /\ Cardinality(T) \in Nat
    <3>1. IsFiniteSet(InFlight \cap T)
      BY <2>1, FS_Subset
    <3> QED BY <2>1, <3>1, FS_CardinalityType
  <2>5. Cardinality(InFlight') \in Nat /\ Cardinality(InFlight') <= Cardinality(InFlight \cup T)
    <3>1. IsFiniteSet(InFlight') /\ Cardinality(InFlight') <= Cardinality(InFlight \cup T)
      BY <2>1, <2>3, FS_Subset
    <3> QED BY <3>1, FS_CardinalityType
  <2> QED BY <1>0, <2>1, <2>2, <2>3, <2>4, <2>5, SchedulerAssumption DEF InFlightBounded
<1>2. ASSUME InFlight' \subseteq InFlight PROVE InFlightBounded'
  <2>1. Cardinality(InFlight') <= Cardinality(InFlight) /\ Cardinality(InFlight') \in Nat
    BY <1>0, <1>2, FS_Subset, FS_CardinalityType DEF InFlightFinite
  <2> QED BY <1>0, <2>1, SchedulerAssumption DEF InFlightBounded
<1>3. ASSUME NEW a \in Agents, NEW outcome \in {"resolving", "rejecting"}, RunEnds(a, outcome)
      PROVE  InFlight' \subseteq InFlight
  BY <1>0, <1>3 DEF RunEnds, InFlight, InFlightStates, TypeOK
<1>4. ASSUME \A t \in Tasks : task'[t] \in InFlightStates => task[t] \in InFlightStates
      PROVE  InFlight' \subseteq InFlight
  BY <1>4 DEF InFlight
<1> HIDE DEF InFlightBounded, CutsQueue
<1> QED BY <1>1, <1>2, <1>3, <1>4, OtherSteps

(* No more than maxConcurrent runs are ever in flight, in either class.    *)
THEOREM NeverTooManyRuns == EitherSpec => []InFlightBounded
<1>1. EitherInit => InFlightBounded
  <2>1. EitherInit => InFlight = {}
    BY DEF EitherInit, ConcurrentInit, Init, InFlight, InFlightStates
  <2> QED BY <2>1, FS_EmptySet, SchedulerAssumption DEF InFlightBounded
<1>2. SchedulerInv /\ InFlightBounded /\ [EitherNext]_bothVars => InFlightBounded'
  BY BoundedStep
<1> QED BY <1>1, <1>2, SchedulerInvariance, PTL DEF EitherSpec
-----------------------------------------------------------------------------
(* The tasks of a cut that wait for a run are the first of their agents.   *)
LEMMA CutWaits ==
  ASSUME TypeOK, QueueInv, NEW n, NEW m, NEW d, CutsQueue(n, m, d), NEW t \in Tasks,
         task'[t] = "waiting"
  PROVE  \/ task[t] = "waiting"
         \/ /\ \E i \in 1 .. n : queue[i] = t /\ Starts(i)
            /\ AgentOf[t] \in Started(n)
<1>1. ASSUME NEW i \in 1 .. n, queue[i] = t
      PROVE  Starts(i) /\ AgentOf[t] \in Started(n)
  <2>1. Starts(i)
    BY <1>1 DEF CutsQueue
  <2> QED BY <1>1, <2>1, SchedulerAssumption DEF Starts, Started
<1> QED BY <1>1, CutFate

LEMMA CutStartsOnce ==
  ASSUME TypeOK, QueueInv, OneStarterPerRun, NEW n, NEW m, NEW d, CutsQueue(n, m, d)
  PROVE  OneStarterPerRun'
<1>0. /\ n \in Nat /\ running' = running \cup Started(n)
      /\ agentState' = [a \in Agents |-> IF a \in Started(n) THEN "running" ELSE agentState[a]]
  BY DEF CutsQueue, TypeOK
<1>1. ASSUME NEW t \in Tasks, NEW u \in Tasks, task'[t] = "waiting", task'[u] = "waiting",
             AgentOf[t] = AgentOf[u]
      PROVE  t = u
  <2>1. CASE task[t] = "waiting" /\ task[u] = "waiting"
    BY <1>1, <2>1 DEF OneStarterPerRun
  <2>2. ASSUME NEW x \in Tasks, NEW y \in Tasks, AgentOf[x] = AgentOf[y], task[x] = "waiting",
               NEW i \in 1 .. n, queue[i] = y, Starts(i)
        PROVE  FALSE
    BY <2>2 DEF OneStarterPerRun, Starts
  <2>3. ASSUME NEW i \in 1 .. n, NEW j \in 1 .. n, queue[i] = t, queue[j] = u,
               Starts(i), Starts(j)
        PROVE  t = u
    <3>1. ~(i < j) /\ ~(j < i)
      BY <1>0, <1>1, <2>3 DEF Starts
    <3>2. i = j
      BY <1>0, <3>1
    <3> QED BY <2>3, <3>2
  <2> QED BY <1>1, <2>1, <2>2, <2>3, CutWaits
<1>2. ASSUME NEW t \in Tasks, task'[t] = "waiting" PROVE AgentOf[t] \in running'
  BY <1>0, <1>2, CutWaits DEF OneStarterPerRun
<1>3. ASSUME NEW a \in running' PROVE agentState'[a] # "init"
  BY <1>0, <1>3 DEF OneStarterPerRun, TypeOK, Started
<1> QED BY <1>1, <1>2, <1>3 DEF OneStarterPerRun

(* An agent that is started has a task that waits for it.                  *)
LEMMA CutAwaits ==
  ASSUME TypeOK, QueueInv, RunsAreAwaited, NEW n, NEW m, NEW d, CutsQueue(n, m, d)
  PROVE  RunsAreAwaited'
<1>0. /\ n \in Nat /\ m \in Nat /\ n <= m /\ m <= Len(queue) /\ running' = running \cup Started(n)
      /\ \A i \in 1 .. n : task'[queue[i]] = "waiting" <=> Starts(i)
      /\ \A t \in Tasks : (\A i \in 1 .. m : queue[i] # t) => task'[t] = task[t]
  BY QueueFacts DEF CutsQueue
<1>1. ASSUME NEW a \in running PROVE \E t \in Tasks : task'[t] = "waiting" /\ AgentOf[t] = a
  <2>1. PICK t \in Tasks : task[t] = "waiting" /\ AgentOf[t] = a
    BY DEF RunsAreAwaited
  <2>2. \A i \in 1 .. m : queue[i] # t
    BY <1>0, <2>1, QueueFacts
  <2> QED BY <1>0, <2>1, <2>2
<1>2. ASSUME NEW a \in Started(n) PROVE \E t \in Tasks : task'[t] = "waiting" /\ AgentOf[t] = a
  <2> DEFINE T == {i \in 1 .. n : AgentOf[queue[i]] = a}
  <2>1. T \in SUBSET Nat /\ T # {} /\ agentState[a] = "init"
    BY <1>0 DEF Started
  <2>2. PICK x \in T : \A y \in T : ~(y < x)
    BY <2>1, Least
  <2>3. x \in 1 .. n /\ AgentOf[queue[x]] = a
    BY <2>2
  <2>4. ASSUME NEW j \in 1 .. x - 1 PROVE AgentOf[queue[j]] # a
    <3>1. j \in 1 .. n /\ j < x
      BY <1>0, <2>3
    <3> QED BY <2>2, <3>1
  <2>5. Starts(x)
    BY <2>1, <2>3, <2>4 DEF Starts
  <2>6. queue[x] \in Tasks
    <3>1. x \in 1 .. Len(queue)
      BY <1>0, <2>3, QueueFacts
    <3> QED BY <3>1, QueueFacts
  <2> QED BY <1>0, <2>3, <2>5, <2>6
<1> QED BY <1>0, <1>1, <1>2 DEF RunsAreAwaited

LEMMA RunEndsAlone ==
  ASSUME TypeOK, NEW a \in Agents, NEW outcome \in {"resolving", "rejecting"},
         RunEnds(a, outcome)
  PROVE  /\ running' = running \ {a}
         /\ \A t \in Tasks : task'[t] = "waiting" <=> task[t] = "waiting" /\ AgentOf[t] # a
         /\ \A x \in Agents : agentState'[x] = "init" => agentState[x] = "init"
BY DEF RunEnds, TypeOK

(* An agent's run is started by one task, and never twice.                 *)
THEOREM StartedOnce == EitherSpec => []OneStarterPerRun
<1>1. EitherInit => OneStarterPerRun
  BY DEF EitherInit, ConcurrentInit, Init, OneStarterPerRun
<1>2. SchedulerInv /\ OneStarterPerRun /\ [EitherNext]_bothVars => OneStarterPerRun'
  <2> SUFFICES ASSUME SchedulerInv, OneStarterPerRun, [EitherNext]_bothVars
               PROVE  OneStarterPerRun'
    OBVIOUS
  <2>0. TypeOK /\ QueueInv
    BY DEF SchedulerInv
  <2>1. \A n, m, d : CutsQueue(n, m, d) => OneStarterPerRun'
    BY <2>0, CutStartsOnce
  <2>2. ASSUME NEW a \in Agents, NEW outcome \in {"resolving", "rejecting"}, RunEnds(a, outcome)
        PROVE  OneStarterPerRun'
    BY <2>0, <2>2, RunEndsAlone DEF OneStarterPerRun, TypeOK
  <2>3. ASSUME running' = running,
               \A t \in Tasks : task'[t] = "waiting" <=> task[t] = "waiting",
               \A a \in Agents : agentState'[a] = "init" <=> agentState[a] = "init"
        PROVE  OneStarterPerRun'
    BY <2>0, <2>3 DEF OneStarterPerRun, TypeOK
  <2> HIDE DEF OneStarterPerRun, CutsQueue
  <2> QED BY <2>1, <2>2, <2>3, OtherSteps
<1> QED BY <1>1, <1>2, SchedulerInvariance, PTL DEF EitherSpec

(* A run that has started stays awaited by a task until it settles: what   *)
(* stop() finds in flight leaves no run out, for any tasks and agents.     *)
THEOREM NoRunForgotten == EitherSpec => []RunsAreAwaited
<1>1. EitherInit => RunsAreAwaited
  BY DEF EitherInit, ConcurrentInit, Init, RunsAreAwaited
<1>2. SchedulerInv /\ RunsAreAwaited /\ [EitherNext]_bothVars => RunsAreAwaited'
  <2> SUFFICES ASSUME SchedulerInv, RunsAreAwaited, [EitherNext]_bothVars
               PROVE  RunsAreAwaited'
    OBVIOUS
  <2>0. TypeOK /\ QueueInv
    BY DEF SchedulerInv
  <2>1. \A n, m, d : CutsQueue(n, m, d) => RunsAreAwaited'
    BY <2>0, CutAwaits
  <2>2. ASSUME NEW a \in Agents, NEW outcome \in {"resolving", "rejecting"}, RunEnds(a, outcome)
        PROVE  RunsAreAwaited'
    BY <2>0, <2>2, RunEndsAlone DEF RunsAreAwaited
  <2>3. ASSUME running' = running,
               \A t \in Tasks : task'[t] = "waiting" <=> task[t] = "waiting"
        PROVE  RunsAreAwaited'
    BY <2>3 DEF RunsAreAwaited
  <2> HIDE DEF RunsAreAwaited, CutsQueue
  <2> QED BY <2>1, <2>2, <2>3, OtherSteps
<1> QED BY <1>1, <1>2, SchedulerInvariance, PTL DEF EitherSpec

(* The isolating scheduler stops after all runs: what has stopped has      *)
(* nothing in flight, and a run that goes on would be awaited.             *)
THEOREM StopsAfterRuns == EitherSpec => [](stopPc \in {"resolved", "rejected"} => RunsAreOver)
<1>1. SchedulerInv /\ RunsAreAwaited => (stopPc \in {"resolved", "rejected"} => RunsAreOver)
  BY DEF SchedulerInv, StopInv, RunsAreAwaited, RunsAreOver, InFlight, InFlightStates
<1> QED BY <1>1, SchedulerInvariance, NoRunForgotten, PTL
-----------------------------------------------------------------------------
(* The binary search finds the position that FindInsertIndex states.       *)
LEMMA SearchFinds ==
  ASSUME NEW q \in Seq(Tasks), NEW at \in Nat, NEW when \in [Tasks -> Nat], InTime(q, when)
  PROVE  BinarySearch(q, at, when) = FindInsertIndex(q, at, when)
<1> DEFINE n == Len(q)
           k == FindInsertIndex(q, at, when)
           F(g) == [r \in (0 .. n) \X (0 .. n) |->
                      IF r[1] >= r[2] THEN r[1]
                      ELSE IF when[q[((r[1] + r[2]) \div 2) + 1]] <= at
                           THEN g[<<((r[1] + r[2]) \div 2) + 1, r[2]>>]
                           ELSE g[<<r[1], (r[1] + r[2]) \div 2>>]]
           search == CHOOSE g : g = F(g)
           w == [r \in (0 .. n) \X (0 .. n) |->
                   IF r[1] >= r[2] \/ k < r[1] THEN r[1] ELSE IF k > r[2] THEN r[2] ELSE k]
<1>1. n \in Nat /\ k \in 0 .. n /\ \A i \in 1 .. n : when[q[i]] <= at <=> i <= k
  <2>1. n \in Nat
    OBVIOUS
  <2> HIDE DEF F, search, w
  <2>2. k \in 0 .. n
    BY InsertIndex
  <2>3. \A i \in 1 .. n : when[q[i]] <= at <=> i <= k
    BY InsertIndex
  <2> QED BY <2>1, <2>2, <2>3
<1>2. BinarySearch(q, at, when) = search[<<0, n>>]
  BY DEF BinarySearch
<1> HIDE DEF k
<1>3. \A lo, hi \in 0 .. n : w[<<lo, hi>>] = IF lo >= hi \/ k < lo THEN lo
                                         ELSE IF k > hi THEN hi ELSE k
  OBVIOUS
<1> HIDE DEF n, w
<1>4. ASSUME NEW lo \in 0 .. n, NEW hi \in 0 .. n, lo < hi
      PROVE  LET mid == (lo + hi) \div 2 IN
             /\ mid \in 0 .. n /\ mid + 1 \in 0 .. n /\ lo <= mid /\ mid < hi
             /\ when[q[mid + 1]] <= at <=> mid + 1 <= k
  <2> DEFINE mid == (lo + hi) \div 2
  <2>1. mid \in Nat /\ lo <= mid /\ mid < hi
    BY <1>1, <1>4
  <2> HIDE DEF mid
  <2>2. mid + 1 \in 1 .. n /\ mid \in 0 .. n
    BY <1>1, <2>1
  <2> QED BY <1>1, <2>1, <2>2 DEF mid
<1>5. w = F(w)
  <2>1. ASSUME NEW lo \in 0 .. n, NEW hi \in 0 .. n
        PROVE  w[<<lo, hi>>] = IF lo >= hi THEN lo
                           ELSE IF when[q[((lo + hi) \div 2) + 1]] <= at
                                THEN w[<<((lo + hi) \div 2) + 1, hi>>] ELSE w[<<lo, (lo + hi) \div 2>>]
    <3>1. CASE lo >= hi
      BY <1>3, <3>1
    <3>2. CASE lo < hi
      <4> DEFINE mid == (lo + hi) \div 2
      <4>1. /\ mid \in 0 .. n /\ mid + 1 \in 0 .. n /\ lo <= mid /\ mid < hi
            /\ when[q[mid + 1]] <= at <=> mid + 1 <= k
        BY <1>4, <3>2
      <4> HIDE DEF mid
      <4>2. w[<<mid + 1, hi>>] = IF mid + 1 >= hi \/ k < mid + 1 THEN mid + 1
                             ELSE IF k > hi THEN hi ELSE k
        BY <1>3, <4>1
      <4>3. w[<<lo, mid>>] = IF lo >= mid \/ k < lo THEN lo ELSE IF k > mid THEN mid ELSE k
        BY <1>3, <4>1
      <4>4. mid + 1 <= k => w[<<lo, hi>>] = w[<<mid + 1, hi>>]
        BY <1>1, <1>3, <3>2, <4>1, <4>2
      <4>5. ~(mid + 1 <= k) => w[<<lo, hi>>] = w[<<lo, mid>>]
        BY <1>1, <1>3, <3>2, <4>1, <4>3
      <4> QED BY <1>1, <3>2, <4>1, <4>4, <4>5 DEF mid
    <3> QED BY <1>1, <3>1, <3>2
  <2> DEFINE v == F(w)
  <2>2. \A r \in (0 .. n) \X (0 .. n) : w[r] = v[r]
    BY <2>1
  <2>3. DOMAIN w = DOMAIN v /\ w = [r \in DOMAIN w |-> w[r]] /\ v = [r \in DOMAIN v |-> v[r]]
        /\ DOMAIN w = (0 .. n) \X (0 .. n)
    BY DEF w
  <2> HIDE DEF v
  <2>4. w = v
    BY <2>2, <2>3
  <2> QED BY <2>4 DEF v
<1>6. search = F(search)
  <2> HIDE DEF F
  <2> QED BY <1>5
<1> HIDE DEF search
<1>7. \A lo, hi \in 0 .. n :
         search[<<lo, hi>>] = IF lo >= hi THEN lo
                          ELSE IF when[q[((lo + hi) \div 2) + 1]] <= at
                               THEN search[<<((lo + hi) \div 2) + 1, hi>>]
                               ELSE search[<<lo, (lo + hi) \div 2>>]
  BY <1>6
<1>8. \A lo, hi \in 0 .. n :
         w[<<lo, hi>>] = IF lo >= hi THEN lo
                     ELSE IF when[q[((lo + hi) \div 2) + 1]] <= at
                          THEN w[<<((lo + hi) \div 2) + 1, hi>>] ELSE w[<<lo, (lo + hi) \div 2>>]
  BY <1>5
<1> HIDE DEF F
<1> DEFINE P == {s \in 0 .. n : \A lo, hi \in 0 .. n : hi <= lo + s => search[<<lo, hi>>] = w[<<lo, hi>>]}
<1>9. 0 \in P
  <2>1. ASSUME NEW lo \in 0 .. n, NEW hi \in 0 .. n, hi <= lo + 0
        PROVE  search[<<lo, hi>>] = w[<<lo, hi>>]
    <3>1. lo >= hi
      BY <1>1, <2>1
    <3> QED BY <1>7, <1>8, <3>1
  <2> QED BY <1>1, <2>1
<1>10. ASSUME NEW s \in 0 .. n, s < n, s \in P PROVE s + 1 \in P
  <2>1. ASSUME NEW lo \in 0 .. n, NEW hi \in 0 .. n, hi <= lo + (s + 1)
        PROVE  search[<<lo, hi>>] = w[<<lo, hi>>]
    <3>1. CASE lo >= hi
      BY <1>7, <1>8, <3>1
    <3>2. CASE lo < hi
      <4> DEFINE mid == (lo + hi) \div 2
      <4>1. mid \in 0 .. n /\ mid + 1 \in 0 .. n /\ lo <= mid /\ mid < hi
        BY <1>4, <3>2
      <4> HIDE DEF mid
      <4>2. hi <= (mid + 1) + s /\ mid <= lo + s /\ ~(lo >= hi)
        BY <1>1, <2>1, <3>2, <4>1
      <4>3. search[<<mid + 1, hi>>] = w[<<mid + 1, hi>>] /\ search[<<lo, mid>>] = w[<<lo, mid>>]
        BY <1>10, <4>1, <4>2
      <4> QED BY <1>7, <1>8, <4>2, <4>3 DEF mid
    <3> QED BY <1>1, <3>1, <3>2
  <2>2. s + 1 \in 0 .. n
    BY <1>1, <1>10
  <2> QED BY <2>1, <2>2
<1> HIDE DEF P
<1>11. n \in P
  <2>1. \A s \in 0 .. n : s \in P
    BY <1>1, <1>9, <1>10, UpTo
  <2> QED BY <1>1, <2>1
<1>12. search[<<0, n>>] = w[<<0, n>>] /\ w[<<0, n>>] = k
  <2>1. 0 \in 0 .. n /\ n \in 0 .. n /\ n <= 0 + n
    BY <1>1
  <2>2. search[<<0, n>>] = w[<<0, n>>]
    BY <1>11, <2>1 DEF P
  <2> QED BY <1>1, <1>3, <2>1, <2>2
<1> QED BY <1>2, <1>12 DEF k
(* Enqueueing again what is due before the rest of the queue, one by one:  *)
(* the states of the fold.                                                 *)
Requeues(h, front, rest, when) ==
    h[0] = rest /\ \A i \in 1 .. Len(front) : h[i] = Enqueued(h[i - 1], front[i], when)

LEMMA EnqueuedType ==
  ASSUME NEW q \in Seq(Tasks), NEW t \in Tasks, NEW when
  PROVE  Enqueued(q, t, when) \in Seq(Tasks)
<1> DEFINE S == {i \in 1 .. Len(q) : when[q[i]] <= when[t]}
           k == FindInsertIndex(q, when[t], when)
<1>1. S \in SUBSET (1 .. Len(q)) /\ k = Cardinality(S) /\ Len(q) \in Nat
  BY DEF FindInsertIndex
<1>2. Enqueued(q, t, when) = Inserted(q, t, k)
  BY DEF Enqueued, Inserted
<1> HIDE DEF S, k
<1>3. k \in 0 .. Len(q)
  BY <1>1, CountBounded
<1> QED BY <1>2, <1>3, InsertedPlaces

LEMMA RequeuedStates ==
  ASSUME NEW front \in Seq(Tasks), NEW rest \in Seq(Tasks), NEW when
  PROVE  \E h \in [0 .. Len(front) -> Seq(Tasks)] :
            Requeues(h, front, rest, when) /\ Requeued(front, rest, when) = h[Len(front)]
<1> DEFINE n == Len(front)
           Q == Seq(Tasks)
           step == [p \in Q \X (1 .. n) |-> Enqueued(p[1], front[p[2]], when)]
           G(f) == [s \in SUBSET (1 .. n) |->
                      IF s = {} THEN rest ELSE Enqueued(f[s \ {Max(s)}], front[Max(s)], when)]
           iter == CHOOSE f : f = G(f)
           h == [i \in 0 .. n |-> iter[1 .. i]]
<1>1. n \in Nat /\ DOMAIN front = 1 .. n /\ rest \in Q /\ \A i \in 1 .. n : front[i] \in Tasks
  OBVIOUS
<1>2. \A q \in Q, i \in 1 .. n : step[<<q, i>>] = Enqueued(q, front[i], when)
  OBVIOUS
<1>3. \A q \in Q, i \in 1 .. n : Enqueued(q, front[i], when) \in Q
  BY <1>1, EnqueuedType
<1>4. step \in [Q \X (1 .. n) -> Q]
  <2>1. \A p \in Q \X (1 .. n) : Enqueued(p[1], front[p[2]], when) \in Q
    BY <1>3
  <2> QED BY <2>1
<1> HIDE DEF step
<1>5. \E f : f = G(f)
  <2> HIDE DEF iter, h, n, Q
  <2>1. PICK g \in [SUBSET (1 .. n) -> Q] : FoldsWith(g, n, rest, step)
    BY <1>1, <1>4, FoldExists
  <2>2. \A s \in SUBSET (1 .. n) :
           g[s] = IF s = {} THEN rest ELSE Enqueued(g[s \ {Max(s)}], front[Max(s)], when)
    <3> TAKE s \in SUBSET (1 .. n)
    <3>1. s # {} => Max(s) \in 1 .. n
      BY <1>1, LargestExists
    <3>2. g[s \ {Max(s)}] \in Q
      BY <2>1
    <3> QED BY <1>2, <2>1, <3>1, <3>2 DEF FoldsWith
  <2>3. g = G(g)
    BY <2>2
  <2> HIDE DEF G
  <2> QED BY <2>3
<1>6. iter = G(iter)
  <2> HIDE DEF G
  <2> QED BY <1>5
<1>7. Requeued(front, rest, when) = h[n]
  <2>1. Requeued(front, rest, when) = iter[1 .. n]
    BY <1>1 DEF Requeued, FoldLeft, MapThenFoldSet
  <2> HIDE DEF iter
  <2> QED BY <1>1, <2>1
<1> HIDE DEF iter, Q, n
<1>8. \A s \in SUBSET (1 .. n) :
         iter[s] = IF s = {} THEN rest ELSE Enqueued(iter[s \ {Max(s)}], front[Max(s)], when)
  BY <1>6
<1> HIDE DEF G
<1>9. h[0] = rest
  <2>1. 1 .. 0 = {} /\ {} \in SUBSET (1 .. n) /\ 0 \in 0 .. n
    BY <1>1
  <2>2. iter[{}] = rest
    BY <1>8, <2>1
  <2>3. h[0] = iter[1 .. 0]
    BY <2>1
  <2> QED BY <2>1, <2>2, <2>3
<1>10. ASSUME NEW i \in 1 .. n PROVE h[i] = Enqueued(h[i - 1], front[i], when)
  <2>1. /\ 1 .. i \in SUBSET (1 .. n) /\ i \in 1 .. i /\ i \in Nat
        /\ (1 .. i) \ {i} = 1 .. i - 1
        /\ i \in 0 .. n /\ i - 1 \in 0 .. n
    BY <1>1
  <2>2. Max(1 .. i) = i
    BY <2>1, LargestOf
  <2>3. iter[1 .. i] = Enqueued(iter[1 .. i - 1], front[i], when)
    BY <1>8, <2>1, <2>2
  <2> QED BY <2>1, <2>3
<1> DEFINE P == {i \in 0 .. n : h[i] \in Q}
<1>11. \A i \in 0 .. n : h[i] \in Q
  <2> HIDE DEF h
  <2>1. 0 \in P
    BY <1>1, <1>9
  <2>2. ASSUME NEW i \in 0 .. n, i < n, i \in P PROVE i + 1 \in P
    <3>1. i + 1 \in 1 .. n /\ (i + 1) - 1 = i /\ i + 1 \in 0 .. n
      BY <1>1, <2>2
    <3>2. h[i + 1] = Enqueued(h[i], front[i + 1], when)
      BY <1>10, <3>1
    <3> QED BY <1>3, <2>2, <3>1, <3>2
  <2> HIDE DEF P
  <2>3. \A i \in 0 .. n : i \in P
    BY <1>1, <2>1, <2>2, UpTo
  <2> QED BY <2>3 DEF P
<1>12. h \in [0 .. n -> Q]
  BY <1>11
<1> HIDE DEF h
<1> QED BY <1>7, <1>9, <1>10, <1>12 DEF Requeues, n, Q

(* One of them goes right behind those before it, and before the rest.     *)
LEMMA GoesBehind ==
  ASSUME NEW q \in Seq(Tasks), NEW t \in Tasks, NEW when \in [Tasks -> Nat], InTime(q, when),
         NEW k \in 0 .. Len(q),
         \A i \in 1 .. k : when[q[i]] <= when[t],
         \A i \in k + 1 .. Len(q) : ~(when[q[i]] <= when[t])
  PROVE  Enqueued(q, t, when) = Inserted(q, t, k)
<1> DEFINE j == FindInsertIndex(q, when[t], when)
<1>1. when[t] \in Nat /\ Len(q) \in Nat
  OBVIOUS
<1>2. j \in 0 .. Len(q) /\ \A i \in 1 .. Len(q) : when[q[i]] <= when[t] <=> i <= j
  BY <1>1, InsertIndex
<1>3. Enqueued(q, t, when) = Inserted(q, t, j)
  BY DEF Enqueued, Inserted
<1> HIDE DEF j
<1>4. ~(j < k)
  <2> SUFFICES ASSUME j < k PROVE FALSE
    OBVIOUS
  <2>1. k \in 1 .. k /\ k \in 1 .. Len(q)
    BY <1>1, <1>2
  <2> QED BY <1>1, <1>2, <2>1
<1>5. ~(k < j)
  <2> SUFFICES ASSUME k < j PROVE FALSE
    OBVIOUS
  <2>1. j \in k + 1 .. Len(q) /\ j \in 1 .. Len(q) /\ j <= j
    BY <1>1, <1>2
  <2> QED BY <1>1, <1>2, <2>1
<1>6. j = k
  BY <1>1, <1>2, <1>4, <1>5
<1> QED BY <1>3, <1>6

(* Putting the front back task by task gives the queue it was cut from.    *)
LEMMA RequeuedInOrder ==
  ASSUME NEW front \in Seq(Tasks), NEW rest \in Seq(Tasks), NEW when \in [Tasks -> Nat],
         InTime(front, when), InTime(rest, when),
         \A i \in 1 .. Len(front), j \in 1 .. Len(rest) : ~(when[rest[j]] <= when[front[i]])
  PROVE  Requeued(front, rest, when) = front \o rest
<1> DEFINE n == Len(front)
           r == Len(rest)
           part(i) == SubSeq(front, 1, i) \o rest
           P(h) == {i \in 0 .. n : h[i] = part(i)}
<1>1. n \in Nat /\ r \in Nat /\ \A i \in 1 .. n : front[i] \in Tasks
  OBVIOUS
<1>2. PICK h \in [0 .. n -> Seq(Tasks)] :
         Requeues(h, front, rest, when) /\ Requeued(front, rest, when) = h[n]
  <2> HIDE DEF P, part
  <2> QED BY RequeuedStates
<1>3. ASSUME NEW i \in 0 .. n
      PROVE  /\ part(i) \in Seq(Tasks) /\ Len(part(i)) = i + r
             /\ \A j \in 1 .. i : part(i)[j] = front[j]
             /\ \A j \in 1 .. r : part(i)[i + j] = rest[j]
  <2> DEFINE a == SubSeq(front, 1, i)
  <2>1. a \in Seq(Tasks) /\ Len(a) = i /\ \A j \in 1 .. i : a[j] = front[j]
    BY <1>1, SubSeqProperties
  <2> HIDE DEF a
  <2>2. /\ a \o rest \in Seq(Tasks) /\ Len(a \o rest) = Len(a) + Len(rest)
        /\ \A j \in 1 .. Len(a) + Len(rest) :
              (a \o rest)[j] = IF j <= Len(a) THEN a[j] ELSE rest[j - Len(a)]
    BY <2>1, ConcatProperties
  <2> HIDE DEF r
  <2>3. \A j \in 1 .. i : (a \o rest)[j] = front[j]
    <3> TAKE j \in 1 .. i
    <3>1. j \in 1 .. Len(a) + Len(rest) /\ j <= Len(a)
      BY <1>1, <2>1 DEF r
    <3> QED BY <2>1, <2>2, <3>1
  <2>4. \A j \in 1 .. r : (a \o rest)[i + j] = rest[j]
    <3> TAKE j \in 1 .. r
    <3>1. i + j \in 1 .. Len(a) + Len(rest) /\ ~(i + j <= Len(a)) /\ (i + j) - Len(a) = j
      BY <1>1, <2>1 DEF r
    <3> QED BY <2>2, <3>1
  <2> QED BY <2>1, <2>2, <2>3, <2>4 DEF a, r
<1>4. part(0) = rest /\ part(n) = front \o rest
  <2>1. SubSeq(front, 1, 0) = <<>> /\ SubSeq(front, 1, n) = front
    BY SubSeqEmpty, SubSeqFull
  <2> QED BY <2>1, ConcatEmptySeq
<1> HIDE DEF part, r
<1>5. 0 \in P(h)
  BY <1>1, <1>2, <1>4 DEF Requeues
<1>6. ASSUME NEW i \in 0 .. n, i < n, i \in P(h) PROVE i + 1 \in P(h)
  <2>1. /\ i + 1 \in 1 .. n /\ i + 1 \in 0 .. n /\ (i + 1) - 1 = i
        /\ i \in Nat /\ front[i + 1] \in Tasks
    BY <1>1, <1>6
  <2>2. h[i + 1] = Enqueued(part(i), front[i + 1], when)
    BY <1>2, <1>6, <2>1 DEF Requeues
  <2> DEFINE q == part(i)
             p == part(i + 1)
  <2>3. /\ q \in Seq(Tasks) /\ Len(q) = i + r
        /\ \A j \in 1 .. i : q[j] = front[j]
        /\ \A j \in 1 .. r : q[i + j] = rest[j]
    BY <1>3
  <2>4. /\ p \in Seq(Tasks) /\ Len(p) = i + 1 + r
        /\ \A j \in 1 .. i + 1 : p[j] = front[j]
        /\ \A j \in 1 .. r : p[i + 1 + j] = rest[j]
    BY <1>3, <2>1
  <2> HIDE DEF q, p
  <2>5. \A j \in 1 .. i + r : j \in 1 .. i \/ (j - i \in 1 .. r /\ i + (j - i) = j /\ j > i)
    BY <1>1, <2>1
  <2>6. \A x, y \in 1 .. n : x < y => when[front[x]] <= when[front[y]]
    BY DEF InTime
  <2>7. \A x, y \in 1 .. r : x < y => when[rest[x]] <= when[rest[y]]
    BY DEF InTime, r
  <2>8. \A x \in 1 .. n, y \in 1 .. r :
           when[front[x]] \in Nat /\ when[rest[y]] \in Nat
           /\ ~(when[rest[y]] <= when[front[x]])
    BY DEF r
  <2>9. InTime(q, when)
    <3> SUFFICES ASSUME NEW x \in 1 .. i + r, NEW y \in 1 .. i + r, x < y
                 PROVE  when[q[x]] <= when[q[y]]
      BY <2>3 DEF InTime
    <3>1. CASE x \in 1 .. i /\ y \in 1 .. i
      <4>1. x \in 1 .. n /\ y \in 1 .. n
        BY <2>1, <3>1
      <4> QED BY <2>3, <2>6, <3>1, <4>1
    <3>2. CASE x \in 1 .. i /\ ~(y \in 1 .. i)
      <4>1. x \in 1 .. n /\ y - i \in 1 .. r /\ i + (y - i) = y
        BY <2>1, <2>5, <3>2
      <4>2. q[x] = front[x] /\ q[y] = rest[y - i]
        BY <2>3, <3>2, <4>1
      <4>3. /\ when[front[x]] \in Nat /\ when[rest[y - i]] \in Nat
            /\ ~(when[rest[y - i]] <= when[front[x]])
        BY <2>8, <4>1
      <4> HIDE DEF r, n
      <4>4. \A u, v \in Nat : ~(v <= u) => u <= v
        OBVIOUS
      <4>5. when[front[x]] <= when[rest[y - i]]
        BY <4>3, <4>4
      <4> QED BY <4>2, <4>5
    <3>3. CASE ~(x \in 1 .. i)
      <4>1. x - i \in 1 .. r /\ i + (x - i) = x /\ y - i \in 1 .. r /\ i + (y - i) = y
            /\ x - i < y - i
        BY <1>1, <2>1, <3>3
      <4>2. q[x] = rest[x - i] /\ q[y] = rest[y - i]
        BY <2>3, <4>1
      <4> QED BY <2>7, <4>1, <4>2
    <3> QED BY <3>1, <3>2, <3>3
  <2>10. \A j \in 1 .. i : when[q[j]] <= when[front[i + 1]]
    <3> TAKE j \in 1 .. i
    <3>1. j \in 1 .. n /\ j < i + 1
      BY <2>1
    <3> QED BY <2>1, <2>3, <2>6, <3>1
  <2>11. \A j \in i + 1 .. Len(q) : ~(when[q[j]] <= when[front[i + 1]])
    <3> TAKE j \in i + 1 .. Len(q)
    <3>1. j - i \in 1 .. r /\ i + (j - i) = j
      <4>1. j \in i + 1 .. i + r
        BY <2>3
      <4> QED BY <1>1, <2>1, <4>1
    <3>2. q[j] = rest[j - i]
      BY <2>3, <3>1
    <3> QED BY <2>1, <2>8, <3>1, <3>2
  <2>12. i \in 0 .. Len(q)
    BY <1>1, <2>1, <2>3
  <2>13. Enqueued(q, front[i + 1], when) = Inserted(q, front[i + 1], i)
    <3>1. q \in Seq(Tasks) /\ front[i + 1] \in Tasks /\ when \in [Tasks -> Nat]
      BY <2>1, <2>3
    <3> QED BY ONLY <2>9, <2>10, <2>11, <2>12, <3>1, GoesBehind
  <2> DEFINE s == Inserted(q, front[i + 1], i)
  <2>14. /\ s \in Seq(Tasks) /\ Len(s) = Len(q) + 1
         /\ \A j \in 1 .. Len(q) + 1 :
               s[j] = IF j <= i THEN q[j] ELSE IF j = i + 1 THEN front[i + 1] ELSE q[j - 1]
    BY <2>1, <2>3, <2>12, InsertedPlaces
  <2> HIDE DEF s
  <2>15. Len(s) = Len(p)
    <3>1. Len(s) = Len(q) + 1 /\ Len(q) = i + r /\ Len(p) = i + 1 + r
      BY <2>3, <2>4, <2>14
    <3>2. i \in Nat /\ r \in Nat
      BY <1>1, <2>1
    <3> QED BY ONLY <3>1, <3>2
  <2>16. ASSUME NEW j \in 1 .. Len(s) PROVE s[j] = p[j]
    <3>1. j \in 1 .. Len(q) + 1 /\ j \in 1 .. i + 1 + r
      BY <1>1, <2>1, <2>3, <2>14
    <3>2. CASE j <= i
      <4>1. j \in 1 .. i /\ j \in 1 .. i + 1
        BY <2>1, <3>1, <3>2
      <4> QED BY <2>3, <2>4, <2>14, <3>1, <3>2, <4>1
    <3>3. CASE j = i + 1
      <4>1. j \in 1 .. i + 1 /\ ~(j <= i)
        BY <2>1, <3>3
      <4> QED BY <2>4, <2>14, <3>1, <3>3, <4>1
    <3>4. CASE ~(j <= i) /\ j # i + 1
      <4>1. /\ j - (i + 1) \in 1 .. r /\ i + 1 + (j - (i + 1)) = j
            /\ i + (j - (i + 1)) = j - 1
        BY <1>1, <2>1, <3>1, <3>4
      <4>2. s[j] = q[j - 1]
        BY <2>14, <3>1, <3>4
      <4>3. q[j - 1] = rest[j - (i + 1)] /\ p[j] = rest[j - (i + 1)]
        BY <2>3, <2>4, <4>1
      <4> QED BY <4>2, <4>3
    <3> QED BY <3>2, <3>3, <3>4
  <2>17. s = p
    BY <2>4, <2>14, <2>15, <2>16, SeqEqual
  <2>18. h[i + 1] = part(i + 1)
    BY <2>2, <2>13, <2>17 DEF s, q, p
  <2> QED BY <2>1, <2>18
<1> HIDE DEF P
<1>7. n \in P(h)
  <2> DEFINE R == P(h)
  <2>1. 0 \in R /\ \A i \in 0 .. n : i < n /\ i \in R => i + 1 \in R
    BY <1>5, <1>6
  <2> HIDE DEF R, n
  <2>2. \A i \in 0 .. n : i \in R
    BY <1>1, <2>1, UpTo
  <2> QED BY <1>1, <2>2 DEF R
<1>8. h[n] = part(n)
  BY <1>7 DEF P
<1> QED BY <1>2, <1>4, <1>8
(* The queue of a state: sorted, and due up to the cut alone.              *)
LEMMA QueueInTime == TypeOK /\ QueueInv => InTime(queue, runAt)
<1> SUFFICES ASSUME TypeOK, QueueInv, NEW i \in 1 .. Len(queue), NEW j \in 1 .. Len(queue), i < j
             PROVE  runAt[queue[i]] <= runAt[queue[j]]
  BY DEF InTime
<1>1. Before(queue[i], queue[j]) /\ runAt[queue[i]] \in Nat /\ runAt[queue[j]] \in Nat
  BY QueueFacts
<1> QED BY <1>1 DEF Before

LEMMA RequeuedTail ==
  ASSUME TypeOK, QueueInv, NEW n \in 0 .. Len(Due)
  PROVE  Requeued(Left(n), Rest, runAt) = Left(n) \o Rest
<1> DEFINE d == Len(Due)
           left == Left(n)
<1>1. /\ Len(queue) \in Nat /\ Rest \in Seq(Tasks)
      /\ d \in 0 .. Len(queue) /\ n \in 0 .. d /\ Len(Rest) = Len(queue) - d
      /\ \A i \in 1 .. d : runAt[queue[i]] <= clock
      /\ \A i \in 1 .. Len(Rest) : Rest[i] = queue[d + i]
      /\ d < Len(queue) => ~(runAt[queue[d + 1]] <= clock)
  BY DuePlaces DEF TypeOK
<1>2. /\ left \in Seq(Tasks) /\ Len(left) = d - n
      /\ \A i \in 1 .. d - n : left[i] = queue[n + i]
  BY SentAndLeft
<1>3. /\ runAt \in [Tasks -> Nat] /\ clock \in Nat
      /\ \A i \in 1 .. Len(queue) : runAt[queue[i]] \in Nat
      /\ \A i, j \in 1 .. Len(queue) : i < j => runAt[queue[i]] <= runAt[queue[j]]
  BY QueueInTime, QueueFacts DEF InTime, TypeOK
<1> HIDE DEF d, left
<1>4. InTime(left, runAt)
  <2> SUFFICES ASSUME NEW i \in 1 .. d - n, NEW j \in 1 .. d - n, i < j
               PROVE  runAt[left[i]] <= runAt[left[j]]
    BY <1>2 DEF InTime
  <2>1. n + i \in 1 .. Len(queue) /\ n + j \in 1 .. Len(queue) /\ n + i < n + j
    BY <1>1
  <2> QED BY <1>2, <1>3, <2>1
<1>5. InTime(Rest, runAt)
  <2> SUFFICES ASSUME NEW i \in 1 .. Len(Rest), NEW j \in 1 .. Len(Rest), i < j
               PROVE  runAt[Rest[i]] <= runAt[Rest[j]]
    BY DEF InTime
  <2>1. d + i \in 1 .. Len(queue) /\ d + j \in 1 .. Len(queue) /\ d + i < d + j
    BY <1>1
  <2> QED BY <1>1, <1>3, <2>1
<1>6. ASSUME NEW i \in 1 .. Len(left), NEW j \in 1 .. Len(Rest)
      PROVE  ~(runAt[Rest[j]] <= runAt[left[i]])
  <2>1. /\ n + i \in 1 .. d /\ n + i \in 1 .. Len(queue) /\ i \in 1 .. d - n
        /\ d + 1 \in 1 .. Len(queue) /\ d + j \in 1 .. Len(queue)
        /\ d + 1 = d + j \/ d + 1 < d + j
        /\ d < Len(queue)
    <3>1. i \in 1 .. d - n /\ j \in 1 .. Len(queue) - d
      BY <1>1, <1>2
    <3> QED BY <1>1, <3>1
  <2> DEFINE x == runAt[queue[n + i]]
             y == runAt[queue[d + 1]]
             z == runAt[queue[d + j]]
  <2>2. x \in Nat /\ y \in Nat /\ z \in Nat /\ x <= clock /\ ~(y <= clock)
    BY <1>1, <1>3, <2>1
  <2>3. y = z \/ y <= z
    BY <1>3, <2>1
  <2>4. runAt[left[i]] = x /\ runAt[Rest[j]] = z
    BY <1>1, <1>2, <2>1
  <2> HIDE DEF x, y, z
  <2>5. ~(z <= x)
    BY <1>3, <2>2, <2>3
  <2> QED BY <2>4, <2>5
<1>7. Requeued(left, Rest, runAt) = left \o Rest
  BY <1>1, <1>2, <1>3, <1>4, <1>5, <1>6, RequeuedInOrder
<1> QED BY <1>7 DEF left

(* The binary search of any reachable queue finds the place the model      *)
(* inserts at, and re-enqueueing what a tick leaves restores the order.    *)
THEOREM DeferredInOrder == EitherSpec => []DeferralKeepsOrder
<1>1. SchedulerInv => DeferralKeepsOrder
  <2> SUFFICES ASSUME SchedulerInv PROVE DeferralKeepsOrder
    OBVIOUS
  <2>1. TypeOK /\ QueueInv /\ InTime(queue, runAt)
    BY QueueInTime DEF SchedulerInv
  <2>2. ASSUME NEW at \in 0 .. MaxClock
        PROVE  BinarySearch(queue, at, runAt) = FindInsertIndex(queue, at, runAt)
    <3>1. at \in Nat /\ queue \in Seq(Tasks) /\ runAt \in [Tasks -> Nat]
      BY <2>1, SchedulerAssumption DEF TypeOK
    <3> QED BY <2>1, <3>1, SearchFinds
  <2>3. ASSUME NEW n \in 0 .. Len(Due)
        PROVE  Requeued(SubSeq(Due, n + 1, Len(Due)), Rest, runAt)
                 = SubSeq(Due, n + 1, Len(Due)) \o Rest
    BY <2>1, RequeuedTail DEF Left
  <2> QED BY <2>2, <2>3 DEF DeferralKeepsOrder
<1> QED BY <1>1, SchedulerInvariance, PTL
=============================================================================
