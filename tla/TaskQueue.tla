----------------------------- MODULE TaskQueue ------------------------------
(***************************************************************************)
(* The scheduler's priority queue (src/src/scheduler/task-queue.ts): a     *)
(* sequence of tasks sorted by when[t], the task's runAt, with tasks of    *)
(* equal runAt in the order of their insertion.                            *)
(***************************************************************************)
EXTENDS Naturals, FiniteSets, Sequences, SequencesExt

(* Variant: before the tasks of equal runAt.                               *)
BinarySearch_BeforeEqual(q, at, when) ==
    Cardinality({i \in 1 .. Len(q) : when[q[i]] < at})

(* findInsertIndex as written: a binary search of positions counted from 0 *)
BinarySearch(q, at, when) ==
    LET Search[range \in (0 .. Len(q)) \X (0 .. Len(q))] ==
          LET lo  == range[1]
              hi  == range[2]
              mid == (lo + hi) \div 2
          IN  IF lo >= hi THEN lo
              ELSE IF when[q[mid + 1]] <= at
              THEN Search[<<mid + 1, hi>>] ELSE Search[<<lo, mid>>]
    IN  Search[<<0, Len(q)>>]

(* What it finds in a sorted queue: how many tasks are due no later.       *)
FindInsertIndex(q, at, when) ==
    Cardinality({i \in 1 .. Len(q) : when[q[i]] <= at})

Enqueued(q, t, when) ==
    LET idx == FindInsertIndex(q, when[t], when) IN
    SubSeq(q, 1, idx) \o <<t>> \o SubSeq(q, idx + 1, Len(q))

(* Variant: one time unit ahead.                                           *)
DueCount_Ahead(q, now, when) ==
    Cardinality({i \in 1 .. Len(q) : \A j \in 1 .. i : when[q[j]] <= now + 1})

(* How many tasks dequeueDue takes: the longest prefix due at time now.    *)
DueCount(q, now, when) ==
    Cardinality({i \in 1 .. Len(q) : \A j \in 1 .. i : when[q[j]] <= now})

(* Tasks taken from the front and enqueued again one by one.               *)
Requeued(front, rest, when) ==
    FoldLeft(LAMBDA q, t : Enqueued(q, t, when), rest, front)
=============================================================================
