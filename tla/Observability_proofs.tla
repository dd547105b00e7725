----------------------- MODULE Observability_proofs ------------------------
(***************************************************************************)
(* Theorems about FileSink, for any number and size of chunks and files:   *)
(* its invariants, and that it is a SegmentedLog; and about the token      *)
(* bucket of MeteredRouter, for any rate and burst.                        *)
(***************************************************************************)
EXTENDS Observability, SequenceLemmas, FiniteSetTheorems

(* What the numbers of the model are.                                      *)
LEMMA Numbers ==
  /\ LastSlot \in Nat /\ MaxFiles = LastSlot + 1
  /\ 0 \in Slots /\ LastSlot \in Slots
  /\ \A c \in Chunks : c \in Nat /\ c # 0 /\ Size[c] \in Nat /\ Size[c] > 0
  /\ Empty \in Files
  BY SinkAssumption DEF LastSlot, Slots, Chunks, Empty, Files

(* What a file holds: an empty one nothing, and an append adds its chunk.  *)
LEMMA HeldTypes ==
  /\ Held(Empty) = {}
  /\ \A f \in Files : Held(f) \subseteq Chunks
  BY DEF Held, Empty, Files

LEMMA HeldAppend ==
  ASSUME NEW f \in Files, NEW c \in Chunks, NEW n
  PROVE  Held([chunks |-> Append(f.chunks, c), size |-> n]) = Held(f) \cup {c}
<1>1. f.chunks \in Seq(Chunks)  BY DEF Files
<1> QED BY <1>1 DEF Held

LEMMA TypeStep ==
  ASSUME TypeOK, FirstComesFirst, [Next]_vars
  PROVE  TypeOK'
<1> USE Numbers DEF TypeOK
<1>1. ASSUME NEW c \in Chunks, Submit(c) PROVE TypeOK'
  BY <1>1 DEF Submit, Up
<1>2. CASE End  BY <1>2 DEF End
<1>3. CASE TakeChunk
  <2>1. PICK c \in Queued : current' = c /\ (bytes' = bytes \/ bytes' = bytes + Size[c])
    BY <1>3 DEF TakeChunk
  <2>2. c \in Chunks /\ bytes' \in Nat  BY <2>1 DEF Queued
  <2> QED BY <1>3, <2>1, <2>2 DEF TakeChunk, Up
<1>4. CASE StreamEnds  BY <1>4 DEF StreamEnds, Up
<1>5. CASE Unlink  BY <1>5 DEF Unlink, Up
<1>6. CASE Rename
  <2>1. at \in Slots /\ at + 1 \in Slots  BY <1>6 DEF Rename, Slots
  <2>2. file' \in [Slots -> Files]  BY <1>6, <2>1 DEF Rename
  <2>3. at' \in -1 .. LastSlot - 1  BY <1>6 DEF Rename
  <2> QED BY <1>6, <2>2, <2>3 DEF Rename
<1>7. CASE Reopen
  <2>1. current \in Chunks  BY <1>7 DEF Reopen, FirstComesFirst, Busy
  <2> QED BY <1>7, <2>1 DEF Reopen, Up
<1>8. CASE Land
  <2>1. current \in Chunks  BY <1>8 DEF Land, FirstComesFirst, Busy
  <2>2. file[0].chunks \in Seq(Chunks) /\ file[0].size \in Nat  BY DEF Files
  <2>3. file'[0] \in Files  BY <1>8, <2>1, <2>2 DEF Land, Files
  <2>4. file' \in [Slots -> Files]  BY <1>8, <2>3 DEF Land
  <2> QED BY <1>8, <2>4 DEF Land, Up
<1>9. CASE Acknowledge  BY <1>9 DEF Acknowledge, Up
<1>10. CASE Final  BY <1>10 DEF Final, Up
<1>11. CASE Close  BY <1>11 DEF Close, Up
<1>12. CASE RotationFails  BY <1>12 DEF RotationFails, Break, Up
<1>13. CASE Crash
  <2>1. state' \in [Chunks -> {"new", "queued", "written", "acked", "lost"}]
    BY <1>13 DEF Crash, Break
  <2>2. ended' \in BOOLEAN /\ pc' \in Up \cup {"dead", "closed", "down"}
    BY <1>13 DEF Crash
  <2>3. at' \in -1 .. LastSlot - 1 /\ current' \in Chunks \cup {0} /\ tears' \in Nat
    BY <1>13 DEF Crash, Break
  <2>4. file' \in [Slots -> Files] /\ bytes' \in Nat /\ restarts' \in Nat
    BY <1>13 DEF Crash, Break
  <2> QED BY <2>1, <2>2, <2>3, <2>4
<1>14. CASE Restart
  <2>1. file[0].size \in Nat  BY DEF Files
  <2> QED BY <1>14, <2>1 DEF Restart, Up
<1>15. CASE UNCHANGED vars  BY <1>15 DEF vars, Up
<1> QED BY <1>1, <1>2, <1>3, <1>4, <1>5, <1>6, <1>7, <1>8, <1>9, <1>10, <1>11,
           <1>12, <1>13, <1>14, <1>15 DEF Next

(* A step that changes neither chunks nor files leaves them alone.         *)
LEMMA FirstStep ==
  ASSUME TypeOK, TypeOK', FirstComesFirst, TargetIsFree, [Next]_vars
  PROVE  FirstComesFirst'
<1> DEFINE InOrder == \A c, d \in Chunks : state[c] # "new" /\ d < c => state[d] # "new"
           Stored(i) == Held(file[i])
           Past(i) == \A d \in Stored(i) : state[d] # "new" /\ \A c \in Queued : d < c
<1> USE Numbers DEF Up, Busy
<1>a. InOrder /\ \A i \in Slots : Past(i)
  BY DEF FirstComesFirst
<1>b. \A i \in Slots : Stored(i) \subseteq Chunks /\ Stored(i)' \subseteq Chunks
  BY HeldTypes DEF TypeOK
<1>c. ASSUME InOrder', \A i \in Slots : Past(i)', 
             current' \in Chunks <=> pc' \in Busy,
             pc' \in Busy \ {"landed"} => current' \in Queued' /\ \A d \in Queued' : current' <= d,
             pc' = "landed" => state'[current'] = "written"
      PROVE  FirstComesFirst'
  BY <1>c DEF FirstComesFirst
<1>d. ASSUME state' = state, file' = file PROVE InOrder' /\ \A i \in Slots : Past(i)'
  BY <1>a, <1>d DEF Queued
<1>1. ASSUME NEW c \in Chunks, Submit(c) PROVE FirstComesFirst'
  <2>1. InOrder'  BY <1>1, <1>a DEF Submit, TypeOK
  <2>2. \A d \in Chunks : state[d] # "new" => d < c
    BY <1>1, <1>a DEF Submit, TypeOK, Chunks
  <2>3. Queued' = Queued \/ Queued' = Queued \cup {c}
    BY <1>1 DEF Submit, Queued, TypeOK
  <2>4. \A i \in Slots : Past(i)'
    <3> SUFFICES ASSUME NEW i \in Slots, NEW d \in Stored(i)
                 PROVE  state'[d] # "new" /\ \A e \in Queued' : d < e
      BY <1>1 DEF Submit
    <3>1. d \in Chunks /\ state[d] # "new" /\ \A e \in Queued : d < e  BY <1>a, <1>b
    <3> QED BY <1>1, <2>2, <2>3, <3>1 DEF Submit, TypeOK
  <2>5. pc \in Busy \ {"landed"} => current \in Queued' /\ \A d \in Queued' : current <= d
    <3> SUFFICES ASSUME pc \in Busy \ {"landed"}
                 PROVE  current \in Queued' /\ \A d \in Queued' : current <= d
      OBVIOUS
    <3>1. current \in Queued /\ current \in Chunks /\ \A d \in Queued : current <= d
      BY DEF FirstComesFirst, Queued
    <3>2. current < c  BY <3>1, <2>2 DEF Queued
    <3> QED BY <3>1, <3>2, <2>3
  <2>6. pc = "landed" => state'[current] = "written"
    BY <1>1 DEF Submit, FirstComesFirst, TypeOK
  <2> QED BY <1>1, <1>c, <2>1, <2>4, <2>5, <2>6 DEF Submit, FirstComesFirst
<1>2. CASE End  BY <1>2, <1>c, <1>d DEF End, FirstComesFirst, Queued
<1>3. CASE TakeChunk
  <2>1. PICK c \in Queued : /\ \A d \in Queued : c <= d
                            /\ current' = c
                            /\ pc' \in {"writing", "ending"}
    BY <1>3 DEF TakeChunk
  <2>2. c \in Chunks  BY <2>1 DEF Queued
  <2>3. Queued' = Queued  BY <1>3 DEF TakeChunk, Queued
  <2> QED BY <1>3, <1>c, <1>d, <2>1, <2>2, <2>3 DEF TakeChunk
<1>4. CASE StreamEnds  BY <1>4, <1>c, <1>d DEF StreamEnds, FirstComesFirst, Queued
<1>5. CASE Unlink
  <2>1. \A i \in Slots : Past(i)'
    BY <1>5, <1>a, HeldTypes DEF Unlink, TypeOK, Queued
  <2> QED BY <1>5, <1>a, <1>c, <2>1 DEF Unlink, FirstComesFirst, Queued
<1>6. CASE Rename
  <2>1. at \in Slots /\ at + 1 \in Slots  BY <1>6 DEF Rename, Slots, TypeOK
  <2>2. \A i \in Slots : file'[i] \in {file[i], file[at], Empty}
    BY <1>6, <2>1 DEF Rename, TypeOK
  <2>3. \A i \in Slots : Past(i)'
    BY <1>6, <1>a, <2>1, <2>2, HeldTypes DEF Rename, Queued
  <2> QED BY <1>6, <1>a, <1>c, <2>3 DEF Rename, FirstComesFirst, Queued
<1>7. CASE Reopen  BY <1>7, <1>c, <1>d DEF Reopen, FirstComesFirst, Queued
<1>8. CASE Land
  <2>1. current \in Queued /\ current \in Chunks /\ \A d \in Queued : current <= d
    BY <1>8 DEF Land, FirstComesFirst
  <2>2. Queued' = Queued \ {current}
    BY <1>8, <2>1 DEF Land, Queued, TypeOK
  <2>3. \A d \in Queued' : current < d
    BY <2>1, <2>2 DEF Queued
  <2>4. \A i \in Slots \ {0} : Past(i)'
    BY <1>8, <1>a, <1>b, <2>1, <2>2 DEF Land, TypeOK
  <2>5. Stored(0)' = Stored(0) \cup {current}
    BY <1>8, <2>1, HeldAppend DEF Land, TypeOK
  <2>6. Past(0)'
    <3> SUFFICES ASSUME NEW d \in Stored(0)'
                 PROVE  state'[d] # "new" /\ \A c \in Queued' : d < c
      OBVIOUS
    <3>1. CASE d = current  BY <1>8, <2>1, <2>3, <3>1 DEF Land, TypeOK
    <3>2. CASE d \in Stored(0)
      BY <1>8, <1>a, <1>b, <2>1, <2>2, <3>2 DEF Land, TypeOK
    <3> QED BY <2>5, <3>1, <3>2
  <2>7. InOrder'  BY <1>8, <1>a, <2>1 DEF Land, TypeOK, Queued
  <2>8. pc' = "landed" /\ current' = current /\ state'[current] = "written"
    BY <1>8, <2>1 DEF Land, TypeOK
  <2> QED BY <1>c, <2>1, <2>4, <2>6, <2>7, <2>8
<1>9. CASE Acknowledge
  <2>1. current \in Chunks /\ state[current] = "written"  BY <1>9 DEF Acknowledge, FirstComesFirst
  <2>2. Queued' = Queued  BY <1>9, <2>1 DEF Acknowledge, Queued, TypeOK
  <2>3. \A c \in Chunks : state[c] # "new" <=> state'[c] # "new"
    BY <1>9, <2>1 DEF Acknowledge, TypeOK
  <2>4. \A i \in Slots : Past(i)'
    BY <1>9, <1>a, <1>b, <2>2, <2>3 DEF Acknowledge
  <2>5. InOrder'  BY <1>a, <2>3
  <2> QED BY <1>9, <1>c, <2>4, <2>5 DEF Acknowledge
<1>10. CASE Final  BY <1>10, <1>c, <1>d DEF Final, FirstComesFirst, Queued
<1>11. CASE Close  BY <1>11, <1>c, <1>d DEF Close, FirstComesFirst, Queued
<1>12. ASSUME Break, pc' \in {"dead", "down"} PROVE FirstComesFirst'
  <2>1. \A c \in Chunks : state'[c] = IF c \in Queued THEN "lost" ELSE state[c]
    BY <1>12 DEF Break
  <2>2. Queued' = {}  BY <2>1 DEF Queued
  <2>3. InOrder' /\ \A i \in Slots : Past(i)'
    BY <1>12, <1>a, <1>b, <2>1, <2>2 DEF Break, Queued
  <2> QED BY <1>12, <1>c, <2>3 DEF Break
<1>13. CASE Restart  BY <1>13, <1>c, <1>d DEF Restart, FirstComesFirst, Queued
<1>14. CASE UNCHANGED vars  BY <1>14, <1>c, <1>d DEF vars, FirstComesFirst, Queued
<1> QED BY <1>1, <1>2, <1>3, <1>4, <1>5, <1>6, <1>7, <1>8, <1>9, <1>10, <1>11,
           <1>12, <1>13, <1>14 DEF Next, RotationFails, Crash

(* A file with something in it has a size; so has an append.               *)
LEMMA SizesStep ==
  ASSUME TypeOK, FirstComesFirst, BytesAgree, [Next]_vars
  PROVE  \A i \in Slots : file'[i].size = 0 <=> file'[i].chunks = <<>>
<1> USE Numbers DEF TypeOK
<1>a. \A i \in Slots : file[i].size = 0 <=> file[i].chunks = <<>>  BY DEF BytesAgree
<1>1. CASE file' = file  BY <1>1, <1>a
<1>2. CASE Unlink
  <2>1. Empty.size = 0 /\ Empty.chunks = <<>>  BY DEF Empty
  <2> QED BY <1>2, <1>a, <2>1 DEF Unlink
<1>3. CASE Rename
  <2>1. Empty.size = 0 /\ Empty.chunks = <<>>  BY DEF Empty
  <2>2. at \in Slots /\ at + 1 \in Slots  BY <1>3 DEF Rename, Slots
  <2>3. \A i \in Slots : file'[i] \in {file[i], file[at], Empty}
    BY <1>3, <2>2 DEF Rename
  <2> QED BY <1>a, <2>1, <2>2, <2>3
<1>4. CASE Land
  <2>1. current \in Chunks  BY <1>4 DEF Land, FirstComesFirst, Busy
  <2>2. file[0].chunks \in Seq(Chunks) /\ file[0].size \in Nat  BY DEF Files
  <2>3. Append(file[0].chunks, current) # <<>>  BY ONLY <2>1, <2>2, AppendProperties
  <2>4. file[0].size + Size[current] # 0  BY <2>1, <2>2
  <2>5. /\ file'[0].chunks = Append(file[0].chunks, current)
        /\ file'[0].size = file[0].size + Size[current]
        /\ \A i \in Slots \ {0} : file'[i] = file[i]
    BY <1>4 DEF Land
  <2> QED BY <1>a, <2>3, <2>4, <2>5
<1> QED BY <1>1, <1>2, <1>3, <1>4
      DEF Next, vars, Submit, End, TakeChunk, StreamEnds, Reopen, Acknowledge,
          Final, Close, RotationFails, Crash, Break, Restart

(* A file is empty when it measures nothing.                               *)
LEMMA EmptyIffNoSize ==
  ASSUME TypeOK, BytesAgree, NEW i \in Slots
  PROVE  file[i] = Empty <=> file[i].size = 0
  BY DEF TypeOK, BytesAgree, Files, Empty

LEMMA BytesStep ==
  ASSUME TypeOK, TypeOK', FirstComesFirst, BytesAgree, TargetIsFree, [Next]_vars
  PROVE  BytesAgree'
<1> DEFINE Counted ==
             /\ pc \in Up \ {"renaming", "writing"} => bytes = file[0].size
             /\ pc \in {"ending", "unlinking"} => bytes > 0
             /\ pc = "writing" => /\ bytes = file[0].size + Size[current]
                                  /\ file[0] = Empty \/ bytes <= MaxBytes
<1> USE Numbers DEF Up
<1>a. Counted  BY DEF BytesAgree
<1> SUFFICES Counted'
  BY SizesStep DEF BytesAgree
<1>c. file[0] \in Files /\ file[0].size \in Nat /\ bytes \in Nat  BY DEF TypeOK, Files
<1> HIDE DEF Counted
<1>1. ASSUME NEW c \in Chunks, Submit(c) PROVE Counted'
  BY <1>1, <1>a DEF Submit, Counted
<1>2. CASE End  BY <1>2, <1>a DEF End, Counted
<1>3. CASE TakeChunk
  <2>1. PICK c \in Queued :
          /\ current' = c
          /\ IF Fits(c) THEN pc' = "writing" /\ bytes' = bytes + Size[c]
             ELSE pc' = "ending" /\ bytes' = bytes
    BY <1>3 DEF TakeChunk
  <2>2. c \in Chunks /\ Size[c] \in Nat  BY <2>1 DEF Queued
  <2>3. pc = "idle" /\ file' = file  BY <1>3 DEF TakeChunk
  <2>4. bytes = file[0].size  BY <1>a, <2>3 DEF Counted
  <2>5. CASE Fits(c)
    <3>1. bytes = 0 \/ bytes + Size[c] <= MaxBytes  BY <2>5 DEF Fits
    <3>2. bytes = 0 => file[0] = Empty  BY <2>4, EmptyIffNoSize
    <3> QED BY <2>1, <2>3, <2>4, <2>5, <3>1, <3>2 DEF Counted
  <2>6. CASE ~Fits(c)  BY <1>c, <2>1, <2>3, <2>4, <2>6 DEF Fits, Counted
  <2> QED BY <2>5, <2>6
<1>4. CASE StreamEnds  BY <1>4, <1>a DEF StreamEnds, Counted
<1>5. CASE Unlink  BY <1>5 DEF Unlink, Counted
<1>6. CASE Rename  BY <1>6 DEF Rename, Counted
<1>7. CASE Reopen
  <2>1. current \in Chunks /\ file[0] = Empty
    BY <1>7 DEF Reopen, FirstComesFirst, TargetIsFree, Busy
  <2>2. Empty.size = 0  BY DEF Empty
  <2> QED BY <1>7, <2>1, <2>2 DEF Reopen, Counted
<1>8. CASE Land  BY <1>8, <1>a, <1>c DEF Land, Counted, TypeOK
<1>9. CASE Acknowledge  BY <1>9, <1>a DEF Acknowledge, Counted
<1>10. CASE Final  BY <1>10, <1>a DEF Final, Counted
<1>11. CASE Close  BY <1>11, <1>a DEF Close, Counted
<1>12. CASE RotationFails  BY <1>12 DEF RotationFails, Counted
<1>13. CASE Crash  BY <1>13 DEF Crash, Counted
<1>14. CASE Restart  BY <1>14 DEF Restart, Counted
<1>15. CASE UNCHANGED vars  BY <1>15, <1>a DEF vars, Counted
<1> QED BY <1>1, <1>2, <1>3, <1>4, <1>5, <1>6, <1>7, <1>8, <1>9, <1>10,
           <1>11, <1>12, <1>13, <1>14, <1>15 DEF Next

LEMMA TargetStep ==
  ASSUME TypeOK, BytesAgree, TargetIsFree, [Next]_vars
  PROVE  TargetIsFree'
<1> USE Numbers DEF TypeOK
<1>1. CASE Unlink
  <2>1. file[0] # Empty
    BY <1>1, EmptyIffNoSize DEF Unlink, BytesAgree, Up
  <2> QED BY <1>1, <2>1 DEF Unlink, TargetIsFree, Slots
<1>2. CASE Rename
  <2>1. at \in Slots /\ at + 1 \in Slots /\ file[0] # Empty
    BY <1>2 DEF Rename, Slots, TargetIsFree
  <2>2. file'[at' + 1] = Empty  BY <1>2, <2>1 DEF Rename
  <2>3. at' >= 0 => file'[0] # Empty  BY <1>2, <2>1 DEF Rename
  <2> QED BY <2>2, <2>3 DEF TargetIsFree
<1>3. CASE pc' # "renaming"  BY <1>3 DEF TargetIsFree
<1>4. CASE pc' = pc /\ at' = at /\ file' = file  BY <1>4 DEF TargetIsFree
<1> QED BY <1>1, <1>2, <1>3, <1>4
      DEF Next, vars, Submit, End, TakeChunk, StreamEnds, Reopen, Land, Acknowledge,
          Final, Close, RotationFails, Crash, Break, Restart

(* What was written is behind everything that is in the files already.     *)
LEMMA OrderStep ==
  ASSUME TypeOK, FirstComesFirst, TargetIsFree, ReadsInOrder, [Next]_vars
  PROVE  ReadsInOrder'
<1> DEFINE Before(f, g) ==
             \A m \in 1 .. Len(f.chunks), n \in 1 .. Len(g.chunks) :
                f.chunks[m] < g.chunks[n]
           Sorted(f) == \A m, n \in 1 .. Len(f.chunks) : m < n => f.chunks[m] < f.chunks[n]
<1> USE Numbers DEF TypeOK
<1>a. /\ \A i, j \in Slots : i > j => Before(file[i], file[j])
      /\ \A i \in Slots : Sorted(file[i])
  BY DEF ReadsInOrder
<1>b. ASSUME \A i, j \in Slots : i > j => Before(file'[i], file'[j]),
             \A i \in Slots : Sorted(file'[i])
      PROVE  ReadsInOrder'
  BY <1>b DEF ReadsInOrder, Slots
<1>c. Len(Empty.chunks) = 0  BY DEF Empty
<1>d. Sorted(Empty) /\ \A f \in Files : Before(Empty, f) /\ Before(f, Empty)
  BY <1>c
<1>1. CASE file' = file  BY <1>1 DEF ReadsInOrder
<1>2. CASE Unlink
  <2>1. \A i \in Slots : file'[i] = IF i = LastSlot THEN Empty ELSE file[i]
    BY <1>2 DEF Unlink
  <2> HIDE DEF Before, Sorted
  <2> QED BY <1>a, <1>b, <1>d, <2>1
<1>3. CASE Rename
  <2>1. at \in Slots /\ at + 1 \in Slots  BY <1>3 DEF Rename, Slots
  <2>2. file' = file \/ \A i \in Slots : file'[i] = IF i = at + 1 THEN file[at]
                                                 ELSE IF i = at THEN Empty ELSE file[i]
    BY <1>3, <2>1 DEF Rename
  <2>3. \A i \in Slots : i \in Int  BY DEF Slots
  <2>4. at \in Int  OBVIOUS
  <2> HIDE DEF Before, Sorted
  <2>5. \A i, j \in Slots : i > j => Before(file'[i], file'[j])
    <3> SUFFICES ASSUME NEW i \in Slots, NEW j \in Slots, i > j
                 PROVE  Before(file'[i], file'[j])
      OBVIOUS
    <3>1. CASE file' = file  BY <1>a, <3>1
    <3>2. CASE i = at + 1 /\ j # at  BY <1>a, <2>1, <2>2, <2>3, <2>4, <3>2
    <3>3. CASE j = at + 1  BY <1>a, <2>1, <2>2, <2>3, <2>4, <3>3
    <3>4. CASE i = at \/ j = at  BY <1>a, <1>d, <2>1, <2>2, <2>3, <2>4, <3>4
    <3>5. CASE i \notin {at, at + 1} /\ j \notin {at, at + 1}  BY <1>a, <2>2, <3>5
    <3> QED BY <3>1, <3>2, <3>3, <3>4, <3>5
  <2>6. \A i \in Slots : Sorted(file'[i])  BY <1>a, <1>d, <2>1, <2>2
  <2> QED BY <1>b, <2>5, <2>6
<1>4. CASE Land
  <2>1. current \in Queued /\ current \in Chunks
    BY <1>4 DEF Land, FirstComesFirst, Busy, Queued
  <2>2. \A i \in Slots : \A n \in 1 .. Len(file[i].chunks) : file[i].chunks[n] < current
    BY <2>1 DEF FirstComesFirst, Held
  <2>3. file'[0].chunks = Append(file[0].chunks, current)
        /\ \A i \in Slots \ {0} : file'[i] = file[i]
    BY <1>4 DEF Land
  <2>4. file[0].chunks \in Seq(Chunks)  BY DEF Files
  <2>5. /\ Len(file'[0].chunks) = Len(file[0].chunks) + 1
        /\ \A n \in 1 .. Len(file[0].chunks) : file'[0].chunks[n] = file[0].chunks[n]
        /\ file'[0].chunks[Len(file[0].chunks) + 1] = current
    BY <2>1, <2>3, <2>4
  <2>6. Len(file[0].chunks) \in Nat  BY <2>4
  <2>7. Sorted(file'[0])
    <3>0. SUFFICES ASSUME NEW m \in 1 .. Len(file'[0].chunks),
                          NEW n \in 1 .. Len(file'[0].chunks), m < n
                   PROVE  file'[0].chunks[m] < file'[0].chunks[n]
      OBVIOUS
    <3>1. m \in 1 .. Len(file[0].chunks) /\ file'[0].chunks[m] = file[0].chunks[m]
      BY ONLY <2>5, <2>6, <3>0
    <3>2. CASE n \in 1 .. Len(file[0].chunks)
      <4>1. Sorted(file[0]) /\ file'[0].chunks[n] = file[0].chunks[n]
        BY <1>a, <2>5, <3>2 DEF Slots
      <4> QED BY ONLY <3>0, <3>1, <3>2, <4>1
    <3>3. CASE n = Len(file[0].chunks) + 1
      BY <2>2, <2>5, <3>1, <3>3 DEF Slots
    <3>4. n \in 1 .. Len(file[0].chunks) \/ n = Len(file[0].chunks) + 1
      BY ONLY <2>5, <2>6, <3>0
    <3> QED BY ONLY <3>2, <3>3, <3>4
  <2>8. \A i \in Slots \ {0} : Before(file'[i], file'[0])
    <3> SUFFICES ASSUME NEW i \in Slots \ {0}, NEW m \in 1 .. Len(file[i].chunks),
                        NEW n \in 1 .. Len(file'[0].chunks)
                 PROVE  file[i].chunks[m] < file'[0].chunks[n]
      BY <2>3
    <3>1. Before(file[i], file[0])  BY <1>a DEF Slots
    <3>2. CASE n = Len(file[0].chunks) + 1  BY <2>2, <2>5, <3>2
    <3>3. CASE n \in 1 .. Len(file[0].chunks)  BY <2>5, <3>1, <3>3
    <3> QED BY <2>5, <2>6, <3>2, <3>3
  <2> HIDE DEF Before, Sorted
  <2>9. \A i, j \in Slots : i > j => i # 0  BY DEF Slots
  <2> QED BY <1>a, <1>b, <2>3, <2>7, <2>8, <2>9
<1> QED BY <1>1, <1>2, <1>3, <1>4
      DEF Next, vars, Submit, End, TakeChunk, StreamEnds, Reopen, Acknowledge,
          Final, Close, RotationFails, Crash, Break, Restart
-----------------------------------------------------------------------------
LEMMA GapsFinite ==
  ASSUME NEW j \in 1 .. LastSlot
  PROVE  IsFiniteSet(Gaps(j)) /\ Cardinality(Gaps(j)) \in Nat
<1>1. j - 1 \in Int /\ IsFiniteSet(1 .. j - 1)  BY Numbers, FS_Interval
<1>2. Gaps(j) \in SUBSET (1 .. j - 1)  BY DEF Gaps
<1>3. IsFiniteSet(Gaps(j))  BY <1>1, <1>2, FS_Subset
<1> QED BY <1>3, FS_CardinalityType

(* Moving path.at up moves the gap, or at the end of the chain fills it.   *)
LEMMA GapsRename ==
  ASSUME TypeOK, TargetIsFree, GapsAreTears, Rename
  PROVE  GapsAreTears'
<1> SUFFICES ASSUME NEW j \in 1 .. LastSlot, file'[j] # Empty
             PROVE  Cardinality(Gaps(j)') <= tears + Moving(j)'
  BY DEF GapsAreTears, Rename
<1> USE Numbers DEF TypeOK
<1>1. /\ at \in 0 .. LastSlot - 1 /\ at \in Slots /\ at + 1 \in Slots /\ j \in Slots
      /\ pc = "renaming" /\ pc' = "renaming" /\ at' = at - 1
      /\ file[0] # Empty /\ file[at + 1] = Empty
  BY DEF Rename, Slots, TargetIsFree
<1>2. \A i \in 1 .. j - 1 : i \in Slots  BY DEF Slots
<1>a. /\ IsFiniteSet(Gaps(j)) /\ Cardinality(Gaps(j)) \in Nat
      /\ file[j] # Empty => Cardinality(Gaps(j)) <= tears + Moving(j)
  BY GapsFinite DEF GapsAreTears
<1>3. CASE file[at] = Empty
  <2>1. file' = file  BY <1>3 DEF Rename
  <2>2. Gaps(j)' = Gaps(j)  BY <2>1 DEF Gaps
  <2>3. j # at + 1 /\ at # 0  BY <1>1, <1>3, <2>1
  <2>4. Moving(j)' = Moving(j)  BY <1>1, <2>3 DEF Moving
  <2> QED BY <1>a, <2>1, <2>2, <2>4
<1>4. CASE file[at] # Empty
  <2>1. \A i \in Slots : file'[i] = IF i = at + 1 THEN file[at]
                                   ELSE IF i = at THEN Empty ELSE file[i]
    BY <1>1, <1>4 DEF Rename
  <2>2. j # at  BY <1>1, <2>1
  <2>3. CASE j < at
    <3>1. Gaps(j)' = Gaps(j)  BY <1>1, <1>2, <2>1, <2>3 DEF Gaps
    <3>2. Moving(j) = 0 /\ Moving(j)' = 0  BY <1>1, <2>3 DEF Moving
    <3> QED BY <1>1, <1>a, <2>1, <2>3, <3>1, <3>2
  <2>4. CASE j = at + 1 /\ at # 0
    <3>1. at \in 1 .. LastSlot  BY <1>1, <2>4
    <3>2. /\ IsFiniteSet(Gaps(at)) /\ Cardinality(Gaps(at)) \in Nat
          /\ Cardinality(Gaps(at)) <= tears + Moving(at)
      BY <1>4, <3>1, GapsFinite DEF GapsAreTears
    <3>3. Moving(at) = 0 /\ Moving(j)' = 1  BY <1>1, <2>4 DEF Moving
    <3>4. Gaps(j)' = Gaps(at) \cup {at}
      BY <1>1, <1>2, <2>1, <2>4, <3>1 DEF Gaps, Slots
    <3>5. at \notin Gaps(at)  BY <3>1 DEF Gaps
    <3>6. Cardinality(Gaps(j)') = Cardinality(Gaps(at)) + 1
      BY <3>2, <3>4, <3>5, FS_AddElement
    <3> QED BY <3>2, <3>3, <3>6
  <2>5. CASE j > at + 1 /\ at # 0
    <3>a. \A i \in 1 .. j - 1 :
            file'[i] = Empty <=> (file[i] = Empty /\ i # at + 1) \/ i = at
      BY <1>1, <1>2, <1>4, <2>1
    <3>b. at \in 1 .. j - 1  BY <1>1, <2>5
    <3>1. Gaps(j)' = (Gaps(j) \ {at + 1}) \cup {at}
      BY <3>a, <3>b DEF Gaps
    <3>2. at + 1 \in Gaps(j) /\ at \notin Gaps(j)  BY <1>1, <1>4, <2>5 DEF Gaps
    <3>3. /\ IsFiniteSet(Gaps(j) \ {at + 1})
          /\ Cardinality(Gaps(j) \ {at + 1}) = Cardinality(Gaps(j)) - 1
      BY <1>a, <3>2, FS_RemoveElement
    <3>4. Cardinality(Gaps(j)') = Cardinality(Gaps(j) \ {at + 1}) + 1
      BY <3>1, <3>2, <3>3, FS_AddElement
    <3>5. Moving(j) = 1 /\ Moving(j)' = 1  BY <1>1, <2>5 DEF Moving
    <3> QED BY <1>1, <1>a, <2>1, <2>5, <3>3, <3>4, <3>5
  <2>6. CASE j = 1 /\ at = 0
    <3>1. Gaps(j)' = {}  BY <2>6 DEF Gaps
    <3> QED BY <3>1, FS_EmptySet DEF Moving
  <2>7. CASE j > 1 /\ at = 0
    <3>a. \A i \in 1 .. j - 1 : file'[i] = Empty <=> file[i] = Empty /\ i # 1
      BY <1>1, <1>2, <1>4, <2>1, <2>7
    <3>1. Gaps(j)' = Gaps(j) \ {1}
      BY <3>a DEF Gaps
    <3>2. 1 \in Gaps(j)  BY <1>1, <2>7 DEF Gaps
    <3>3. Cardinality(Gaps(j) \ {1}) = Cardinality(Gaps(j)) - 1
      BY <1>a, <3>2, FS_RemoveElement
    <3>4. Moving(j) = 1 /\ Moving(j)' = 0  BY <1>1, <2>7 DEF Moving
    <3> QED BY <1>1, <1>a, <2>1, <2>7, <3>1, <3>3, <3>4
  <2> QED BY <1>1, <2>2, <2>3, <2>4, <2>5, <2>6, <2>7
<1> QED BY <1>3, <1>4

LEMMA GapsStep ==
  ASSUME TypeOK, TypeOK', TargetIsFree, GapsAreTears, [Next]_vars
  PROVE  GapsAreTears'
<1> DEFINE Same == \A j \in 1 .. LastSlot : file'[j] = file[j]
           Allowed == \A j \in 1 .. LastSlot : tears + Moving(j) <= tears' + Moving(j)'
<1> USE Numbers
<1>1. ASSUME Same, Allowed PROVE GapsAreTears'
  <2> SUFFICES ASSUME NEW j \in 1 .. LastSlot, file'[j] # Empty
               PROVE  Cardinality(Gaps(j)') <= tears' + Moving(j)'
    BY DEF GapsAreTears
  <2>1. Gaps(j)' = Gaps(j)  BY <1>1 DEF Gaps
  <2>2. Cardinality(Gaps(j)) <= tears + Moving(j)  BY <1>1 DEF GapsAreTears
  <2>3. /\ Cardinality(Gaps(j)) \in Nat /\ tears \in Nat /\ tears' \in Nat
        /\ Moving(j) \in {0, 1} /\ Moving(j)' \in {0, 1}
    BY GapsFinite DEF TypeOK, Moving
  <2> QED BY <1>1, <2>1, <2>2, <2>3
<1>2. CASE Unlink
  <2> SUFFICES ASSUME NEW j \in 1 .. LastSlot, file'[j] # Empty
               PROVE  Cardinality(Gaps(j)') <= tears' + Moving(j)'
    BY DEF GapsAreTears
  <2>1. \A i \in Slots : file'[i] = IF i = LastSlot THEN Empty ELSE file[i]
    BY <1>2 DEF Unlink, TypeOK
  <2>2. j < LastSlot /\ file[j] # Empty  BY <2>1 DEF Slots
  <2>3. Gaps(j)' = Gaps(j)  BY <2>1, <2>2 DEF Gaps, Slots
  <2>4. Moving(j) = 0 /\ Moving(j)' \in {0, 1}  BY <1>2 DEF Unlink, Moving
  <2>5. tears' = tears /\ tears \in Nat /\ Cardinality(Gaps(j)) \in Nat
    BY <1>2, GapsFinite DEF Unlink, TypeOK
  <2> QED BY <2>2, <2>3, <2>4, <2>5 DEF GapsAreTears
<1>3. CASE Rename  BY <1>3, GapsRename
<1>4. CASE Land
  <2>1. Same  BY <1>4 DEF Land, TypeOK, Slots
  <2>2. Allowed  BY <1>4 DEF Land, Moving, TypeOK
  <2> QED BY <1>1, <2>1, <2>2
<1>5. CASE file' = file /\ tears' = tears /\ pc # "renaming" /\ pc' # "renaming"
  BY <1>1, <1>5 DEF Moving, TypeOK
<1>6. CASE file' = file /\ tears' = tears /\ pc' = pc /\ at' = at
  BY <1>1, <1>6 DEF Moving, TypeOK
<1>7. CASE Reopen
  <2>1. Same  BY <1>7 DEF Reopen
  <2>2. Allowed  BY <1>7 DEF Reopen, Moving, TypeOK
  <2> QED BY <1>1, <2>1, <2>2
<1>8. ASSUME Break, pc' # "renaming" PROVE GapsAreTears'
  <2>1. Same  BY <1>8 DEF Break
  <2>2. Allowed  BY <1>8 DEF Break, Moving, TypeOK
  <2> QED BY <1>1, <2>1, <2>2
<1> QED BY <1>2, <1>3, <1>4, <1>5, <1>6, <1>7, <1>8
      DEF Next, vars, Submit, End, TakeChunk, StreamEnds, Acknowledge, Final,
          Close, RotationFails, Crash, Restart

LEMMA Inductive == IInv /\ [Next]_vars => IInv'
<1> SUFFICES ASSUME IInv, [Next]_vars PROVE IInv'
  OBVIOUS
<1>1. TypeOK'  BY TypeStep DEF IInv
<1>2. FirstComesFirst'  BY <1>1, FirstStep DEF IInv
<1>3. BytesAgree'  BY <1>1, BytesStep DEF IInv
<1>4. TargetIsFree'  BY TargetStep DEF IInv
<1>5. GapsAreTears'  BY <1>1, GapsStep DEF IInv
<1>6. ReadsInOrder'  BY OrderStep DEF IInv
<1> QED BY <1>1, <1>2, <1>3, <1>4, <1>5, <1>6 DEF IInv

LEMMA Initially == Init => IInv
<1> SUFFICES ASSUME Init PROVE IInv
  OBVIOUS
<1> USE Numbers DEF Init
<1>1. TypeOK
  <2>1. file \in [Slots -> Files]  OBVIOUS
  <2>2. at \in -1 .. LastSlot - 1  OBVIOUS
  <2> QED BY <2>1, <2>2 DEF TypeOK, Up
<1>2. \A i \in Slots : file[i] = Empty  OBVIOUS
<1>3. Len(Empty.chunks) = 0 /\ Empty.size = 0 /\ Empty.chunks = <<>>  BY DEF Empty
<1>4. FirstComesFirst
  <2>1. current \notin Chunks /\ pc \notin Busy  BY DEF Chunks, Busy
  <2>2. \A i \in Slots : Held(file[i]) = {}  BY <1>2, HeldTypes
  <2> QED BY <2>1, <2>2 DEF FirstComesFirst
<1>5. BytesAgree  BY <1>2, <1>3 DEF BytesAgree
<1>6. TargetIsFree  BY DEF TargetIsFree
<1>7. GapsAreTears  BY <1>2 DEF GapsAreTears, Slots
<1>8. ReadsInOrder  BY <1>2, <1>3 DEF ReadsInOrder
<1> QED BY <1>1, <1>4, <1>5, <1>6, <1>7, <1>8 DEF IInv

LEMMA InvariantHolds == Spec => []IInv
  BY Initially, Inductive, PTL DEF Spec

(* The variables keep their types, whatever happens to files and process.  *)
THEOREM TypeCorrect == Spec => []TypeOK
<1>1. IInv => TypeOK  BY DEF IInv
<1> QED BY <1>1, InvariantHolds, PTL

(* From the last file to the first, chunks are in the order of writing.    *)
THEOREM InOrder == Spec => []ReadsInOrder
<1>1. IInv => ReadsInOrder  BY DEF IInv
<1> QED BY <1>1, InvariantHolds, PTL
-----------------------------------------------------------------------------
(* Segments are apart: what a file holds is older than what the files      *)
(* before it hold, and no two files that are in use hold the same.         *)
LEMMA SegmentsApart ==
  ASSUME IInv
  PROVE  /\ \A i \in Used : Held(file[i]) # {} /\ Held(file[i]) \subseteq Chunks
         /\ \A i, j \in Used : i > j => Log!Older(ContentOf(file[i]), ContentOf(file[j]))
         /\ \A i, j \in Used : ContentOf(file[i]) = ContentOf(file[j]) => i = j
<1> USE Numbers DEF IInv
<1>1. ASSUME NEW i \in Used PROVE Held(file[i]) # {} /\ Held(file[i]) \subseteq Chunks
  <2>1. i \in Slots /\ file[i] \in Files /\ file[i] # Empty  BY DEF Used, TypeOK
  <2>2. file[i].chunks \in Seq(Chunks) /\ file[i].chunks # <<>>
    BY <2>1, EmptyIffNoSize DEF Files, BytesAgree
  <2>3. 1 \in 1 .. Len(file[i].chunks)  BY <2>2
  <2> QED BY <2>1, <2>3, HeldTypes DEF Held
<1>2. ASSUME NEW i \in Used, NEW j \in Used, i > j
      PROVE  \A c \in Held(file[i]), d \in Held(file[j]) : c < d
  <2>1. i \in Slots /\ j \in Slots
    BY DEF Used
  <2>2. \A m \in 1 .. Len(file[i].chunks), n \in 1 .. Len(file[j].chunks) :
           file[i].chunks[m] < file[j].chunks[n]
    BY <1>2, <2>1 DEF ReadsInOrder
  <2> QED BY ONLY <2>2 DEF Held
<1>3. ASSUME NEW i \in Used, NEW j \in Used, ContentOf(file[i]) = ContentOf(file[j]), i > j
      PROVE  FALSE
  <2>1. Held(file[i]) = Held(file[j])  BY <1>3 DEF ContentOf
  <2>2. PICK c \in Held(file[i]) : c \in Chunks  BY <1>1
  <2> QED BY <1>2, <1>3, <2>1, <2>2
<1>4. \A i, j \in Used : i > j \/ j > i \/ i = j  BY DEF Used, Slots
<1> QED BY <1>1, <1>2, <1>3, <1>4 DEF Log!Older, ContentOf

(* The log counts its segments as the sink does.                           *)
LEMMA SameCount == ASSUME NEW S PROVE Log!Cardinality(S) = Cardinality(S)
  BY DEF Log!Cardinality, Cardinality

(* There are as many segments as files in use.                             *)
LEMMA SegmentCount ==
  ASSUME IInv
  PROVE  /\ IsFiniteSet(Used) /\ Cardinality(Used) \in Nat
         /\ Cardinality(Segments) = Cardinality(Used)
<1> USE Numbers
<1>1. IsFiniteSet(Slots)  BY FS_Interval DEF Slots
<1>2. Used \in SUBSET Slots  BY DEF Used
<1>3. IsFiniteSet(Used)  BY <1>1, <1>2, FS_Subset
<1> DEFINE f == [i \in Used |-> ContentOf(file[i])]
<1>4. f \in Bijection(Used, Segments)
  BY SegmentsApart DEF Segments, Bijection, Injection, Surjection, IsInjective
<1>5. ExistsBijection(Used, Segments)  BY <1>4 DEF ExistsBijection
<1>6. Cardinality(Segments) = Cardinality(Used)  BY <1>3, <1>5, FS_Bijection
<1> QED BY <1>3, <1>6, FS_CardinalityType

(* Where path and the last file are in use, only gaps are not.             *)
LEMMA FullButForGaps ==
  ASSUME IInv, LastSlot # 0, file[0] # Empty, file[LastSlot] # Empty
  PROVE  Cardinality(Used) + Cardinality(Gaps(LastSlot)) = MaxFiles
<1> USE Numbers
<1>1. LastSlot \in 1 .. LastSlot  OBVIOUS
<1>2. IsFiniteSet(Gaps(LastSlot)) /\ Cardinality(Gaps(LastSlot)) \in Nat  BY <1>1, GapsFinite
<1>3. Used \cup Gaps(LastSlot) = Slots /\ Used \cap Gaps(LastSlot) = {}
  BY <1>1 DEF Used, Gaps, Slots
<1>4. Cardinality(Slots) = MaxFiles  BY FS_Interval DEF Slots
<1>5. Cardinality(Used \cup Gaps(LastSlot))
        = Cardinality(Used) + Cardinality(Gaps(LastSlot)) - Cardinality(Used \cap Gaps(LastSlot))
  BY <1>2, SegmentCount, FS_Union
<1>6. Cardinality(Used \cap Gaps(LastSlot)) = 0  BY <1>3, FS_EmptySet
<1>7. Cardinality(Used) \in Nat  BY SegmentCount
<1>8. MaxFiles = Cardinality(Used) + Cardinality(Gaps(LastSlot)) - 0
  BY <1>3, <1>4, <1>5, <1>6
<1> QED BY <1>2, <1>7, <1>8

(* To unlink the last file is to drop the oldest segment of a full log, or *)
(* nothing where there is none.                                            *)
LEMMA UnlinkDrops ==
  ASSUME IInv, Unlink
  PROVE  Log!Drop \/ UNCHANGED <<state, Segments, tears>>
<1> USE Numbers DEF IInv
<1>1. file[0] # Empty /\ file' = [file EXCEPT ![LastSlot] = Empty] /\ state' = state /\ tears' = tears
  BY EmptyIffNoSize DEF Unlink, BytesAgree, Up, TypeOK
<1>2. CASE file[LastSlot] = Empty
  <2>1. file' = file  BY <1>1, <1>2 DEF TypeOK
  <2> QED BY <1>1, <2>1 DEF Segments, Used
<1>3. CASE file[LastSlot] # Empty
  <2>1. \A i \in Slots : file'[i] = IF i = LastSlot THEN Empty ELSE file[i]
    BY <1>1 DEF TypeOK
  <2>2. Used' = Used \ {LastSlot} /\ LastSlot \in Used
    BY <1>3, <2>1 DEF Used
  <2>3. Segments' = Segments \ {ContentOf(file[LastSlot])}
    <3>1. Segments' = {ContentOf(file[i]) : i \in Used \ {LastSlot}}
      BY <2>1, <2>2 DEF Segments, Used
    <3> QED BY <2>2, <3>1, SegmentsApart DEF Segments
  <2>4. Log!Oldest(ContentOf(file[LastSlot]))
    <3>1. \A i \in Used : i # LastSlot => LastSlot > i  BY DEF Used, Slots
    <3> QED BY <2>2, <3>1, SegmentsApart DEF Log!Oldest, Segments
  <2>5. Cardinality(Segments) + tears >= MaxFiles
    <3>1. CASE LastSlot = 0
      <4>1. Cardinality(Used) # 0  BY <2>2, SegmentCount, FS_EmptySet
      <4> QED BY <3>1, <4>1, SegmentCount DEF TypeOK
    <3>2. CASE LastSlot # 0
      <4>1. LastSlot \in 1 .. LastSlot  BY <3>2
      <4>2. Cardinality(Gaps(LastSlot)) <= tears + Moving(LastSlot)
        BY <1>3, <4>1 DEF GapsAreTears
      <4>3. Moving(LastSlot) = 0  BY DEF Unlink, Moving
      <4>4. Cardinality(Gaps(LastSlot)) \in Nat  BY <4>1, GapsFinite
      <4> QED BY <1>1, <1>3, <3>2, <4>2, <4>3, <4>4, FullButForGaps, SegmentCount DEF TypeOK
    <3> QED BY <3>1, <3>2
  <2>6. ContentOf(file[LastSlot]) \in Segments  BY <2>2 DEF Segments
  <2> QED BY <1>1, <2>3, <2>4, <2>5, <2>6, SameCount DEF Log!Drop
<1> QED BY <1>2, <1>3

(* A segment keeps its content when its file gets another name.            *)
LEMMA RenameKeeps ==
  ASSUME IInv, Rename
  PROVE  UNCHANGED <<state, Segments, tears>>
<1> USE Numbers DEF IInv
<1>1. at \in Slots /\ at + 1 \in Slots /\ file[at + 1] = Empty
  BY DEF Rename, Slots, TypeOK, TargetIsFree
<1>2. CASE file[at] = Empty  BY <1>2 DEF Rename, Segments, Used
<1>3. CASE file[at] # Empty
  <2>1. \A i \in Slots : file'[i] = IF i = at + 1 THEN file[at]
                                   ELSE IF i = at THEN Empty ELSE file[i]
    BY <1>1, <1>3 DEF Rename, TypeOK
  <2>2. at # at + 1  BY DEF TypeOK
  <2>3. Used' = (Used \ {at}) \cup {at + 1}
    BY <1>1, <1>3, <2>1, <2>2 DEF Used
  <2>4. at \in Used /\ at + 1 \notin Used  BY <1>1, <1>3 DEF Used
  <2>5. \A i \in Used \ {at} : i \in Slots /\ i \in Used' /\ file'[i] = file[i]
    BY <2>1, <2>3, <2>4 DEF Used
  <2>6. file'[at + 1] = file[at]  BY <1>1, <2>1
  <2>7. Segments' = Segments
    <3>1. \A s \in Segments : s \in Segments'
      BY <2>3, <2>5, <2>6 DEF Segments, ContentOf, Held
    <3>2. \A s \in Segments' : s \in Segments
      BY <2>3, <2>4, <2>5, <2>6 DEF Segments, ContentOf, Held
    <3> QED BY <3>1, <3>2
  <2> QED BY <2>7 DEF Rename
<1> QED BY <1>2, <1>3

(* What lands in path goes to the newest segment, or is a new one.         *)
LEMMA LandWrites ==
  ASSUME IInv, Land
  PROVE  Log!Write(current)
<1> USE Numbers DEF IInv
<1> DEFINE new == [chunks |-> Append(file[0].chunks, current),
                   size |-> file[0].size + Size[current]]
<1>1. /\ current \in Queued /\ current \in Chunks /\ \A d \in Queued : current <= d
      /\ bytes = file[0].size + Size[current]
      /\ file[0] = Empty \/ bytes <= MaxBytes
  BY DEF Land, FirstComesFirst, BytesAgree, Busy, Queued
<1>2. \A i \in Slots : file'[i] = IF i = 0 THEN new ELSE file[i]
  BY DEF Land, TypeOK
<1>3. file[0] \in Files /\ file[0].size \in Nat  BY DEF TypeOK, Files
<1>4. ContentOf(new) = [chunks |-> Held(file[0]) \cup {current},
                        size |-> file[0].size + Size[current]]
  BY <1>1, <1>3, HeldAppend DEF ContentOf
<1>5. new # Empty  BY <1>1, <1>3 DEF Empty
<1>6. Used' = Used \cup {0}  BY <1>2, <1>5 DEF Used
<1>7. Segments' = {ContentOf(file[i]) : i \in Used \ {0}} \cup {ContentOf(new)}
  <2>1. Segments' = {ContentOf(file'[i]) : i \in Used'}  BY DEF Segments, ContentOf, Held
  <2> HIDE DEF new
  <2>2. \A i \in Used \ {0} : file'[i] = file[i]  BY <1>2 DEF Used
  <2>3. file'[0] = new  BY <1>2
  <2> QED BY <1>6, <2>1, <2>2, <2>3
<1> HIDE DEF new
<1>8. CASE file[0] # Empty
  <2>1. 0 \in Used  BY <1>8 DEF Used
  <2>2. {ContentOf(file[i]) : i \in Used \ {0}} = Segments \ {ContentOf(file[0])}
    BY <2>1, SegmentsApart DEF Segments
  <2>3. Log!Newest(ContentOf(file[0]))
    <3>1. \A i \in Used : i # 0 => i > 0  BY DEF Used, Slots
    <3> QED BY <2>1, <3>1, SegmentsApart DEF Log!Newest, Segments
  <2>4. ContentOf(file[0]).chunks = Held(file[0]) /\ ContentOf(file[0]).size = file[0].size
    BY DEF ContentOf
  <2>5. ContentOf(file[0]) \in Segments  BY <2>1 DEF Segments
  <2> QED BY <1>1, <1>4, <1>7, <1>8, <2>2, <2>3, <2>4, <2>5
          DEF Log!Write, Log!Queued, Log!Chunks, Queued, Chunks, Land
<1>9. CASE file[0] = Empty
  <2>1. Used \ {0} = Used /\ Used \in SUBSET (1 .. LastSlot)  BY <1>9 DEF Used, Slots
  <2>2. ContentOf(new) = [chunks |-> {current}, size |-> Size[current]]
    <3>1. Held(file[0]) = {} /\ file[0].size = 0  BY <1>9, HeldTypes DEF Empty
    <3>2. 0 + Size[current] = Size[current]  BY <1>1
    <3> QED BY <1>4, <3>1, <3>2
  <2>3. IsFiniteSet(1 .. LastSlot) /\ Cardinality(1 .. LastSlot) = LastSlot  BY FS_Interval
  <2>4. Cardinality(Used) <= LastSlot  BY <2>1, <2>3, FS_Subset
  <2>5. Cardinality(Segments) < MaxFiles  BY <2>4, SegmentCount
  <2>6. Segments' = Segments \cup {[chunks |-> {current}, size |-> Size[current]]}
    BY <1>7, <2>1, <2>2 DEF Segments
  <2> QED BY <1>1, <2>5, <2>6, SameCount
          DEF Log!Write, Log!Queued, Log!Chunks, Queued, Chunks, Land
<1> QED BY <1>8, <1>9

(* Every step of the sink is a step of the log, or none.                   *)
LEMMA StepRefines ==
  ASSUME IInv, [Next]_vars
  PROVE  [Log!Next]_<<state, Segments, tears>>
<1> USE DEF IInv
<1>1. ASSUME NEW c \in Chunks, Submit(c) PROVE Log!Next
  BY <1>1 DEF Submit, Log!Next, Log!Give, Log!Chunks, Chunks, Segments, Used
<1>2. CASE Unlink  BY <1>2, UnlinkDrops DEF Log!Next
<1>3. CASE Rename  BY <1>3, RenameKeeps
<1>4. CASE Land
  <2>1. current \in Chunks  BY <1>4 DEF Land, FirstComesFirst, Busy
  <2> QED BY <1>4, <2>1, LandWrites DEF Log!Next, Log!Chunks, Chunks
<1>5. CASE Acknowledge
  <2>1. current \in Chunks /\ state[current] = "written"
    BY <1>5 DEF Acknowledge, FirstComesFirst, Busy
  <2>2. Log!Acknowledge(current)
    BY <1>5, <2>1 DEF Acknowledge, Log!Acknowledge, Segments, Used
  <2> QED BY <2>1, <2>2 DEF Log!Next, Log!Chunks, Chunks
<1>6. CASE Break
  BY <1>6 DEF Break, Log!Next, Log!Break, Queued, Chunks, Log!Chunks, Segments, Used
<1>7. CASE UNCHANGED <<state, file, tears>>  BY <1>7 DEF Segments, Used
<1> QED BY <1>1, <1>2, <1>3, <1>4, <1>5, <1>6, <1>7
      DEF Next, vars, End, TakeChunk, StreamEnds, Reopen, Final, Close,
          RotationFails, Crash, Restart

(* The sink is a segmented log: chunks reach the files in order, whole and *)
(* once, in files that do not outgrow maxBytes, and it gives up none but   *)
(* the oldest, when there is no room but for what torn rotations cost.     *)
THEOREM SinkIsALog == Spec => ImplementsLog
<1>1. Init => Log!Init
  <2> SUFFICES ASSUME Init PROVE Segments = {}
    BY DEF Init, Log!Init, Log!Chunks, Chunks
  <2>1. Used = {}  BY DEF Init, Used
  <2> QED BY <2>1 DEF Segments
<1>2. IInv /\ [Next]_vars => [Log!Next]_<<state, Segments, tears>>  BY StepRefines
<1> QED BY <1>1, <1>2, InvariantHolds, PTL DEF Spec, ImplementsLog, Log!Spec
-----------------------------------------------------------------------------
(* The units that things are counted in.                                   *)
LEMMA Units ==
  /\ Meter!Token \in Nat /\ Meter!Full \in Nat /\ Meter!Speed \in Nat /\ MaxRoutes \in Nat
  /\ MaxRoutes < Meter!Token /\ MaxRoutes < Meter!Speed
  /\ Burst >= 1000 => Meter!Token <= Meter!Full
  <1>1. /\ Grain \in Nat /\ Rate \in Nat /\ Burst \in Nat /\ MaxRoutes \in Nat
        /\ MaxRoutes < Grain /\ Rate >= 1
    BY MeterAssumption
  <1>2. Rate * Grain >= Grain /\ Rate * Grain \in Nat
    BY <1>1
  <1>3. Burst >= 1000 => Burst * Grain >= 1000 * Grain
    BY <1>1
  <1>4. Burst * Grain \in Nat /\ 1000 * Grain \in Nat /\ 1000 * Grain >= Grain
    BY <1>1
  <1> QED  BY <1>1, <1>2, <1>3, <1>4 DEF Meter!Token, Meter!Full, Meter!Speed

(* What the rate adds to a bucket does not depend on where time is cut.    *)
LEMMA Distributes ==
  ASSUME NEW r \in Nat, NEW a \in Int, NEW b \in Int, NEW c \in Int
  PROVE  r * (c - a) = r * (b - a) + (c - b) * r
  OBVIOUS

LEMMA Nonneg ==
  ASSUME NEW r \in Nat, NEW a \in Int, NEW b \in Int, a <= b
  PROVE  r * (b - a) \in Nat /\ (b - a) * r \in Nat
  OBVIOUS

LEMMA Adds ==
  ASSUME NEW r \in Nat, NEW a \in Int, NEW b \in Int, a < b
  PROVE  r <= (b - a) * r
  <1>1. b - a - 1 \in Nat
    OBVIOUS
  <1> DEFINE d == b - a - 1
  <1>2. d * r \in Nat /\ (d + 1) * r = d * r + r
    BY <1>1
  <1>3. (b - a) * r = d * r + r
    BY <1>2
  <1> HIDE DEF d
  <1> QED  BY <1>2, <1>3

(* A refill, which may be cut off at the burst, moves the time on, loses   *)
(* nothing that was in the bucket, and adds what the rate gives, but for a *)
(* rounding.                                                               *)
LEMMA Refills ==
  ASSUME Meter!Bucket, NEW level \in Meter!Refilled
  PROVE  /\ level \in tokens .. Meter!Full
         /\ Meter!RefillTime \in Int /\ lastRefill <= Meter!RefillTime
         /\ level <= tokens + (Meter!RefillTime - lastRefill) * Meter!Speed + 1
         /\ level >= tokens + (Meter!RefillTime - lastRefill) * Meter!Speed - 1 \/ level = Meter!Full
         /\ Meter!RefillTime = lastRefill => level = tokens
  <1>1. clock \in Int /\ lastRefill \in Int /\ tokens \in 0 .. Meter!Full /\ tokens \in Int
    BY Units DEF Meter!Bucket
  <1>2. CASE clock <= lastRefill
    <2>1. Meter!RefillTime = lastRefill /\ level = tokens
      BY <1>2 DEF Meter!Refilled, Meter!RefillTime
    <2>2. (lastRefill - lastRefill) * Meter!Speed = 0
      BY <1>1, Units
    <2> QED  BY <1>1, <2>1, <2>2, Units
  <1>3. CASE ~(clock <= lastRefill)
    <2> DEFINE added == (clock - lastRefill) * Meter!Speed
    <2>1. added \in Nat /\ added >= 1
      BY <1>1, <1>3, Units, Nonneg, Adds
    <2>2. PICK rounding \in {-1, 0, 1} : level = Meter!AtMost(tokens + added + rounding, Meter!Full)
      BY <1>3 DEF Meter!Refilled, Meter!Roundings
    <2>3. Meter!RefillTime = clock
      BY <1>3 DEF Meter!RefillTime
    <2> HIDE DEF added
    <2>4. level = IF tokens + added + rounding < Meter!Full THEN tokens + added + rounding ELSE Meter!Full
      BY <2>2 DEF Meter!AtMost
    <2>5. /\ level \in tokens .. Meter!Full
          /\ level <= tokens + added + 1
          /\ level >= tokens + added - 1 \/ level = Meter!Full
      BY <1>1, <2>1, <2>2, <2>4, Units
    <2> QED  BY <1>1, <1>3, <2>3, <2>5 DEF added
  <1> QED  BY <1>2, <1>3

(* So it accounts for what it adds.                                        *)
LEMMA RefillsAccounted ==
  ASSUME Meter!Bucket, Meter!Accounted, NEW level \in Meter!Refilled, NEW i \in 1 .. Len(admitted)
  PROVE  Meter!Token * (Len(admitted) - i + 1) + level
         <= Meter!Full + Meter!Speed * (Meter!RefillTime - admitted[i]) + (total + 1)
  <1>1. /\ Meter!RefillTime \in Int /\ level \in Int
        /\ level <= tokens + (Meter!RefillTime - lastRefill) * Meter!Speed + 1
    BY Refills, Units DEF Meter!Bucket
  <1>2. /\ admitted[i] \in Int /\ lastRefill \in Int /\ tokens \in Int
        /\ Len(admitted) \in Nat /\ total \in Int
    BY Units DEF Meter!Bucket, Meter!Accounted
  <1> DEFINE x == Meter!Speed * (lastRefill - admitted[i])
             y == (Meter!RefillTime - lastRefill) * Meter!Speed
             taken == Meter!Token * (Len(admitted) - i + 1)
  <1>3. Meter!Speed * (Meter!RefillTime - admitted[i]) = x + y
    BY <1>1, <1>2, Units, Distributes
  <1>4. x \in Int /\ y \in Int /\ taken \in Int
    BY <1>1, <1>2, Units
  <1>5. taken + tokens <= Meter!Full + x + total /\ level <= tokens + y + 1
    BY <1>1 DEF Meter!Accounted
  <1> HIDE DEF x, y, taken
  <1>6. taken + level <= Meter!Full + (x + y) + (total + 1)
    BY <1>1, <1>2, <1>4, <1>5, Units
  <1> QED  BY <1>3, <1>6 DEF taken

LEMMA RouteStep ==
  ASSUME Meter!Bucket, Meter!Accounted, NEW r \in Requests, Meter!Route(r)
  PROVE  Meter!Bucket' /\ Meter!Accounted'
  <1> DEFINE n == Len(admitted)
  <1>1. PICK level \in Meter!Refilled :
          \/ level < Meter!Token /\ tokens' = level /\ UNCHANGED admitted
          \/ /\ level >= Meter!Token
             /\ tokens' = level - Meter!Token /\ admitted' = Append(admitted, Meter!RefillTime)
    BY DEF Meter!Route
  <1>2. /\ clock' = clock /\ lastRefill' = Meter!RefillTime
        /\ total' = total + 1 /\ total < MaxRoutes
    BY DEF Meter!Route
  <1>3. /\ level \in 0 .. Meter!Full /\ level \in Int
        /\ Meter!RefillTime \in Int /\ lastRefill <= Meter!RefillTime
    <2>1. tokens \in 0 .. Meter!Full
      BY DEF Meter!Bucket
    <2>2. /\ level \in tokens .. Meter!Full
          /\ Meter!RefillTime \in Int /\ lastRefill <= Meter!RefillTime
      BY Refills
    <2> QED  BY <2>1, <2>2, Units
  <1>4. \A i \in 1 .. n : admitted[i] \in Int /\ admitted[i] <= Meter!RefillTime
    <2>1. lastRefill \in Int /\ \A i \in 1 .. n : admitted[i] \in Int /\ admitted[i] <= lastRefill
      BY DEF Meter!Bucket
    <2> QED  BY <1>3, <2>1
  <1>5. total' \in 0 .. MaxRoutes /\ total \in Int
    BY <1>2, Units DEF Meter!Accounted
  <1>6. CASE tokens' = level /\ UNCHANGED admitted
    <2>1. Meter!Bucket'
      BY <1>2, <1>3, <1>4, <1>6 DEF Meter!Bucket
    <2>2. Meter!Accounted'
      <3> SUFFICES ASSUME NEW i \in 1 .. n
                   PROVE  Meter!Token * (n - i + 1) + level
                          <= Meter!Full + Meter!Speed * (Meter!RefillTime - admitted[i]) + (total + 1)
        BY <1>2, <1>5, <1>6 DEF Meter!Accounted
      <3> QED  BY RefillsAccounted
    <2> QED  BY <2>1, <2>2
  <1>7. CASE /\ level >= Meter!Token
             /\ tokens' = level - Meter!Token /\ admitted' = Append(admitted, Meter!RefillTime)
    <2>1. /\ admitted' \in Seq(Int) /\ Len(admitted') = n + 1 /\ n \in Nat
          /\ \A i \in 1 .. n : admitted'[i] = admitted[i]
          /\ admitted'[n + 1] = Meter!RefillTime
      BY <1>3, <1>7 DEF Meter!Bucket
    <2>2. Meter!Bucket'
      <3>1. \A i \in 1 .. Len(admitted') : admitted'[i] <= Meter!RefillTime
        <4> TAKE i \in 1 .. Len(admitted')
        <4>1. i = n + 1 \/ i \in 1 .. n
          BY <2>1
        <4>2. Meter!RefillTime <= Meter!RefillTime
          BY <1>3
        <4> QED  BY <1>4, <2>1, <4>1, <4>2
      <3>2. tokens' \in 0 .. Meter!Full
        BY <1>3, <1>7, Units
      <3>3. clock' \in Int
        BY <1>2 DEF Meter!Bucket
      <3> QED  BY <1>2, <1>3, <2>1, <3>1, <3>2, <3>3 DEF Meter!Bucket
    <2>3. ASSUME NEW i \in 1 .. Len(admitted')
          PROVE  Meter!Token * (Len(admitted') - i + 1) + tokens'
                 <= Meter!Full + Meter!Speed * (lastRefill' - admitted'[i]) + total'
      <3>1. CASE i = n + 1
        <4>1. Meter!Speed * (lastRefill' - admitted'[i]) = 0
          BY <1>2, <1>3, <2>1, <3>1, Units
        <4>2. Len(admitted') - i + 1 = 1
          BY <2>1, <3>1
        <4>3. Meter!Token * (Len(admitted') - i + 1) = Meter!Token
          BY <4>2, Units
        <4> QED  BY <1>2, <1>3, <1>5, <1>7, <4>1, <4>3, Units
      <3>2. CASE i # n + 1
        <4>1. i \in 1 .. n /\ admitted'[i] = admitted[i]
          BY <2>1, <3>2
        <4> DEFINE x == Meter!Speed * (Meter!RefillTime - admitted[i])
                   taken == Meter!Token * (n - i + 1)
        <4>2. taken + level <= Meter!Full + x + (total + 1)
          BY <4>1, RefillsAccounted
        <4>3. x \in Int /\ taken \in Int
          BY <1>3, <1>4, <2>1, <4>1, Units
        <4>4. Meter!Token * (Len(admitted') - i + 1) = taken + Meter!Token
          BY <2>1, <4>1, Units
        <4>5. Meter!Speed * (lastRefill' - admitted'[i]) = x
          BY <1>2, <4>1
        <4> HIDE DEF x, taken
        <4> QED  BY <1>2, <1>3, <1>5, <1>7, <4>2, <4>3, <4>4, <4>5, Units
      <3> QED  BY <3>1, <3>2
    <2>4. Meter!Accounted'
      BY <1>5, <2>3 DEF Meter!Accounted
    <2> QED  BY <2>2, <2>4
  <1> QED  BY <1>1, <1>6, <1>7

LEMMA BucketStep ==
  ASSUME Meter!Bucket, Meter!Accounted, [Meter!Next]_(Meter!vars)
  PROVE  Meter!Bucket' /\ Meter!Accounted'
  <1>1. ASSUME NEW r \in Requests, Meter!Route(r) PROVE Meter!Bucket' /\ Meter!Accounted'
    BY <1>1, RouteStep
  <1>2. ASSUME NEW r \in Requests, NEW ok \in BOOLEAN, Meter!Settle(r, ok) PROVE Meter!Bucket' /\ Meter!Accounted'
    BY <1>2 DEF Meter!Settle, Meter!Bucket, Meter!Accounted
  <1>3. CASE Meter!Tick  BY <1>3 DEF Meter!Tick, Meter!Bucket, Meter!Accounted
  <1>4. CASE Meter!SetBack  BY <1>4 DEF Meter!SetBack, Meter!Bucket, Meter!Accounted
  <1>5. CASE UNCHANGED Meter!vars  BY <1>5 DEF Meter!vars, Meter!Bucket, Meter!Accounted
  <1> QED  BY <1>1, <1>2, <1>3, <1>4, <1>5 DEF Meter!Next

LEMMA BucketInit ==
  ASSUME Meter!Init
  PROVE  Meter!Bucket /\ Meter!Accounted
  BY Units DEF Meter!Init, Meter!Bucket, Meter!Accounted

(* All the roundings do not make up for a thousandth of a token.           *)
LEMMA InThousandths ==
  ASSUME NEW u \in Int, NEW v \in Int, NEW t \in Int, t < Grain, Grain * u <= Grain * v + t
  PROVE  u <= v
  <1>1. Grain \in Nat
    BY MeterAssumption
  <1>2. SUFFICES ASSUME u > v PROVE FALSE
    OBVIOUS
  <1> DEFINE d == u - v - 1
  <1>3. d \in Nat /\ u = v + 1 + d
    BY <1>2
  <1>4. Grain * d \in Nat /\ Grain * u = Grain * v + Grain + Grain * d /\ Grain * v \in Int
    BY <1>1, <1>3
  <1> HIDE DEF d
  <1> QED  BY <1>1, <1>4

LEMMA LessGiven ==
  ASSUME NEW a \in Int, NEW b \in Int, NEW left \in Nat, NEW t \in Int, a + left <= b + t
  PROVE  a <= b + t
  OBVIOUS

(* Every pair of admissions was once a pair with the newest of them.       *)
LEMMA BoundStep ==
  ASSUME Meter!Bucket, Meter!Bucket', Meter!Accounted', Meter!AdmissionBounded, [Meter!Next]_(Meter!vars)
  PROVE  Meter!AdmissionBounded'
  <1>1. ASSUME NEW r \in Requests, Meter!Route(r), admitted' # admitted
        PROVE  Meter!AdmissionBounded'
    <2> DEFINE n == Len(admitted)
    <2>1. admitted' = Append(admitted, Meter!RefillTime) /\ lastRefill' = Meter!RefillTime
      BY <1>1 DEF Meter!Route
    <2>2. Meter!RefillTime \in Int
      BY DEF Meter!RefillTime, Meter!Bucket
    <2>3. /\ Len(admitted') = n + 1 /\ n \in Nat
          /\ \A i \in 1 .. n : admitted'[i] = admitted[i]
          /\ admitted'[n + 1] = lastRefill'
      BY <2>1, <2>2 DEF Meter!Bucket
    <2>4. ASSUME NEW i \in 1 .. n + 1, NEW j \in 1 .. n + 1, i <= j
          PROVE  1000 * (j - i + 1) <= Burst + Rate * (admitted'[j] - admitted'[i])
      <3>1. CASE j = n + 1
        <4> DEFINE d == lastRefill' - admitted'[i]
                   k == n + 1 - i + 1
        <4>1. d \in Int /\ k \in Int
          <5>1. lastRefill' \in Int /\ admitted' \in Seq(Int) /\ i \in 1 .. Len(admitted')
            BY <2>3 DEF Meter!Bucket
          <5>2. admitted'[i] \in Int
            BY ONLY <5>1, ElementOfSeq
          <5> QED BY <2>3, <5>1, <5>2
        <4>2. Meter!Token * k + tokens' <= Meter!Full + Meter!Speed * d + total'
          BY <2>3 DEF Meter!Accounted
        <4>3. tokens' \in Nat /\ total' \in Int /\ total' < Grain
          BY Units, MeterAssumption DEF Meter!Bucket, Meter!Accounted
        <4>4. Grain \in Nat /\ Burst \in Nat /\ Rate \in Nat
          BY MeterAssumption
        <4> HIDE DEF d, k
        <4>5. /\ Meter!Token * k = Grain * (1000 * k)
              /\ Meter!Full + Meter!Speed * d = Grain * (Burst + Rate * d)
              /\ 1000 * k \in Int /\ Burst + Rate * d \in Int
          <5>1. (1000 * Grain) * k = Grain * (1000 * k)
            BY <4>1, <4>4
          <5>2. (Rate * Grain) * d = Grain * (Rate * d) /\ Rate * d \in Int
            BY <4>1, <4>4
          <5>3. Burst * Grain + Grain * (Rate * d) = Grain * (Burst + Rate * d)
            BY <4>4, <5>2
          <5> QED  BY <4>1, <4>4, <5>1, <5>2, <5>3 DEF Meter!Token, Meter!Full, Meter!Speed
        <4>6. Grain * (1000 * k) <= Grain * (Burst + Rate * d) + total'
          <5>1. Meter!Token * k \in Int /\ Meter!Full + Meter!Speed * d \in Int
            BY <4>1, Units
          <5>2. Meter!Token * k <= (Meter!Full + Meter!Speed * d) + total'
            BY <4>2, <4>3, <5>1, LessGiven
          <5> QED  BY <4>5, <5>2
        <4>7. 1000 * k <= Burst + Rate * d
          BY <4>3, <4>5, <4>6, InThousandths
        <4> QED  BY <2>3, <3>1, <4>7 DEF d, k
      <3>2. CASE j # n + 1
        <4>1. i \in 1 .. n /\ j \in 1 .. n
          BY <2>3, <2>4, <3>2
        <4> QED  BY <2>3, <2>4, <4>1 DEF Meter!AdmissionBounded
      <3> QED  BY <3>1, <3>2
    <2> QED  BY <2>3, <2>4 DEF Meter!AdmissionBounded
  <1>2. CASE admitted' = admitted
    BY <1>2 DEF Meter!AdmissionBounded
  <1>3. ASSUME NEW r \in Requests, NEW ok \in BOOLEAN, Meter!Settle(r, ok) PROVE admitted' = admitted
    BY <1>3 DEF Meter!Settle
  <1>4. Meter!Tick \/ Meter!SetBack \/ UNCHANGED Meter!vars => admitted' = admitted
    BY DEF Meter!Tick, Meter!SetBack, Meter!vars
  <1> QED  BY <1>1, <1>2, <1>3, <1>4 DEF Meter!Next

(* Whatever a program with a metered router does is a step of the router.  *)
LEMMA IsMeterStep ==
  ASSUME [ObservabilityNext]_<<vars, meterVars, part>>
  PROVE  [Meter!Next]_(Meter!vars)
  BY DEF ObservabilityNext, meterVars, Meter!vars

(* In any stretch of time no more requests are let through than the burst  *)
(* and the rate allow, however the clock is set back: route of             *)
(* withRateLimit, for any number of callers, any rate and burst, as long   *)
(* as its roundings are not worth a thousandth of a token.                 *)
THEOREM RateIsBounded == ObservabilitySpec => []AdmissionBounded
  <1> DEFINE I == Meter!Bucket /\ Meter!Accounted /\ Meter!AdmissionBounded
  <1>1. ObservabilityInit => I
    BY BucketInit DEF ObservabilityInit, Meter!Init, Meter!AdmissionBounded
  <1>2. I /\ [ObservabilityNext]_<<vars, meterVars, part>> => I'
    BY IsMeterStep, BucketStep, BoundStep
  <1>3. I => AdmissionBounded
    BY DEF AdmissionBounded
  <1> QED  BY <1>1, <1>2, <1>3, PTL DEF ObservabilitySpec

LEMMA PhaseStep ==
  ASSUME Meter!Phases, [Meter!Next]_(Meter!vars)
  PROVE  Meter!Phases'
  <1> USE DEF Meter!Phases
  <1>1. ASSUME NEW r \in Requests, Meter!Route(r) PROVE Meter!Phases'
    BY <1>1 DEF Meter!Route
  <1>2. ASSUME NEW r \in Requests, NEW ok \in BOOLEAN, Meter!Settle(r, ok) PROVE Meter!Phases'
    BY <1>2 DEF Meter!Settle
  <1>3. Meter!Tick \/ Meter!SetBack \/ UNCHANGED Meter!vars => Meter!Phases'
    BY DEF Meter!Tick, Meter!SetBack, Meter!vars
  <1> QED  BY <1>1, <1>2, <1>3 DEF Meter!Next

(* Math.ceil, of a quotient.                                               *)
LEMMA Divides ==
  ASSUME NEW a \in Nat, NEW b \in Nat, b > 0
  PROVE  a \div b \in Nat /\ a < b * (a \div b) + b
  OBVIOUS

(* The wait that is told is long enough but for a rounding.                *)
LEMMA WaitIsLongEnough ==
  ASSUME NEW level \in Nat, level < Meter!Token, NEW wait \in Meter!RetryAfter(level)
  PROVE  wait \in Nat /\ Meter!Token - level - 1 <= wait * Meter!Speed
  <1>1. Meter!Speed \in Nat /\ Meter!Speed > 0 /\ Meter!Token \in Nat
    BY Units
  <1>2. PICK lacking \in {Meter!Token - level + rounding : rounding \in {-1, 0, 1}} \ {0} :
          wait = (lacking + Meter!Speed - 1) \div Meter!Speed
    BY DEF Meter!RetryAfter, Meter!Roundings
  <1>3. lacking \in Nat /\ lacking >= Meter!Token - level - 1
    BY <1>1, <1>2
  <1> DEFINE a == lacking + Meter!Speed - 1
  <1>4. a \in Nat
    BY <1>1, <1>3
  <1>5. wait \in Nat /\ a < Meter!Speed * wait + Meter!Speed
    BY <1>1, <1>2, <1>4, Divides
  <1>6. wait * Meter!Speed \in Nat /\ wait * Meter!Speed = Meter!Speed * wait
    BY <1>1, <1>5
  <1>7. Meter!Token - level - 1 <= wait * Meter!Speed
    BY <1>1, <1>3, <1>5, <1>6
  <1> QED  BY <1>5, <1>7

(* A promise that stands is kept, but for one more rounding, by a bucket   *)
(* that is filled again without a token being taken.                       *)
LEMMA PromiseStaysKept ==
  ASSUME Meter!Bucket, Burst >= 1000, NEW level \in Meter!Refilled, NEW due \in Int,
         total \in 0 .. MaxRoutes, total < MaxRoutes,
         lastRefill <= due => Meter!Token <= tokens + Meter!Speed * (due - lastRefill) + total,
         lastRefill > due => Meter!Token <= tokens
  PROVE  /\ Meter!RefillTime <= due =>
               Meter!Token <= level + Meter!Speed * (due - Meter!RefillTime) + (total + 1)
         /\ Meter!RefillTime > due => Meter!Token <= level
  <1> DEFINE now == Meter!RefillTime
             y == (now - lastRefill) * Meter!Speed
  <1>1. /\ level \in Int /\ level >= tokens /\ level <= Meter!Full
        /\ now \in Int /\ lastRefill <= now
        /\ level >= tokens + y - 1 \/ level = Meter!Full
        /\ now = lastRefill => level = tokens
    BY Refills, Units DEF Meter!Bucket
  <1>2. lastRefill \in Int /\ tokens \in Int /\ total \in Nat /\ total + 1 <= MaxRoutes
    BY Units DEF Meter!Bucket
  <1>3. Meter!Token <= Meter!Full /\ Meter!Token \in Nat /\ Meter!Full \in Nat /\ Meter!Speed \in Nat
        /\ MaxRoutes \in Nat /\ MaxRoutes < Meter!Speed
    BY Units
  <1> HIDE DEF now
  <1>4. y \in Nat
    BY <1>1, <1>2, <1>3, Nonneg
  <1>5. CASE lastRefill > due
    <2>1. Meter!Token <= tokens
      BY <1>5
    <2>2. Meter!Token <= level
      BY <1>1, <1>2, <1>3, <2>1
    <2>3. ~(now <= due)
      BY <1>1, <1>2, <1>5
    <2> QED  BY <2>2, <2>3 DEF now
  <1>6. CASE lastRefill <= due
    <2> DEFINE x == Meter!Speed * (due - lastRefill)
    <2>1. x \in Nat /\ Meter!Token <= tokens + x + total
      BY <1>2, <1>3, <1>6, Nonneg
    <2>2. CASE now <= due
      <3> DEFINE z == Meter!Speed * (due - now)
      <3>1. x = z + y /\ z \in Nat
        BY <1>1, <1>2, <1>3, <2>2, Distributes, Nonneg
      <3> HIDE DEF x, y, z
      <3>2. Meter!Token <= level + z + (total + 1)
        BY <1>1, <1>2, <1>3, <1>4, <2>1, <3>1
      <3>3. ~(now > due)
        BY <1>1, <2>2
      <3> QED  BY <3>2, <3>3 DEF now, z
    <2>3. CASE now > due
      <3> DEFINE z == (now - due) * Meter!Speed
      <3>1. y = x + z
        BY <1>1, <1>2, <1>3
      <3>2. z \in Nat /\ Meter!Speed <= z
        BY <1>1, <1>3, <2>3, Nonneg, Adds
      <3> HIDE DEF x, y, z
      <3>3. Meter!Token <= level
        BY <1>1, <1>2, <1>3, <2>1, <3>1, <3>2
      <3>4. ~(now <= due)
        BY <1>1, <2>3
      <3> QED  BY <3>3, <3>4 DEF now
    <2> QED  BY <1>1, <2>2, <2>3
  <1> QED  BY <1>2, <1>5, <1>6

LEMMA PromiseStep ==
  ASSUME Burst >= 1000, Meter!Bucket, Meter!Accounted, Meter!PromiseStands, [Meter!Next]_(Meter!vars)
  PROVE  Meter!PromiseStands'
  <1>1. ASSUME NEW r \in Requests, Meter!Route(r) PROVE Meter!PromiseStands'
    <2>1. /\ clock' = clock /\ lastRefill' = Meter!RefillTime
          /\ total' = total + 1 /\ total < MaxRoutes
      BY <1>1 DEF Meter!Route
    <2>2. clock \in Int /\ lastRefill \in Int /\ total \in 0 .. MaxRoutes /\ tokens \in Nat
      BY Units DEF Meter!Bucket, Meter!Accounted
    <2>3. PICK level \in Meter!Refilled :
            \/ /\ level < Meter!Token /\ tokens' = level
               /\ \E wait \in Meter!RetryAfter(level) :
                     promised' = IF clock < lastRefill THEN promised
                                 ELSE [promised EXCEPT ![r] = Meter!Earlier(@, clock + wait)]
            \/ promised' = [q \in Requests |-> -1]
      BY <1>1 DEF Meter!Route
    <2>4. CASE promised' = [q \in Requests |-> -1]
      BY <2>4 DEF Meter!PromiseStands
    <2>5. CASE level < Meter!Token /\ tokens' = level
      <3>1. level \in Nat
        <4>1. level \in tokens .. Meter!Full
          BY Refills
        <4> QED  BY <2>2, <4>1, Units
      <3>2. ASSUME NEW q \in Requests, promised[q] # -1
            PROVE  /\ lastRefill' <= clock'
                   /\ lastRefill' <= promised[q] =>
                        Meter!Token <= tokens' + Meter!Speed * (promised[q] - lastRefill') + total'
                   /\ lastRefill' > promised[q] => Meter!Token <= tokens'
        <4>1. /\ lastRefill <= clock /\ promised[q] \in Int
              /\ lastRefill <= promised[q] =>
                    Meter!Token <= tokens + Meter!Speed * (promised[q] - lastRefill) + total
              /\ lastRefill > promised[q] => Meter!Token <= tokens
          BY <3>2 DEF Meter!PromiseStands
        <4>2. Meter!RefillTime <= clock
          BY <2>2, <4>1 DEF Meter!RefillTime
        <4>3. /\ Meter!RefillTime <= promised[q] =>
                   Meter!Token <= level + Meter!Speed * (promised[q] - Meter!RefillTime) + (total + 1)
              /\ Meter!RefillTime > promised[q] => Meter!Token <= level
          BY <2>1, <2>2, <4>1, PromiseStaysKept
        <4> QED  BY <2>1, <2>5, <4>2, <4>3
      <3>3. CASE promised' = promised
        BY <3>2, <3>3 DEF Meter!PromiseStands
      <3>4. ASSUME NEW wait \in Meter!RetryAfter(level), ~(clock < lastRefill),
                   promised' = [promised EXCEPT ![r] = Meter!Earlier(@, clock + wait)]
            PROVE  Meter!PromiseStands'
        <4>1. promised \in [Requests -> Int]
          BY DEF Meter!PromiseStands
        <4>2. wait \in Nat /\ Meter!Token - level - 1 <= wait * Meter!Speed
          BY <2>5, <3>1, WaitIsLongEnough
        <4>3. (promised'[r] = promised[r] /\ promised[r] # -1) \/ promised'[r] = clock + wait
          BY <3>4, <4>1 DEF Meter!Earlier
        <4>4. Meter!RefillTime = clock
          BY <2>2, <3>4 DEF Meter!RefillTime
        <4>5. promised' \in [Requests -> Int]
          BY <2>2, <3>4, <4>1, <4>2 DEF Meter!Earlier
        <4>6. ASSUME NEW q \in Requests, promised'[q] # -1
              PROVE  /\ lastRefill' <= clock'
                     /\ lastRefill' <= promised'[q] =>
                          Meter!Token <= tokens' + Meter!Speed * (promised'[q] - lastRefill') + total'
                     /\ lastRefill' > promised'[q] => Meter!Token <= tokens'
          <5>1. CASE promised'[q] = promised[q]
            BY <3>2, <4>6, <5>1
          <5>2. CASE promised'[q] = clock + wait
            <6> DEFINE x == Meter!Speed * (promised'[q] - lastRefill')
            <6>1. promised'[q] - lastRefill' = wait /\ ~(lastRefill' > promised'[q]) /\ lastRefill' <= clock'
              BY <2>1, <2>2, <4>2, <4>4, <5>2
            <6>2. x = wait * Meter!Speed /\ x \in Nat
              BY <4>2, <6>1, Units
            <6>3. Meter!Token - level - 1 <= x
              BY <4>2, <6>2
            <6> HIDE DEF x
            <6>4. Meter!Token <= tokens' + x + total'
              BY <2>1, <2>2, <2>5, <3>1, <6>2, <6>3, Units
            <6> QED  BY <6>1, <6>4 DEF x
          <5> QED  BY <3>4, <4>1, <4>3, <5>1, <5>2
        <4> QED  BY <4>5, <4>6 DEF Meter!PromiseStands
      <3> QED  BY <2>3, <2>4, <3>3, <3>4
    <2> QED  BY <2>3, <2>4, <2>5
  <1>2. ASSUME NEW r \in Requests, NEW ok \in BOOLEAN, Meter!Settle(r, ok) PROVE Meter!PromiseStands'
    BY <1>2 DEF Meter!Settle, Meter!PromiseStands
  <1>3. CASE Meter!Tick
    <2>1. /\ clock' = clock + 1
          /\ UNCHANGED <<promised, lastRefill, tokens, total>>
      BY <1>3 DEF Meter!Tick
    <2>2. lastRefill <= clock => lastRefill <= clock + 1
      BY DEF Meter!Bucket
    <2> QED  BY <2>1, <2>2 DEF Meter!PromiseStands
  <1>4. CASE Meter!SetBack
    BY <1>4 DEF Meter!SetBack, Meter!PromiseStands
  <1>5. CASE UNCHANGED Meter!vars
    BY <1>5 DEF Meter!vars, Meter!PromiseStands
  <1> QED  BY <1>1, <1>2, <1>3, <1>4, <1>5 DEF Meter!Next

(* A millisecond after the promised time the bucket has a token, so that   *)
(* nobody is refused.                                                      *)
LEMMA PromiseKept ==
  ASSUME Meter!Bucket, Meter!Accounted, Meter!PromiseStands, NEW r \in Requests, Meter!Route(r),
         Burst >= 1000, phase[r] = "idle", phase'[r] = "refused", promised[r] >= 0
  PROVE  clock <= promised[r]
  <1>1. PICK level \in Meter!Refilled : level < Meter!Token
    <2>1. CASE phase' = [phase EXCEPT ![r] = "inner"]
      BY <2>1
    <2> QED  BY <2>1 DEF Meter!Route
  <1>2. /\ clock \in Int /\ lastRefill \in Int /\ tokens \in Nat
        /\ total \in 0 .. MaxRoutes /\ total < MaxRoutes
    BY Units DEF Meter!Bucket, Meter!Accounted, Meter!Route
  <1>3. /\ lastRefill <= clock /\ promised[r] \in Int
        /\ lastRefill <= promised[r] =>
              Meter!Token <= tokens + Meter!Speed * (promised[r] - lastRefill) + total
        /\ lastRefill > promised[r] => Meter!Token <= tokens
    BY DEF Meter!PromiseStands
  <1>4. Meter!RefillTime > promised[r] => Meter!Token <= level
    BY <1>2, <1>3, PromiseStaysKept
  <1>5. level \in Int /\ Meter!Token \in Int
    BY <1>2, Refills, Units
  <1>6. ~(Meter!RefillTime > promised[r])
    BY <1>1, <1>4, <1>5
  <1>7. Meter!RefillTime = clock
    BY <1>2, <1>3 DEF Meter!RefillTime
  <1> QED  BY <1>2, <1>3, <1>6, <1>7

(* A caller that was refused, and comes a millisecond later than           *)
(* RateLimitedError told it, is let through, unless another one was first  *)
(* or the clock was set back, for any rate and any burst of a whole token. *)
THEOREM WaitIsNearlyEnough == ObservabilitySpec => WaitAndOneMoreSuffices
  <1> DEFINE I == Meter!Phases /\ Meter!Bucket /\ Meter!Accounted /\ (Burst >= 1000 => Meter!PromiseStands)
  <1>1. ObservabilityInit => I
    BY BucketInit DEF ObservabilityInit, Meter!Init, Meter!PromiseStands, Meter!Phases
  <1>2. I /\ [ObservabilityNext]_<<vars, meterVars, part>> => I'
    BY IsMeterStep, PhaseStep, BucketStep, PromiseStep
  <1>3. I /\ [Meter!Next]_(Meter!vars) =>
          [\A r \in Requests :
             Burst >= 1000 /\ phase[r] = "idle" /\ phase'[r] = "refused" /\ promised[r] >= 0
             => clock <= promised[r]]_(Meter!vars)
    <2> SUFFICES ASSUME I, Meter!Next, NEW r \in Requests, Burst >= 1000,
                        phase[r] = "idle", phase'[r] = "refused", promised[r] >= 0
                 PROVE  clock <= promised[r]
      OBVIOUS
    <2>1. CASE \E s \in Requests : Meter!Route(s)
      <3>1. PICK s \in Requests : Meter!Route(s)
        BY <2>1
      <3>2. s = r
        BY <3>1 DEF Meter!Route, Meter!Phases
      <3> QED  BY <3>1, <3>2, PromiseKept
    <2>2. ASSUME NEW s \in Requests, NEW ok \in BOOLEAN, Meter!Settle(s, ok) PROVE FALSE
      BY <2>2 DEF Meter!Settle
    <2>3. ~Meter!Tick /\ ~Meter!SetBack
      BY DEF Meter!Tick, Meter!SetBack
    <2> QED  BY <2>1, <2>2, <2>3 DEF Meter!Next
  <1>4. [ObservabilityNext]_<<vars, meterVars, part>> => [Meter!Next]_(Meter!vars)
    BY IsMeterStep
  <1> QED  BY <1>1, <1>2, <1>3, <1>4, PTL
       DEF ObservabilitySpec, WaitAndOneMoreSuffices, Meter!WaitAndOneMoreSuffices
-----------------------------------------------------------------------------
(* Among some places of a list of integers one has the largest.            *)
LEMMA LargestAt ==
  ASSUME NEW n \in Nat, NEW s \in [1 .. n -> Int], NEW T \in SUBSET (1 .. n), T # {}
  PROVE  \E m \in T : \A k \in T : s[k] <= s[m]
<1> DEFINE Upto(k) == \A j \in T : j > k
           Best(k) == \E m \in T : \A j \in T : j <= k => s[j] <= s[m]
           P == {k \in 0 .. n : Upto(k) \/ Best(k)}
<1>1. n \in Nat /\ 0 \in 0 .. n /\ T \subseteq 1 .. n /\ \A j \in T : s[j] \in Int
  OBVIOUS
<1>2. 0 \in P
  BY <1>1
<1>3. ASSUME NEW k \in 0 .. n, k < n, k \in P PROVE k + 1 \in P
  <2> SUFFICES Upto(k + 1) \/ Best(k + 1)
    BY <1>1, <1>3
  <2>1. \A j \in T : j \in Nat /\ (j <= k + 1 => j <= k \/ j = k + 1) /\ (j > k => j = k + 1 \/ j > k + 1)
    BY <1>1
  <2>2. CASE Upto(k)
    <3>1. CASE k + 1 \in T
      <4>1. \A j \in T : j <= k + 1 => j = k + 1
        BY <2>1, <2>2
      <4>2. s[k + 1] <= s[k + 1]
        BY <1>1, <3>1
      <4> QED BY <3>1, <4>1, <4>2
    <3>2. CASE k + 1 \notin T
      BY <2>1, <2>2, <3>2
    <3> QED BY <3>1, <3>2
  <2>3. CASE Best(k)
    <3>1. PICK m \in T : \A j \in T : j <= k => s[j] <= s[m]
      BY <2>3
    <3>2. CASE k + 1 \in T /\ s[k + 1] > s[m]
      <4>1. ASSUME NEW j \in T, j <= k + 1 PROVE s[j] <= s[k + 1]
        <5>1. s[j] \in Int /\ s[k + 1] \in Int /\ s[m] \in Int
          BY <1>1, <3>2
        <5>2. CASE j = k + 1
          BY <5>1, <5>2
        <5>3. CASE j <= k
          <6>1. s[j] <= s[m]
            BY <3>1, <5>3
          <6> QED BY <3>2, <5>1, <6>1
        <5> QED BY <2>1, <4>1, <5>2, <5>3
      <4> QED BY <3>2, <4>1
    <3>3. CASE ~(k + 1 \in T /\ s[k + 1] > s[m])
      <4>1. ASSUME NEW j \in T, j <= k + 1 PROVE s[j] <= s[m]
        <5>1. CASE j = k + 1
          <6>1. s[j] \in Int /\ s[m] \in Int /\ ~(s[j] > s[m])
            BY <1>1, <3>3, <5>1
          <6> QED BY <6>1
        <5> QED BY <2>1, <3>1, <4>1, <5>1
      <4> QED BY <4>1
    <3> QED BY <3>2, <3>3
  <2> QED BY <1>3, <2>2, <2>3
<1> HIDE DEF P
<1>4. n \in P
  <2>1. \A k \in 0 .. n : k \in P
    BY <1>1, <1>2, <1>3, UpTo
  <2> QED BY <1>1, <2>1
<1>5. Upto(n) \/ Best(n)
  BY <1>4 DEF P
<1>6. ~Upto(n)
  <2>1. PICK j \in T : TRUE
    OBVIOUS
  <2>2. ~(j > n)
    BY <1>1, <2>1
  <2> QED BY <2>1, <2>2
<1>7. \A j \in T : j <= n
  BY <1>1
<1> QED BY <1>5, <1>6, <1>7

LEMMA SameCardinality == ASSUME NEW S PROVE Meter!Cardinality(S) = Cardinality(S)
  BY DEF Meter!Cardinality, Cardinality

LEMMA CountAll == ASSUME NEW n \in Nat PROVE Cardinality(1 .. n) = n
  BY FS_Interval

LEMMA Counts ==
  ASSUME NEW n \in Nat, NEW A \in SUBSET (1 .. n), NEW B \in SUBSET A
  PROVE  Cardinality(A) \in Nat /\ Cardinality(B) \in Nat /\ Cardinality(B) <= Cardinality(A)
<1>1. IsFiniteSet(1 .. n)
  BY FS_Interval
<1>2. IsFiniteSet(A)
  BY <1>1, FS_Subset
<1>3. IsFiniteSet(B) /\ Cardinality(B) <= Cardinality(A)
  BY <1>2, FS_Subset
<1> QED BY <1>2, <1>3, FS_CardinalityType

(* There is an i-th smallest sample: the sort of a snapshot has a result.  *)
LEMMA RankedExists ==
  ASSUME NEW n \in Nat, NEW s \in [1 .. n -> Int], n = Len(s), NEW i \in 1 .. n
  PROVE  \E j \in 1 .. n : Meter!Ranked(s, i, j)
<1> DEFINE NotAbove(j) == {k \in 1 .. n : s[k] <= s[j]}
           Below(j) == {k \in 1 .. n : s[k] < s[j]}
           G == {j \in 1 .. n : i <= Cardinality(NotAbove(j))}
<1>1. n \in Nat /\ i \in 1 .. n /\ \A k \in 1 .. n : s[k] \in Int
  OBVIOUS
<1>2. \A j \in 1 .. n : Cardinality(NotAbove(j)) \in Nat /\ Cardinality(Below(j)) \in Nat
  BY Counts
<1>3. PICK m \in 1 .. n : \A k \in 1 .. n : s[k] <= s[m]
  BY <1>1, LargestAt
<1>4. NotAbove(m) = 1 .. n
  BY <1>3
<1>5. m \in G
  <2>1. Cardinality(1 .. n) = n
    BY CountAll
  <2> HIDE DEF NotAbove
  <2>2. i <= Cardinality(NotAbove(m))
    BY <1>1, <1>4, <2>1
  <2> QED BY <2>2
<1>6. PICK j \in G : \A k \in G : s[j] <= s[k]
  <2> DEFINE t == [k \in 1 .. n |-> 0 - s[k]]
  <2>1. t \in [1 .. n -> Int]
    BY <1>1
  <2>2. G \in SUBSET (1 .. n) /\ G # {}
    BY <1>5
  <2> HIDE DEF G
  <2>3. \A k \in G : t[k] = 0 - s[k] /\ s[k] \in Int
    BY <1>1, <2>2
  <2> HIDE DEF t
  <2>4. PICK j \in G : \A k \in G : t[k] <= t[j]
    BY <2>1, <2>2, LargestAt
  <2>5. ASSUME NEW k \in G PROVE s[j] <= s[k]
    <3>1. t[k] <= t[j] /\ t[k] = 0 - s[k] /\ t[j] = 0 - s[j] /\ s[k] \in Int /\ s[j] \in Int
      BY <2>3, <2>4
    <3> QED BY <3>1
  <2> QED BY <2>5
<1>7. Cardinality(Below(j)) < i
  <2> SUFFICES ASSUME ~(Cardinality(Below(j)) < i) PROVE FALSE
    OBVIOUS
  <2>0. j \in 1 .. n
    OBVIOUS
  <2>1. i <= Cardinality(Below(j)) /\ Cardinality(Below(j)) # 0
    <3>1. Cardinality(Below(j)) \in Nat
      BY <1>2, <2>0
    <3> HIDE DEF Below
    <3> QED BY <1>1, <3>1
  <2>2. Below(j) # {}
    BY <2>1, FS_EmptySet
  <2>3. Below(j) \in SUBSET (1 .. n)
    OBVIOUS
  <2>4. PICK u \in Below(j) : \A k \in Below(j) : s[k] <= s[u]
    BY <2>2, <2>3, LargestAt
  <2>5. u \in 1 .. n /\ s[u] < s[j]
    BY <2>4
  <2>6. Below(j) \subseteq NotAbove(u)
    BY <2>4
  <2>7. Cardinality(Below(j)) <= Cardinality(NotAbove(u))
    BY <2>6, Counts
  <2>8. u \in G
    <3>1. j \in 1 .. n
      OBVIOUS
    <3>2. i <= Cardinality(NotAbove(u))
      <4>1. Cardinality(NotAbove(u)) \in Nat /\ Cardinality(Below(j)) \in Nat
        BY <1>2, <2>5, <3>1
      <4> HIDE DEF NotAbove, Below
      <4> QED BY <1>1, <2>1, <2>7, <4>1
    <3> QED BY <2>5, <3>2
  <2>9. s[j] <= s[u] /\ s[j] \in Int /\ s[u] \in Int
    BY <1>1, <1>6, <2>5, <2>8
  <2> QED BY <2>5, <2>9
<1>8. i <= Cardinality(NotAbove(j)) /\ j \in 1 .. n
  OBVIOUS
<1>9. Below(j) = Meter!Below(s, j) /\ NotAbove(j) = Meter!NotAbove(s, j)
  BY DEF Meter!Below, Meter!NotAbove
<1> HIDE DEF Below, NotAbove
<1> QED BY <1>7, <1>8, <1>9, SameCardinality DEF Meter!Ranked

LEMMA AscendingOrder ==
  ASSUME NEW s \in Seq(Int)
  PROVE  /\ Meter!Ascending(s) \in Seq(Int) /\ Len(Meter!Ascending(s)) = Len(s)
         /\ \A i, j \in 1 .. Len(s) : i <= j => Meter!Ascending(s)[i] <= Meter!Ascending(s)[j]
<1> DEFINE n == Len(s)
           spot(i) == CHOOSE j \in 1 .. n : Meter!Ranked(s, i, j)
<1>1. n \in Nat /\ s \in [1 .. n -> Int]
  OBVIOUS
<1>2. \A i \in 1 .. n : spot(i) \in 1 .. n /\ Meter!Ranked(s, i, spot(i))
  BY <1>1, RankedExists
<1>3. Meter!Ascending(s) = [i \in 1 .. n |-> s[spot(i)]]
  BY DEF Meter!Ascending
<1> HIDE DEF spot
<1>4. ASSUME NEW i \in 1 .. n, NEW j \in 1 .. n, i <= j PROVE s[spot(i)] <= s[spot(j)]
  <2> SUFFICES ASSUME ~(s[spot(i)] <= s[spot(j)]) PROVE FALSE
    OBVIOUS
  <2>1. /\ spot(i) \in 1 .. n /\ spot(j) \in 1 .. n
        /\ s[spot(i)] \in Int /\ s[spot(j)] \in Int /\ s[spot(j)] < s[spot(i)]
    <3>1. spot(i) \in 1 .. n /\ spot(j) \in 1 .. n
      BY <1>2
    <3> HIDE DEF n
    <3>2. s[spot(i)] \in Int /\ s[spot(j)] \in Int
      BY <1>1, <3>1
    <3> QED BY <3>1, <3>2
  <2> DEFINE A == Meter!Below(s, spot(i))
             B == Meter!NotAbove(s, spot(j))
  <2>2. Cardinality(A) < i /\ j <= Cardinality(B)
    <3>1. Meter!Ranked(s, i, spot(i)) /\ Meter!Ranked(s, j, spot(j))
      BY <1>2
    <3> QED BY <3>1, SameCardinality DEF Meter!Ranked
  <2>3. B \subseteq A
    <3>1. ASSUME NEW k \in 1 .. n, s[k] <= s[spot(j)] PROVE s[k] < s[spot(i)]
      <4> HIDE DEF n
      <4>1. s[k] \in Int
        BY <1>1
      <4> DEFINE x == s[k]
                 y == s[spot(j)]
                 z == s[spot(i)]
      <4>2. x \in Int /\ y \in Int /\ z \in Int /\ x <= y /\ y < z
        BY <2>1, <3>1, <4>1
      <4> HIDE DEF x, y, z
      <4>3. x < z
        BY <4>2
      <4> QED BY <4>3 DEF x, z
    <3>2. /\ A = {k \in 1 .. n : s[k] < s[spot(i)]}
          /\ B = {k \in 1 .. n : s[k] <= s[spot(j)]}
      BY DEF Meter!Below, Meter!NotAbove
    <3> QED BY <3>1, <3>2
  <2>4. A \subseteq 1 .. n
    BY DEF Meter!Below
  <2>5. Cardinality(A) \in Nat /\ Cardinality(B) \in Nat /\ Cardinality(B) <= Cardinality(A)
    BY <1>1, <2>3, <2>4, Counts
  <2> HIDE DEF A, B
  <2> QED BY <1>4, <2>2, <2>5
<1> QED BY <1>1, <1>2, <1>3, <1>4
(* What is read between two samples in order is not below the first and    *)
(* not above the second, and does not fall on the way.                     *)
LEMMA Interpolates ==
  ASSUME NEW a \in Int, NEW b \in Int, a <= b, NEW f \in 0 .. 99
  PROVE  /\ a * (100 - f) + b * f \in Int
         /\ 100 * a <= a * (100 - f) + b * f /\ a * (100 - f) + b * f <= 100 * b
<1> DEFINE x == (b - a) * f
           y == (b - a) * (100 - f)
<1>1. f \in Nat /\ 100 - f \in Nat /\ b - a \in Nat
  OBVIOUS
<1>2. x \in Nat /\ y \in Nat
  BY <1>1
<1>3. a * (100 - f) + b * f = 100 * a + x /\ a * (100 - f) + b * f = 100 * b - y
  BY <1>1
<1> HIDE DEF x, y
<1> QED BY <1>2, <1>3

LEMMA Climbs ==
  ASSUME NEW a \in Int, NEW b \in Int, a <= b, NEW f \in 0 .. 99, NEW g \in 0 .. 99, f <= g
  PROVE  a * (100 - f) + b * f <= a * (100 - g) + b * g
<1> DEFINE x == (b - a) * (g - f)
<1>1. b - a \in Nat /\ f \in Int /\ g \in Int
  OBVIOUS
<1>2. x \in Nat
  BY <1>1, Nonneg
<1>3. a * (100 - g) + b * g = (a * (100 - f) + b * f) + x
  OBVIOUS
<1> QED BY <1>2, <1>3

LEMMA RankParts ==
  ASSUME NEW n \in Nat, NEW r \in 0 .. 100 * (n - 1)
  PROVE  /\ r = 100 * (r \div 100) + (r % 100) /\ r \div 100 \in Nat /\ r % 100 \in 0 .. 99
         /\ (r \div 100) + 1 \in 1 .. n
         /\ r % 100 # 0 => (r \div 100) + 2 \in 1 .. n
<1> DEFINE lo == r \div 100
           f == r % 100
<1>1. n - 1 \in Int /\ r \in Nat
  OBVIOUS
<1>2. r = 100 * lo + f /\ lo \in Nat /\ f \in 0 .. 99
  BY <1>1
<1> HIDE DEF lo, f
<1>3. lo + 1 \in 1 .. n /\ (f # 0 => lo + 2 \in 1 .. n)
  BY <1>1, <1>2
<1> QED BY <1>2, <1>3 DEF lo, f

(* percentile: of samples in order, a larger rank reads no smaller value.  *)
LEMMA BetweenGrows ==
  ASSUME NEW n \in Nat, NEW t, NEW r \in 0 .. 100 * (n - 1), NEW q \in 0 .. 100 * (n - 1), r <= q,
         \A i \in 1 .. n : t[i] \in Int,
         \A i, j \in 1 .. n : i <= j => t[i] <= t[j]
  PROVE  Meter!Between(t, r) <= Meter!Between(t, q)
<1> DEFINE lo == r \div 100
           f == r % 100
           hi == q \div 100
           g == q % 100
           x == Meter!Between(t, r)
           y == Meter!Between(t, q)
<1>1. /\ r = 100 * lo + f /\ lo \in Nat /\ f \in 0 .. 99 /\ lo + 1 \in 1 .. n
      /\ f # 0 => lo + 2 \in 1 .. n
  BY RankParts
<1>2. /\ q = 100 * hi + g /\ hi \in Nat /\ g \in 0 .. 99 /\ hi + 1 \in 1 .. n
      /\ g # 0 => hi + 2 \in 1 .. n
  BY RankParts
<1>3. /\ x = IF f = 0 THEN 100 * t[lo + 1] ELSE t[lo + 1] * (100 - f) + t[lo + 2] * f
      /\ y = IF g = 0 THEN 100 * t[hi + 1] ELSE t[hi + 1] * (100 - g) + t[hi + 2] * g
  BY DEF Meter!Between
<1> HIDE DEF lo, f, hi, g, x, y
<1>4. r \in Nat /\ q \in Nat /\ lo <= hi /\ (lo = hi => f <= g)
  BY <1>1, <1>2
<1> DEFINE a == t[lo + 1]
           b == IF f = 0 THEN a ELSE t[lo + 2]
           c == t[hi + 1]
           d == IF g = 0 THEN c ELSE t[hi + 2]
<1>5. a \in Int /\ b \in Int /\ a <= b
  <2>1. CASE f = 0  BY <1>1, <2>1
  <2>2. CASE f # 0
    <3>1. lo + 1 <= lo + 2  BY <1>1
    <3> QED BY <1>1, <2>2, <3>1
  <2> QED BY <2>1, <2>2
<1>6. c \in Int /\ d \in Int /\ c <= d
  <2>1. CASE g = 0  BY <1>2, <2>1
  <2>2. CASE g # 0
    <3>1. hi + 1 <= hi + 2  BY <1>2
    <3> QED BY <1>2, <2>2, <3>1
  <2> QED BY <2>1, <2>2
<1>7. CASE lo < hi
  <2>1. b <= c
    <3>1. CASE f = 0
      <4>1. lo + 1 <= hi + 1  BY <1>1, <1>2, <1>7
      <4> QED BY <1>1, <1>2, <3>1, <4>1
    <3>2. CASE f # 0
      <4>1. lo + 2 <= hi + 1  BY <1>1, <1>2, <1>7
      <4> QED BY <1>1, <1>2, <3>2, <4>1
    <3> QED BY <3>1, <3>2
  <2>2. x \in Int /\ x <= 100 * b
    <3>1. CASE f = 0  BY <1>3, <1>5, <3>1
    <3>2. CASE f # 0
      <4>1. x = a * (100 - f) + b * f  BY <1>3, <3>2
      <4> HIDE DEF a, b
      <4> QED BY <1>1, <1>5, <4>1, Interpolates
    <3> QED BY <3>1, <3>2
  <2>3. y \in Int /\ 100 * c <= y
    <3>1. CASE g = 0  BY <1>3, <1>6, <3>1
    <3>2. CASE g # 0
      <4>1. y = c * (100 - g) + d * g  BY <1>3, <3>2
      <4> HIDE DEF c, d
      <4> QED BY <1>2, <1>6, <4>1, Interpolates
    <3> QED BY <3>1, <3>2
  <2> HIDE DEF a, b, c, d
  <2>4. x <= y
    BY <1>5, <1>6, <2>1, <2>2, <2>3
  <2> QED BY <2>4 DEF x, y
<1>8. CASE lo = hi
  <2>1. a = c /\ f <= g
    BY <1>4, <1>8
  <2>2. x = a * (100 - f) + b * f
    <3>1. CASE f = 0
      <4>1. x = 100 * a /\ b = a  BY <1>3, <3>1
      <4> HIDE DEF a, b
      <4> QED BY <1>5, <3>1, <4>1
    <3>2. CASE f # 0  BY <1>3, <3>2
    <3> QED BY <3>1, <3>2
  <2>3. y = c * (100 - g) + d * g
    <3>1. CASE g = 0
      <4>1. y = 100 * c /\ d = c  BY <1>3, <3>1
      <4> HIDE DEF c, d
      <4> QED BY <1>6, <3>1, <4>1
    <3>2. CASE g # 0  BY <1>3, <3>2
    <3> QED BY <3>1, <3>2
  <2>4. CASE f = 0
    <3>1. x = 100 * a  BY <1>3, <2>4
    <3>2. y \in Int /\ 100 * c <= y
      <4> HIDE DEF c, d
      <4> QED BY <1>2, <1>6, <2>3, Interpolates
    <3>3. x <= y  BY <2>1, <3>1, <3>2
    <3> QED BY <3>3 DEF x, y
  <2>5. CASE f # 0
    <3>1. g # 0  BY <1>1, <1>2, <2>1, <2>5
    <3>2. b = d  BY <1>8, <2>5, <3>1
    <3> HIDE DEF a, b, c, d
    <3>3. x <= y
      BY <1>1, <1>2, <1>5, <2>1, <2>2, <2>3, <3>2, Climbs
    <3> QED BY <3>3 DEF x, y
  <2> QED BY <2>4, <2>5
<1> QED BY <1>4, <1>7, <1>8, <1>1, <1>2
(* The place that is written next goes round.                              *)
LEMMA Round ==
  ASSUME NEW n \in Nat, n > 0, NEW w \in 0 .. n - 1
  PROVE  (w + 1) % n = IF w + 1 = n THEN 0 ELSE w + 1
<1>1. CASE w + 1 = n
  BY <1>1
<1>2. CASE w + 1 # n
  <2> DEFINE x == w + 1
  <2>1. x \in Nat /\ x < n
    BY <1>2
  <2> HIDE DEF x
  <2>2. x % n = x
    BY <2>1
  <2> QED BY <1>2, <2>2 DEF x
<1> QED BY <1>1, <1>2

(* Where the samples are, once the one at place w + 1 is written over.     *)
LEMMA Places ==
  ASSUME NEW n \in Nat, NEW c \in Nat, n <= c, NEW w \in 0 .. n - 1, NEW i \in 1 .. n,
         NEW v, v = IF w + 1 = n THEN 0 ELSE w + 1
  PROVE  /\ i = w + 1 => (c + 1) + i - v - (IF i > v THEN n ELSE 0) = c + 1
         /\ i # w + 1 => /\ (c + 1) + i - v - (IF i > v THEN n ELSE 0)
                            = c + i - w - (IF i > w THEN n ELSE 0)
                         /\ c + i - w - (IF i > w THEN n ELSE 0) \in 1 .. c
  OBVIOUS

(* observe keeps the newest samples in their places: the ring grows, or    *)
(* the oldest of it is written over.                                       *)
LEMMA ObserveStep ==
  ASSUME NEW h, NEW seen, Meter!Holds(h, seen), NEW value \in Int
  PROVE  Meter!Holds(Meter!Observe(h, value), Append(seen, value))
<1> DEFINE c == Len(seen)
           n == Len(h.ring)
           w == h.writeIdx
           after == Append(seen, value)
           new == Meter!Observe(h, value)
<1>1. /\ seen \in Seq(Int) /\ h \in [ring : Seq(Int), writeIdx : 0 .. Cap - 1]
      /\ n = IF c < Cap THEN c ELSE Cap
      /\ n < Cap => w = 0
      /\ \A i \in 1 .. n : h.ring[i] = seen[c + i - w - (IF i > w THEN n ELSE 0)]
  BY DEF Meter!Holds
<1>2. /\ c \in Nat /\ n \in Nat /\ w \in 0 .. Cap - 1 /\ Cap \in Nat /\ Cap > 0
      /\ h.ring \in Seq(Int)
  BY <1>1, MeterAssumption
<1>3. /\ after \in Seq(Int) /\ Len(after) = c + 1
      /\ \A i \in 1 .. c : after[i] = seen[i]
      /\ after[c + 1] = value
  BY <1>1, AppendProperties
<1>4. CASE n < Cap
  <2>1. new = [h EXCEPT !.ring = Append(h.ring, value)]
    BY <1>4 DEF Meter!Observe
  <2>2. /\ new.ring = Append(h.ring, value) /\ new.writeIdx = w
        /\ new \in [ring : Seq(Int), writeIdx : 0 .. Cap - 1]
    <3>1. Append(h.ring, value) \in Seq(Int)
      BY <1>2, AppendProperties
    <3> QED BY <1>1, <2>1, <3>1
  <2>3. /\ Len(new.ring) = n + 1 /\ \A i \in 1 .. n : new.ring[i] = h.ring[i]
        /\ new.ring[n + 1] = value
    BY <1>2, <2>2, AppendProperties
  <2>4. n = c /\ w = 0
    BY <1>1, <1>2, <1>4
  <2>5. n + 1 = IF c + 1 < Cap THEN c + 1 ELSE Cap
    BY <1>2, <1>4, <2>4
  <2>6. ASSUME NEW i \in 1 .. n + 1
        PROVE  new.ring[i] = after[(c + 1) + i - w - (IF i > w THEN n + 1 ELSE 0)]
    <3>1. (c + 1) + i - w - (IF i > w THEN n + 1 ELSE 0) = i
      BY <1>2, <2>4
    <3>2. CASE i = n + 1
      BY <1>3, <2>3, <2>4, <3>1, <3>2
    <3>3. CASE i # n + 1
      <4>1. i \in 1 .. n /\ c + i - w - (IF i > w THEN n ELSE 0) = i
        BY <1>2, <2>4, <3>3
      <4>2. new.ring[i] = h.ring[i] /\ h.ring[i] = seen[i]
        BY <1>1, <2>3, <4>1
      <4>3. after[i] = seen[i]
        BY <1>3, <2>4, <4>1
      <4> QED BY <3>1, <4>2, <4>3
    <3> QED BY <3>2, <3>3
  <2> HIDE DEF new, after
  <2>7. Len(new.ring) = n + 1 /\ Len(after) = c + 1 /\ new.writeIdx = w
    BY <1>3, <2>2, <2>3
  <2>8. /\ Len(new.ring) = IF Len(after) < Cap THEN Len(after) ELSE Cap
        /\ Len(new.ring) < Cap => new.writeIdx = 0
    BY <2>4, <2>5, <2>7
  <2>9. ASSUME NEW i \in 1 .. Len(new.ring)
        PROVE  new.ring[i] = after[Len(after) + i - new.writeIdx
                                   - (IF i > new.writeIdx THEN Len(new.ring) ELSE 0)]
    BY <2>6, <2>7
  <2>10. after \in Seq(Int) /\ new \in [ring : Seq(Int), writeIdx : 0 .. Cap - 1]
    BY <1>3, <2>2
  <2>11. Meter!Holds(new, after)
    BY <2>8, <2>9, <2>10 DEF Meter!Holds
  <2> QED BY <2>11 DEF new, after
<1>5. CASE ~(n < Cap)
  <2>1. n = Cap /\ c >= Cap
    BY <1>1, <1>2, <1>5
  <2>2. new = [ring |-> [h.ring EXCEPT ![w + 1] = value], writeIdx |-> (w + 1) % Cap]
    BY <1>5 DEF Meter!Observe
  <2>3. /\ new.ring = [h.ring EXCEPT ![w + 1] = value] /\ new.writeIdx = (w + 1) % Cap
        /\ new.writeIdx = (IF w + 1 = Cap THEN 0 ELSE w + 1)
    <3>1. (w + 1) % Cap = IF w + 1 = Cap THEN 0 ELSE w + 1
      <4> HIDE DEF w
      <4> QED BY <1>2, Round
    <3> QED BY <2>2, <3>1
  <2>4. w + 1 \in 1 .. n
    BY <1>2, <2>1
  <2>5. /\ new.ring \in Seq(Int) /\ Len(new.ring) = n
        /\ \A i \in 1 .. n : new.ring[i] = IF i = w + 1 THEN value ELSE h.ring[i]
    <3> DEFINE ring == h.ring
               slot == w + 1
    <3>1. ring \in Seq(Int) /\ slot \in 1 .. Len(ring) /\ value \in Int
      BY <1>2, <2>4
    <3> HIDE DEF ring, slot
    <3>2. /\ [ring EXCEPT ![slot] = value] \in Seq(Int)
          /\ Len([ring EXCEPT ![slot] = value]) = Len(ring)
          /\ \A i \in 1 .. Len(ring) :
                [ring EXCEPT ![slot] = value][i] = IF i = slot THEN value ELSE ring[i]
      BY ONLY <3>1, ExceptSeq
    <3>3. new.ring = [ring EXCEPT ![slot] = value]
      BY <2>3 DEF ring, slot
    <3>4. n = Len(ring)
      BY DEF ring
    <3>5. \A i \in 1 .. n : new.ring[i] = IF i = slot THEN value ELSE ring[i]
      BY ONLY <3>2, <3>3, <3>4
    <3> QED BY <3>2, <3>3, <3>4, <3>5 DEF ring, slot
  <2>6. new \in [ring : Seq(Int), writeIdx : 0 .. Cap - 1]
    <3>1. new.writeIdx \in 0 .. Cap - 1
      BY <1>2, <2>3
    <3> QED BY <2>2, <2>5, <3>1
  <2>7. n = IF c + 1 < Cap THEN c + 1 ELSE Cap
    BY <1>2, <2>1
  <2> DEFINE v == new.writeIdx
  <2>8. ASSUME NEW i \in 1 .. n
        PROVE  new.ring[i] = after[(c + 1) + i - v - (IF i > v THEN n ELSE 0)]
    <3>a. /\ i = w + 1 => (c + 1) + i - v - (IF i > v THEN n ELSE 0) = c + 1
          /\ i # w + 1 => /\ (c + 1) + i - v - (IF i > v THEN n ELSE 0)
                             = c + i - w - (IF i > w THEN n ELSE 0)
                          /\ c + i - w - (IF i > w THEN n ELSE 0) \in 1 .. c
      <4>1. v = IF w + 1 = n THEN 0 ELSE w + 1
        BY <2>1, <2>3
      <4>2. w \in 0 .. n - 1 /\ n <= c
        <5> HIDE DEF n, w, c
        <5> QED BY <1>2, <2>1
      <4> HIDE DEF n, w, c, v
      <4> QED BY <1>2, <4>1, <4>2, Places
    <3> HIDE DEF new, after
    <3>1. CASE i = w + 1
      <4>1. (c + 1) + i - v - (IF i > v THEN n ELSE 0) = c + 1
        BY <3>a, <3>1
      <4> QED BY <1>3, <2>5, <3>1, <4>1
    <3>2. CASE i # w + 1
      <4> DEFINE k == c + i - w - (IF i > w THEN n ELSE 0)
      <4>1. (c + 1) + i - v - (IF i > v THEN n ELSE 0) = k
        BY <3>a, <3>2
      <4>2. k \in 1 .. c
        BY <3>a, <3>2
      <4>3. h.ring[i] = seen[k]
        BY <1>1
      <4> HIDE DEF k
      <4> QED BY <1>3, <2>5, <3>2, <4>1, <4>2, <4>3
    <3> QED BY <3>1, <3>2
  <2> HIDE DEF new, after
  <2>9. Len(new.ring) = n /\ Len(after) = c + 1
    BY <1>3, <2>5
  <2>10. /\ Len(new.ring) = IF Len(after) < Cap THEN Len(after) ELSE Cap
         /\ ~(Len(new.ring) < Cap)
    BY <1>5, <2>7, <2>9
  <2>11. ASSUME NEW i \in 1 .. Len(new.ring)
         PROVE  new.ring[i] = after[Len(after) + i - new.writeIdx
                                    - (IF i > new.writeIdx THEN Len(new.ring) ELSE 0)]
    BY <2>8, <2>9
  <2>12. after \in Seq(Int)
    BY <1>3
  <2>13. Meter!Holds(new, after)
    BY <2>6, <2>10, <2>11, <2>12 DEF Meter!Holds
  <2> QED BY <2>13 DEF new, after
<1> QED BY <1>4, <1>5

LEMMA OldPlace ==
  ASSUME NEW n \in Nat, NEW c \in Nat, NEW w \in Nat, NEW i \in 1 .. n, i <= n - w
  PROVE  /\ i \in 1 .. n - w /\ w + i \in 1 .. n
         /\ c + (w + i) - w - (IF w + i > w THEN n ELSE 0) = c - n + i
  OBVIOUS

LEMMA YoungPlace ==
  ASSUME NEW n \in Nat, NEW c \in Nat, NEW w \in 0 .. n, NEW i \in 1 .. n, ~(i <= n - w)
  PROVE  LET k == i - (n - w) IN
         /\ k \in 1 .. w /\ k \in 1 .. n
         /\ c + k - w - (IF k > w THEN n ELSE 0) = c - n + i
  OBVIOUS

(* Read from the place that is written next, the ring is the newest of     *)
(* what was observed.                                                      *)
LEMMA ReadsNewest ==
  ASSUME NEW h, NEW seen, Meter!Holds(h, seen)
  PROVE  SubSeq(h.ring, h.writeIdx + 1, Len(h.ring)) \o SubSeq(h.ring, 1, h.writeIdx)
         = SubSeq(seen, Len(seen) - Len(h.ring) + 1, Len(seen))
<1> DEFINE ring == h.ring
           c == Len(seen)
           n == Len(ring)
           w == h.writeIdx
<1>a. /\ seen \in Seq(Int) /\ ring \in Seq(Int) /\ w \in 0 .. Cap - 1
      /\ n = IF c < Cap THEN c ELSE Cap
      /\ n < Cap => w = 0
      /\ \A i \in 1 .. n : ring[i] = seen[c + i - w - (IF i > w THEN n ELSE 0)]
  BY DEF Meter!Holds
<1>b. c \in Nat /\ n \in Nat /\ Cap \in Nat /\ Cap > 0
  BY <1>a, MeterAssumption
<1>1. /\ n \in Nat /\ c \in Nat /\ w \in Nat
      /\ \A i \in 1 .. n : ring[i] \in Int
      /\ \A i \in 1 .. c : seen[i] \in Int
  <2>1. seen \in Seq(Int) /\ ring \in Seq(Int)
    BY <1>a
  <2>2. w \in 0 .. Cap - 1
    BY <1>a
  <2> HIDE DEF ring, w
  <2> QED BY <1>b, <2>1, <2>2
<1> HIDE DEF ring, c, n, w
<1>0. n \in Nat /\ c \in Nat /\ w \in Nat /\ w \in 0 .. n /\ n <= c
  BY <1>a, <1>b
<1> DEFINE old == SubSeq(ring, w + 1, n)
           young == SubSeq(ring, 1, w)
           newest == SubSeq(seen, c - n + 1, c)
           both == old \o young
<1>2. /\ old \in Seq(Int) /\ Len(old) = n - w
      /\ \A i \in 1 .. n - w : old[i] = ring[w + i]
  <2>1. \A i \in w + 1 .. n : ring[i] \in Int
    BY <1>0, <1>1
  <2>2. /\ old \in Seq(Int) /\ Len(old) = IF w + 1 <= n THEN n - (w + 1) + 1 ELSE 0
        /\ \A i \in 1 .. n - (w + 1) + 1 : old[i] = ring[(w + 1) + i - 1]
    BY <1>0, <2>1, SubSeqProperties
  <2>3. \A i \in 1 .. n - w : i \in 1 .. n - (w + 1) + 1 /\ (w + 1) + i - 1 = w + i
    BY <1>0
  <2>4. Len(old) = n - w
    BY <1>0, <2>2
  <2> QED BY <2>2, <2>3, <2>4
<1>3. /\ young \in Seq(Int) /\ Len(young) = w
      /\ \A i \in 1 .. w : young[i] = ring[i]
  <2>1. \A i \in 1 .. w : ring[i] \in Int
    BY <1>0, <1>1
  <2>2. /\ young \in Seq(Int) /\ Len(young) = IF 1 <= w THEN w - 1 + 1 ELSE 0
        /\ \A i \in 1 .. w - 1 + 1 : young[i] = ring[1 + i - 1]
    BY <1>0, <2>1, SubSeqProperties
  <2>3. \A i \in 1 .. w : i \in 1 .. w - 1 + 1 /\ 1 + i - 1 = i
    BY <1>0
  <2>4. Len(young) = w
    BY <1>0, <2>2
  <2> QED BY <2>2, <2>3, <2>4
<1>4. /\ newest \in Seq(Int) /\ Len(newest) = n
      /\ \A i \in 1 .. n : newest[i] = seen[c - n + i]
  <2>1. \A i \in c - n + 1 .. c : seen[i] \in Int
    BY <1>0, <1>1
  <2>2. /\ newest \in Seq(Int)
        /\ Len(newest) = IF c - n + 1 <= c THEN c - (c - n + 1) + 1 ELSE 0
        /\ \A i \in 1 .. c - (c - n + 1) + 1 : newest[i] = seen[(c - n + 1) + i - 1]
    BY <1>0, <2>1, SubSeqProperties
  <2>3. \A i \in 1 .. n : i \in 1 .. c - (c - n + 1) + 1 /\ (c - n + 1) + i - 1 = c - n + i
    BY <1>0
  <2>4. Len(newest) = n
    BY <1>0, <2>2
  <2> QED BY <2>2, <2>3, <2>4
<1>5. /\ both \in Seq(Int) /\ Len(both) = n
      /\ \A i \in 1 .. n : both[i] = IF i <= n - w THEN old[i] ELSE young[i - (n - w)]
  <2>0. old \in Seq(Int) /\ young \in Seq(Int)
    BY <1>2, <1>3
  <2> HIDE DEF old, young
  <2>1. /\ both \in Seq(Int) /\ Len(both) = Len(old) + Len(young)
        /\ \A i \in 1 .. Len(old) + Len(young) :
              both[i] = IF i <= Len(old) THEN old[i] ELSE young[i - Len(old)]
    BY <2>0, ConcatProperties
  <2> HIDE DEF both
  <2>2. Len(old) + Len(young) = n
    BY <1>0, <1>2, <1>3
  <2> QED BY <1>2, <2>1, <2>2
<1> HIDE DEF old, young, newest, both
<1>6. ASSUME NEW i \in 1 .. n PROVE both[i] = newest[i]
  <2>1. CASE i <= n - w
    <3>1. /\ i \in 1 .. n - w /\ w + i \in 1 .. n
          /\ c + (w + i) - w - (IF w + i > w THEN n ELSE 0) = c - n + i
      BY <1>0, <1>6, <2>1, OldPlace
    <3>2. ring[w + i] = seen[c - n + i]
      BY <1>a, <3>1
    <3> QED BY <1>2, <1>4, <1>5, <2>1, <3>1, <3>2
  <2>2. CASE ~(i <= n - w)
    <3> DEFINE k == i - (n - w)
    <3>1. /\ k \in 1 .. w /\ k \in 1 .. n
          /\ c + k - w - (IF k > w THEN n ELSE 0) = c - n + i
      BY <1>0, <1>6, <2>2, YoungPlace
    <3>2. both[i] = young[k]
      BY <1>5, <2>2
    <3> HIDE DEF k
    <3>3. ring[k] = seen[c - n + i]
      BY <1>a, <3>1
    <3> QED BY <1>3, <1>4, <3>1, <3>2, <3>3
  <2> QED BY <2>1, <2>2
<1>7. both = newest
  BY <1>4, <1>5, <1>6, SeqEqual
<1> QED BY <1>7 DEF both, old, young, newest, ring, c, n, w

(* The percentiles of a snapshot are in order.                             *)
LEMMA PercentilesInOrder ==
  ASSUME NEW ring \in Seq(Int), ring # <<>>, NEW p \in 0 .. 100, NEW q \in 0 .. 100, p <= q
  PROVE  Meter!Percentile(Meter!Ascending(ring), p) <= Meter!Percentile(Meter!Ascending(ring), q)
<1> DEFINE n == Len(ring)
           t == Meter!Ascending(ring)
<1>1. n \in Nat /\ n > 0
  OBVIOUS
<1>2. /\ Len(t) = n /\ \A i \in 1 .. n : t[i] \in Int
      /\ \A i, j \in 1 .. n : i <= j => t[i] <= t[j]
  <2>1. /\ t \in Seq(Int) /\ Len(t) = n
        /\ \A i, j \in 1 .. n : i <= j => t[i] <= t[j]
    BY AscendingOrder
  <2> HIDE DEF t, n
  <2> QED BY <2>1
<1> HIDE DEF n, t
<1> DEFINE m == n - 1
<1>3. m \in Nat
  BY <1>1
<1> HIDE DEF m
<1>4. /\ p * m \in 0 .. 100 * m /\ q * m \in 0 .. 100 * m /\ p * m <= q * m
  <2>1. /\ m * (p - 0) \in Nat /\ m * (q - p) \in Nat /\ m * (100 - q) \in Nat
    BY <1>3, Nonneg
  <2>2. /\ m * (p - 0) = p * m /\ m * (q - p) = q * m - p * m
        /\ m * (100 - q) = 100 * m - q * m
    BY <1>3
  <2> DEFINE x == p * m
             y == q * m
  <2>3. x \in Int /\ y \in Int
    BY <1>3
  <2>4. x \in Nat /\ y - x \in Nat /\ 100 * m - y \in Nat
    BY <2>1, <2>2
  <2> HIDE DEF x, y
  <2>5. x \in 0 .. 100 * m /\ y \in 0 .. 100 * m /\ x <= y
    BY <1>3, <2>3, <2>4
  <2> QED BY <2>5 DEF x, y
<1>5. Meter!Between(t, p * m) <= Meter!Between(t, q * m)
  <2> DEFINE x == p * m
             y == q * m
  <2>1. x \in 0 .. 100 * (n - 1) /\ y \in 0 .. 100 * (n - 1) /\ x <= y
    BY <1>4 DEF m
  <2> HIDE DEF x, y
  <2>2. Meter!Between(t, x) <= Meter!Between(t, y)
    BY <1>1, <1>2, <2>1, BetweenGrows
  <2> QED BY <2>2 DEF x, y
<1>6. Meter!Percentile(t, p) = Meter!Between(t, p * m) /\ Meter!Percentile(t, q) = Meter!Between(t, q * m)
  BY <1>2 DEF Meter!Percentile, m
<1> QED BY <1>5, <1>6 DEF t

LEMMA WindowStep ==
  ASSUME Meter!Bucket, Meter!Window, [Meter!Next]_(Meter!vars)
  PROVE  Meter!Window'
<1>1. /\ start \in [Requests -> Int] /\ clock \in Int
      /\ histogram = [ok \in BOOLEAN |-> histogram[ok]]
      /\ observed = [ok \in BOOLEAN |-> observed[ok]]
      /\ \A ok \in BOOLEAN : Meter!Holds(histogram[ok], observed[ok])
  BY DEF Meter!Window, Meter!Bucket
<1>2. ASSUME histogram' = histogram, observed' = observed, start' \in [Requests -> Int]
      PROVE  Meter!Window'
  BY <1>1, <1>2 DEF Meter!Window
<1>3. ASSUME NEW r \in Requests, Meter!Route(r) PROVE Meter!Window'
  BY <1>1, <1>2, <1>3 DEF Meter!Route, Meter!meters
<1>4. ASSUME NEW r \in Requests, NEW ok \in BOOLEAN, Meter!Settle(r, ok) PROVE Meter!Window'
  <2> DEFINE value == clock - start[r]
  <2>1. /\ start' = [start EXCEPT ![r] = 0]
        /\ histogram' = [histogram EXCEPT ![ok] = Meter!Observe(@, value)]
        /\ observed' = [observed EXCEPT ![ok] = Append(@, value)]
    BY <1>4 DEF Meter!Settle
  <2>2. value \in Int /\ start' \in [Requests -> Int]
    BY <1>1, <2>1
  <2> HIDE DEF value
  <2>3. /\ histogram'[ok] = Meter!Observe(histogram[ok], value)
        /\ observed'[ok] = Append(observed[ok], value)
        /\ \A k \in BOOLEAN : k # ok => histogram'[k] = histogram[k] /\ observed'[k] = observed[k]
        /\ histogram' = [k \in BOOLEAN |-> histogram'[k]]
        /\ observed' = [k \in BOOLEAN |-> observed'[k]]
    BY <1>1, <2>1
  <2>4. Meter!Holds(histogram'[ok], observed'[ok])
    BY <1>1, <2>2, <2>3, ObserveStep
  <2>5. \A k \in BOOLEAN : Meter!Holds(histogram'[k], observed'[k])
    BY <1>1, <2>3, <2>4
  <2> QED BY <2>2, <2>3, <2>5 DEF Meter!Window
<1>5. Meter!Tick \/ Meter!SetBack \/ UNCHANGED Meter!vars => Meter!Window'
  BY <1>1, <1>2 DEF Meter!Tick, Meter!SetBack, Meter!vars, Meter!meters
<1> QED BY <1>3, <1>4, <1>5 DEF Meter!Next

LEMMA WindowInit ==
  ASSUME Meter!Init
  PROVE  Meter!Window
<1>1. Meter!Holds([ring |-> <<>>, writeIdx |-> 0], <<>>)
  BY MeterAssumption DEF Meter!Holds
<1> QED BY <1>1 DEF Meter!Init, Meter!Window

(* A snapshot of a histogram shows its newest samples, up to the cap, and  *)
(* percentiles in order, for any cap, any samples and any interleaving of  *)
(* requests: observe and snapshot of MetricsImpl.                          *)
THEOREM SnapshotsAreNewest == ObservabilitySpec => []WindowIsNewest
<1> DEFINE I == Meter!Bucket /\ Meter!Accounted /\ Meter!Window
<1>1. ObservabilityInit => I
  BY BucketInit, WindowInit DEF ObservabilityInit
<1>2. I /\ [ObservabilityNext]_<<vars, meterVars, part>> => I'
  BY IsMeterStep, BucketStep, WindowStep
<1>3. I => WindowIsNewest
  <2> SUFFICES ASSUME Meter!Window PROVE Meter!WindowIsNewest
    BY DEF WindowIsNewest
  <2> SUFFICES ASSUME NEW ok \in BOOLEAN
               PROVE  LET ring == histogram[ok].ring
                          next == histogram[ok].writeIdx
                          count == Len(observed[ok])
                          sorted == Meter!Ascending(ring)
                          p(q) == Meter!Percentile(sorted, q) IN
                      /\ SubSeq(ring, next + 1, Len(ring)) \o SubSeq(ring, 1, next)
                         = SubSeq(observed[ok], count - Len(ring) + 1, count)
                      /\ Len(ring) = IF count < Cap THEN count ELSE Cap
                      /\ ring # <<>> => /\ p(0) <= p(50) /\ p(50) <= p(95)
                                        /\ p(95) <= p(99) /\ p(99) <= p(100)
    BY DEF Meter!WindowIsNewest
  <2> DEFINE h == histogram[ok]
             seen == observed[ok]
             c == Len(seen)
             ring == h.ring
             n == Len(ring)
             w == h.writeIdx
             t == Meter!Ascending(ring)
  <2>1. Meter!Holds(h, seen)
    BY DEF Meter!Window
  <2> HIDE DEF h, seen
  <2>2. /\ seen \in Seq(Int) /\ ring \in Seq(Int) /\ w \in 0 .. Cap - 1
        /\ n = IF c < Cap THEN c ELSE Cap
    BY <2>1 DEF Meter!Holds
  <2>3. SubSeq(ring, w + 1, n) \o SubSeq(ring, 1, w) = SubSeq(seen, c - n + 1, c)
    BY <2>1, ReadsNewest
  <2>4. ASSUME ring # <<>>, NEW p \in 0 .. 100, NEW q \in 0 .. 100, p <= q
        PROVE  Meter!Percentile(t, p) <= Meter!Percentile(t, q)
    BY <2>2, <2>4, PercentilesInOrder
  <2> HIDE DEF t
  <2>5. ring # <<>> => /\ Meter!Percentile(t, 0) <= Meter!Percentile(t, 50)
                       /\ Meter!Percentile(t, 50) <= Meter!Percentile(t, 95)
                       /\ Meter!Percentile(t, 95) <= Meter!Percentile(t, 99)
                       /\ Meter!Percentile(t, 99) <= Meter!Percentile(t, 100)
    BY <2>4
  <2> QED BY <2>2, <2>3, <2>5 DEF h, seen, t
<1> QED BY <1>1, <1>2, <1>3, PTL DEF ObservabilitySpec
=============================================================================
