------------------------------ MODULE FileSink ------------------------------
(***************************************************************************)
(* FileSink (src/src/obs/file-sink.ts): a Writable that appends chunks to  *)
(* a file and, when the next chunk would not fit, ends the file's stream   *)
(* and moves the file down a chain of names, one awaited call at a time.   *)
(*                                                                         *)
(* Node's Writable hands over one chunk at a time, in order, and waits for *)
(* its callback.  An empty file and a file that is not there are the same  *)
(* here: only path itself can be empty, and it is not rotated when it is.  *)
(* An error of the stream itself has no listener and ends the process; a   *)
(* chunk that a crash leaves half written is not told from one that is not *)
(* there.                                                                  *)
(***************************************************************************)
EXTENDS Integers, Sequences, FiniteSets

CONSTANTS
    MaxChunks,   \* bound of the model: chunks given to sinks, numbered in order
    Size,        \* the length of each chunk
    MaxBytes,    \* this.maxBytes
    MaxFiles,    \* this.maxFiles
    MaxRestarts  \* bound of the model: how often the process starts again

ASSUME SinkAssumption ==
    /\ MaxChunks \in Nat
    /\ Size \in [1 .. MaxChunks -> Nat \ {0}]
    /\ MaxBytes \in Nat
    /\ MaxFiles \in Nat \ {0}
    /\ MaxRestarts \in Nat

VARIABLES
    state,     \* what has become of each chunk
    file,      \* file[0] is path, file[i] is path.i
    pc,        \* what the sink is doing
    at,        \* the i of the rename that is next
    current,   \* the chunk _write was called with, 0 if none
    bytes,     \* this.bytes
    ended,     \* end() was called
    tears,     \* history: how many rotations were cut short
    restarts   \* history: how often the process started again

vars == <<state, file, pc, at, current, bytes, ended, tears, restarts>>

Chunks == 1 .. MaxChunks
LastSlot == MaxFiles - 1
Slots == 0 .. LastSlot
Empty == [chunks |-> <<>>, size |-> 0]
Queued == {c \in Chunks : state[c] = "queued"}
Held(f) == {f.chunks[n] : n \in 1 .. Len(f.chunks)}

Up == {"idle", "ending", "unlinking", "renaming", "writing", "landed", "closing"}

Init ==
    /\ state = [c \in Chunks |-> "new"]
    /\ file = [i \in Slots |-> Empty]
    /\ pc = "idle"
    /\ at = -1
    /\ current = 0
    /\ bytes = 0
    /\ ended = FALSE
    /\ tears = 0 /\ restarts = 0
-----------------------------------------------------------------------------
(* write(): the Writable buffers the chunk; a destroyed one loses it.      *)
Submit(c) ==
    /\ pc \in Up \cup {"dead"} /\ ~ended
    /\ state[c] = "new" /\ \A d \in Chunks : d < c => state[d] # "new"
    /\ state' = [state EXCEPT ![c] = IF pc = "dead" THEN "lost" ELSE "queued"]
    /\ UNCHANGED <<file, pc, at, current, bytes, ended, tears, restarts>>

End ==
    /\ pc \in Up /\ ~ended
    /\ ended' = TRUE
    /\ UNCHANGED <<state, file, pc, at, current, bytes, tears, restarts>>

(* bytes > 0 && bytes + length > maxBytes asks for a rotation.             *)
Fits(c) == bytes = 0 \/ bytes + Size[c] <= MaxBytes

(* _write: the chunk goes to the stream, or a rotation goes before it.     *)
TakeChunk ==
    /\ pc = "idle" /\ Queued # {}
    /\ \E c \in Queued :
         /\ \A d \in Queued : c <= d
         /\ current' = c
         /\ IF Fits(c)
            THEN pc' = "writing" /\ bytes' = bytes + Size[c]
            ELSE pc' = "ending" /\ UNCHANGED bytes
    /\ UNCHANGED <<state, file, at, ended, tears, restarts>>

(* rotate: the stream has closed.                                          *)
StreamEnds ==
    /\ pc = "ending"
    /\ pc' = "unlinking"
    /\ UNCHANGED <<state, file, at, current, bytes, ended, tears, restarts>>

(* The last name of the chain is unlinked, path itself if it is the only.  *)
Unlink ==
    /\ pc = "unlinking"
    /\ file' = [file EXCEPT ![LastSlot] = Empty]
    /\ pc' = "renaming"
    /\ at' = LastSlot - 1
    /\ UNCHANGED <<state, current, bytes, ended, tears, restarts>>

(* Variant: the file is copied.                                            *)
Rename_Copies ==
    /\ pc = "renaming" /\ at >= 0
    /\ file' = IF file[at] = Empty THEN file ELSE [file EXCEPT ![at + 1] = file[at]]
    /\ at' = at - 1
    /\ UNCHANGED <<state, pc, current, bytes, ended, tears, restarts>>

(* A file moves up one name; one that is not there is passed over.         *)
Rename ==
    /\ pc = "renaming" /\ at >= 0
    /\ file' = IF file[at] = Empty THEN file
               ELSE [file EXCEPT ![at + 1] = file[at], ![at] = Empty]
    /\ at' = at - 1
    /\ UNCHANGED <<state, pc, current, bytes, ended, tears, restarts>>

(* A new stream, and the chunk that waited goes to it.                     *)
Reopen ==
    /\ pc = "renaming" /\ at = -1
    /\ bytes' = Size[current]
    /\ pc' = "writing"
    /\ UNCHANGED <<state, file, at, current, ended, tears, restarts>>

(* The bytes are in the file.                                              *)
Land ==
    /\ pc = "writing"
    /\ file' = [file EXCEPT ![0] = [chunks |-> Append(@.chunks, current),
                                    size |-> @.size + Size[current]]]
    /\ state' = [state EXCEPT ![current] = "written"]
    /\ pc' = "landed"
    /\ UNCHANGED <<at, current, bytes, ended, tears, restarts>>

(* The callback of the stream calls that of _write.                        *)
Acknowledge ==
    /\ pc = "landed"
    /\ state' = [state EXCEPT ![current] = "acked"]
    /\ current' = 0
    /\ pc' = "idle"
    /\ UNCHANGED <<file, at, bytes, ended, tears, restarts>>

(* _final, once everything is written: the stream is ended.                *)
Final ==
    /\ pc = "idle" /\ ended /\ Queued = {}
    /\ pc' = "closing"
    /\ UNCHANGED <<state, file, at, current, bytes, ended, tears, restarts>>

Close ==
    /\ pc = "closing"
    /\ pc' = "closed"
    /\ UNCHANGED <<state, file, at, current, bytes, ended, tears, restarts>>
-----------------------------------------------------------------------------
(* What is not written is lost, and a rotation under way is torn.          *)
Break ==
    /\ state' = [c \in Chunks |-> IF c \in Queued THEN "lost" ELSE state[c]]
    /\ current' = 0
    /\ at' = -1
    /\ tears' = IF pc = "renaming" THEN tears + 1 ELSE tears
    /\ UNCHANGED <<file, bytes, restarts>>

(* Variant: nobody is told.                                                *)
RotationFails_Unreported ==
    /\ pc \in {"ending", "unlinking", "renaming"}
    /\ pc' = "dead"
    /\ UNCHANGED <<state, file, at, current, bytes, ended, tears, restarts>>

(* A call of rotate() fails, and not for want of the file: cb(error)       *)
(* destroys the Writable.  Where nobody listens for its error the process  *)
(* ends, which is Crash.                                                   *)
RotationFails ==
    /\ pc \in {"ending", "unlinking", "renaming"}
    /\ Break
    /\ pc' = "dead"
    /\ UNCHANGED ended

(* The process ends, in whatever state the sink is.                        *)
Crash ==
    /\ pc # "down"
    /\ Break
    /\ pc' = "down"
    /\ ended' = FALSE

(* Variant: the counter starts at zero.                                    *)
Restart_CountsFromZero ==
    /\ pc = "down" /\ restarts < MaxRestarts
    /\ pc' = "idle"
    /\ bytes' = 0
    /\ restarts' = restarts + 1
    /\ UNCHANGED <<state, file, at, current, ended, tears>>

(* The constructor: the file is opened for appending, with what it has.    *)
Restart ==
    /\ pc = "down" /\ restarts < MaxRestarts
    /\ pc' = "idle"
    /\ bytes' = file[0].size
    /\ restarts' = restarts + 1
    /\ UNCHANGED <<state, file, at, current, ended, tears>>

Next ==
    \/ \E c \in Chunks : Submit(c)
    \/ End \/ TakeChunk \/ StreamEnds \/ Unlink \/ Rename \/ Reopen \/ Land
    \/ Acknowledge \/ Final \/ Close \/ RotationFails \/ Crash \/ Restart

Spec == Init /\ [][Next]_vars

(* Calls to the file system return, one way or the other.                  *)
Fairness ==
    /\ WF_vars(TakeChunk) /\ WF_vars(StreamEnds) /\ WF_vars(Unlink)
    /\ WF_vars(Rename) /\ WF_vars(Reopen) /\ WF_vars(Land)
    /\ WF_vars(Acknowledge) /\ WF_vars(Final) /\ WF_vars(Close)

FairSpec == Spec /\ Fairness
-----------------------------------------------------------------------------
Files == [chunks : Seq(Chunks), size : Nat]

TypeOK ==
    /\ state \in [Chunks -> {"new", "queued", "written", "acked", "lost"}]
    /\ file \in [Slots -> Files]
    /\ pc \in Up \cup {"dead", "closed", "down"}
    /\ at \in -1 .. LastSlot - 1
    /\ current \in Chunks \cup {0}
    /\ bytes \in Nat
    /\ ended \in BOOLEAN
    /\ tears \in Nat
    /\ restarts \in Nat

(* Reading the files from path.last to path, whatever rotations, crashes   *)
(* and restarts came between, one reads the chunks in the order in which   *)
(* they were written, none of them twice.                                  *)
ReadsInOrder ==
    \A i, j \in Slots :
        \A m \in 1 .. Len(file[i].chunks), n \in 1 .. Len(file[j].chunks) :
            i > j \/ (i = j /\ m < n) => file[i].chunks[m] < file[j].chunks[n]

(* The chunk in _write is the first that is not written, and it is not in  *)
(* a file; chunks are given to the sink in the order of their numbers.     *)
Busy == {"ending", "unlinking", "renaming", "writing", "landed"}
FirstComesFirst ==
    /\ current \in Chunks <=> pc \in Busy
    /\ pc \in Busy \ {"landed"} => current \in Queued /\ \A d \in Queued : current <= d
    /\ pc = "landed" => state[current] = "written"
    /\ \A c, d \in Chunks : state[c] # "new" /\ d < c => state[d] # "new"
    /\ \A i \in Slots : \A d \in Held(file[i]) :
          state[d] # "new" /\ \A c \in Queued : d < c

(* this.bytes is the size of path, but while a chunk is on its way to it.  *)
BytesAgree ==
    /\ \A i \in Slots : file[i].size = 0 <=> file[i].chunks = <<>>
    /\ pc \in Up \ {"renaming", "writing"} => bytes = file[0].size
    /\ pc \in {"ending", "unlinking"} => bytes > 0
    /\ pc = "writing" =>
          /\ bytes = file[0].size + Size[current]
          /\ file[0] = Empty \/ bytes <= MaxBytes

(* The name a file is moved to is free, and path is moved last.            *)
TargetIsFree ==
    pc = "renaming" => /\ file[at + 1] = Empty
                       /\ at >= 0 => file[0] # Empty

(* A rotation moves one gap down the chain of names, and leaves it there   *)
(* when it is cut short.                                                   *)
Gaps(j) == {i \in 1 .. j - 1 : file[i] = Empty}
Moving(j) == IF pc = "renaming" /\ at \in 0 .. j - 2 THEN 1 ELSE 0
GapsAreTears ==
    \A j \in 1 .. LastSlot : file[j] # Empty => Cardinality(Gaps(j)) <= tears + Moving(j)

IInv == TypeOK /\ FirstComesFirst /\ BytesAgree /\ TargetIsFree /\ GapsAreTears /\ ReadsInOrder

(* The sink is a segmented log: every file that is there is a segment.     *)
ContentOf(f) == [chunks |-> Held(f), size |-> f.size]
Used == {i \in Slots : file[i] # Empty}
Segments == {ContentOf(file[i]) : i \in Used}

Log == INSTANCE SegmentedLog WITH segments <- Segments

(* Chunks reach the files one by one in order, each whole and once, in     *)
(* files that do not outgrow maxBytes; the sink gives up only the oldest   *)
(* file, and only when all names are in use or a rotation was cut short.   *)
ImplementsLog == Log!Spec

(* A chunk that was given to the sink does not wait in it for ever.        *)
WritesSettle == \A c \in Chunks : state[c] = "queued" ~> state[c] # "queued"
=============================================================================
