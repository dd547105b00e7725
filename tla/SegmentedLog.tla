---------------------------- MODULE SegmentedLog ----------------------------
(***************************************************************************)
(* What a rotating log promises its writers: chunks reach it one by one in *)
(* the order they were given, each whole and once, in segments that do not *)
(* outgrow MaxBytes; the log gives up only its oldest segment, as a whole, *)
(* and only when it has no room for another - or had, but for a rotation   *)
(* that was cut short: each of those may cost one segment of room.         *)
(*                                                                         *)
(* A segment is a set of chunks: chunks are numbered in the order in which *)
(* they are given to the log.                                              *)
(***************************************************************************)
EXTENDS Naturals, FiniteSets

CONSTANTS
    MaxChunks,  \* bound of the model: chunks given to the log
    Size,       \* what each chunk measures, in bytes
    MaxBytes,   \* a segment with more than one chunk is no larger
    MaxFiles    \* how many segments the log keeps

VARIABLES
    state,     \* what has become of each chunk
    segments,  \* what the log holds
    tears      \* how many rotations were cut short

Chunks == 1 .. MaxChunks
ChunkStates == {"new", "queued", "written", "acked", "lost"}
Queued == {c \in Chunks : state[c] = "queued"}

Older(s, t) == \A c \in s.chunks, d \in t.chunks : c < d
Oldest(s) == s \in segments /\ \A t \in segments \ {s} : Older(s, t)
Newest(s) == s \in segments /\ \A t \in segments \ {s} : Older(t, s)

Init ==
    /\ state = [c \in Chunks |-> "new"]
    /\ segments = {}
    /\ tears = 0

(* The next chunk is given to the log, which may have to turn it away.     *)
Give(c, outcome) ==
    /\ state[c] = "new" /\ \A d \in Chunks : d < c => state[d] # "new"
    /\ state' = [state EXCEPT ![c] = outcome]
    /\ UNCHANGED <<segments, tears>>

(* The chunk that was given first goes behind all others.                  *)
Write(c) ==
    /\ c \in Queued /\ \A d \in Queued : c <= d
    /\ state' = [state EXCEPT ![c] = "written"]
    /\ \/ \E s \in segments :
            /\ Newest(s)
            /\ s.size + Size[c] <= MaxBytes
            /\ segments' = (segments \ {s}) \cup
                 {[chunks |-> s.chunks \cup {c}, size |-> s.size + Size[c]]}
       \/ /\ Cardinality(segments) < MaxFiles
          /\ segments' = segments \cup {[chunks |-> {c}, size |-> Size[c]]}
    /\ UNCHANGED tears

Acknowledge(c) ==
    /\ state[c] = "written"
    /\ state' = [state EXCEPT ![c] = "acked"]
    /\ UNCHANGED <<segments, tears>>

Drop ==
    /\ Cardinality(segments) + tears >= MaxFiles
    /\ \E s \in segments : Oldest(s) /\ segments' = segments \ {s}
    /\ UNCHANGED <<state, tears>>

(* A failure: what was not written is lost, and a rotation may be torn.    *)
Break ==
    /\ state' = [c \in Chunks |-> IF state[c] = "queued" THEN "lost" ELSE state[c]]
    /\ tears' \in {tears, tears + 1}
    /\ UNCHANGED segments

Next ==
    \/ Drop \/ Break
    \/ \E c \in Chunks :
         \/ Write(c) \/ Acknowledge(c)
         \/ \E outcome \in {"queued", "lost"} : Give(c, outcome)

Spec == Init /\ [][Next]_<<state, segments, tears>>
=============================================================================
