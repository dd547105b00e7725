----------------------------- MODULE FileWatch ------------------------------
(***************************************************************************)
(* FileWatchChannel (src/src/channels/file-watch.ts): a timer polls the    *)
(* input file, each poll awaits a stat and a read, and the lines the read  *)
(* completes are sent as prompts.  Replies are appended to the output file *)
(* without being awaited.  stop() closes both files, and an open file      *)
(* waits with its close for the calls that are still out.                  *)
(*                                                                         *)
(* The caller awaits start() and stop() before it calls the next of them,  *)
(* and nothing can be observed of start() before it ends: it is one step.  *)
(***************************************************************************)
EXTENDS Naturals, Sequences, SequencesExt

CONSTANTS
    Bytes,      \* the bytes writers append: "nl", ASCII, and "u1" "u2", the
                \* two bytes of one character
    Replies,    \* replies for the output file
    Polls,      \* slots for polls; the code should use one at a time
    MaxFile,    \* bound of the model: the input file grows no longer
    MaxStarts   \* bound of the model: how often the channel is started

ASSUME FileWatchAssumption ==
    /\ "nl" \in Bytes
    /\ MaxFile \in Nat
    /\ MaxStarts \in Nat

VARIABLES
    file,       \* the input file
    truncated,  \* history: it was cut short since start()
    phase,      \* "stopped", "watching", "closing in", "closing out"
    offset,     \* this.offset
    residual,   \* this.residual
    polling,    \* this.polling
    poll,       \* where each poll is, and the piece of the file it asked for
    unhandled,  \* a poll was rejected, and nobody listens
    prompts,    \* history: the lines the channel has come to since start()
    lost,       \* history: which of them were not sent, as the one before threw
    from,       \* history: where start() sought to
    starts,     \* history: how often the channel was started
    pending,    \* replies given to appendFile
    out         \* the output file

vars == <<file, truncated, phase, offset, residual, polling, poll, unhandled,
          prompts, lost, from, starts, pending, out>>
readVars == <<offset, residual, polling, poll, unhandled, prompts>>
replyVars == <<pending, out>>
historyVars == <<truncated, lost, from, starts>>

NoPoll == [pc |-> "idle", at |-> 0, length |-> 0]
Idle == \A s \in Polls : poll[s] = NoPoll

Init ==
    /\ file = <<>> /\ truncated = FALSE
    /\ phase = "stopped"
    /\ offset = 0 /\ residual = <<>>
    /\ polling = FALSE /\ poll = [s \in Polls |-> NoPoll]
    /\ unhandled = FALSE
    /\ prompts = <<>> /\ lost = {} /\ from = 0 /\ starts = 0
    /\ pending = {} /\ out = <<>>
-----------------------------------------------------------------------------
(* Buffer.toString("utf8"): half a character becomes U+FFFD, here "?".     *)
Symbol(bytes, i) ==
    CASE bytes[i] = "u1" /\ i < Len(bytes) /\ bytes[i + 1] = "u2" -> <<"U">>
      [] bytes[i] = "u2" /\ i > 1 /\ bytes[i - 1] = "u1" -> <<>>
      [] OTHER -> IF bytes[i] \in {"u1", "u2"} THEN <<"?">> ELSE <<bytes[i]>>
Text(bytes) == FlattenSeq([i \in 1 .. Len(bytes) |-> Symbol(bytes, i)])

(* Variant: the text behind a newline keeps it.                            *)
Split_KeepsNewline(text) ==
    FoldLeft(LAMBDA acc, c :
                 IF c = "nl" THEN [lines |-> Append(acc.lines, acc.rest), rest |-> <<c>>]
                 ELSE [acc EXCEPT !.rest = Append(@, c)],
             [lines |-> <<>>, rest |-> <<>>], text)

(* split("\n") and pop: the complete lines, and the text behind them.      *)
Split(text) ==
    FoldLeft(LAMBDA acc, c :
                 IF c = "nl" THEN [lines |-> Append(acc.lines, acc.rest), rest |-> <<>>]
                 ELSE [acc EXCEPT !.rest = Append(@, c)],
             [lines |-> <<>>, rest |-> <<>>], text)
-----------------------------------------------------------------------------
(* Other programs write the input file.                                    *)
Grow(b) ==
    /\ Len(file) < MaxFile
    /\ file' = Append(file, b)
    /\ UNCHANGED <<phase, readVars, replyVars, historyVars>>

Truncate ==
    /\ file # <<>>
    /\ file' = <<>>
    /\ truncated' = TRUE
    /\ UNCHANGED <<phase, readVars, replyVars, lost, from, starts>>

Start ==
    /\ phase = "stopped" /\ starts < MaxStarts
    /\ phase' = "watching"
    /\ offset' = Len(file)
    /\ from' = Len(file) /\ truncated' = FALSE /\ starts' = starts + 1
    /\ prompts' = <<>> /\ lost' = {}
    /\ UNCHANGED <<file, residual, polling, poll, unhandled, replyVars>>
-----------------------------------------------------------------------------
(* Variant: polls may overlap.                                             *)
PollStarts_Overlaps(s) ==
    /\ phase = "watching" /\ poll[s] = NoPoll
    /\ polling' = TRUE
    /\ poll' = [poll EXCEPT ![s].pc = "stat"]
    /\ UNCHANGED <<file, phase, offset, residual, unhandled, prompts,
                   replyVars, historyVars>>

(* The timer calls poll(): one at a time, and none after stop().           *)
PollStarts(s) ==
    /\ phase = "watching" /\ ~polling /\ poll[s] = NoPoll
    /\ polling' = TRUE
    /\ poll' = [poll EXCEPT ![s].pc = "stat"]
    /\ UNCHANGED <<file, phase, offset, residual, unhandled, prompts,
                   replyVars, historyVars>>

(* The read of what the file has behind the offset.                        *)
Read == [pc |-> "read", at |-> offset, length |-> Len(file) - offset]

(* Variant: a poll that finds nothing keeps the flag.                      *)
StatReturns_KeepsFlag(s) ==
    /\ poll[s].pc = "stat"
    /\ poll' = [poll EXCEPT ![s] = IF Len(file) > offset THEN Read ELSE NoPoll]
    /\ UNCHANGED <<file, phase, offset, residual, polling, unhandled, prompts,
                   replyVars, historyVars>>

(* The stat is there: nothing new, or the read begins; on a file that is   *)
(* being closed the read is rejected.                                      *)
StatReturns(s) ==
    /\ poll[s].pc = "stat"
    /\ \/ /\ Len(file) <= offset
          /\ poll' = [poll EXCEPT ![s] = NoPoll]
          /\ polling' = FALSE
          /\ UNCHANGED unhandled
       \/ /\ Len(file) > offset /\ phase = "watching"
          /\ poll' = [poll EXCEPT ![s] = Read]
          /\ UNCHANGED <<polling, unhandled>>
       \/ /\ Len(file) > offset /\ phase # "watching"
          /\ poll' = [poll EXCEPT ![s] = NoPoll]
          /\ polling' = FALSE
          /\ unhandled' = TRUE
    /\ UNCHANGED <<file, phase, offset, residual, prompts, replyVars, historyVars>>

(* What the read finds at its position, if the file was cut short nothing. *)
Found(s) ==
    LET end == poll[s].at + poll[s].length IN
    SubSeq(file, poll[s].at + 1, IF end < Len(file) THEN end ELSE Len(file))

(* Variant: the lines are sent whether the channel was stopped or not.     *)
ReadReturns_Sends(s) ==
    LET bytes == Found(s)
        chunk == Split(residual \o Text(bytes)) IN
    /\ poll[s].pc = "read"
    /\ poll' = [poll EXCEPT ![s] = NoPoll]
    /\ polling' = FALSE
    /\ offset' = offset + Len(bytes)
    /\ residual' = chunk.rest
    /\ prompts' = prompts \o chunk.lines
    /\ UNCHANGED <<file, phase, unhandled, replyVars, historyVars>>

(* The read is there: the offset moves, the residual is what follows the   *)
(* last newline, and the lines are sent unless the channel was stopped,    *)
(* which a subscriber may do while it gets one of them.  One that throws   *)
(* makes send throw, so that the lines behind are lost and the poll is     *)
(* rejected.                                                               *)
ReadReturns(s) ==
    LET bytes == Found(s)
        chunk == Split(residual \o Text(bytes))
        lines == IF bytes = <<>> THEN <<>> ELSE chunk.lines IN
    /\ poll[s].pc = "read"
    /\ poll' = [poll EXCEPT ![s] = NoPoll]
    /\ polling' = FALSE
    /\ offset' = offset + Len(bytes)
    /\ residual' = IF bytes = <<>> THEN residual ELSE chunk.rest
    /\ \/ /\ phase = "watching"
          /\ prompts' = prompts \o lines
          /\ UNCHANGED <<phase, lost, unhandled>>
       \/ /\ phase = "watching"
          /\ \E k \in 1 .. Len(lines) : prompts' = prompts \o SubSeq(lines, 1, k)
          /\ phase' = "closing in"
          /\ unhandled' \in {unhandled, TRUE}
          /\ UNCHANGED lost
       \/ /\ phase = "watching"
          /\ \E k \in 1 .. Len(lines) :
                lost' = lost \cup {Len(prompts) + j : j \in k + 1 .. Len(lines)}
          /\ prompts' = prompts \o lines
          /\ unhandled' = TRUE
          /\ UNCHANGED phase
       \/ /\ phase # "watching"
          /\ UNCHANGED <<phase, prompts, lost, unhandled>>
    /\ UNCHANGED <<file, truncated, from, starts, replyVars>>
-----------------------------------------------------------------------------
(* handleReply: a reply of the bus goes to appendFile; the writes land in  *)
(* any order.                                                              *)
Reply(r) ==
    /\ phase = "watching"
    /\ r \notin pending \cup ToSet(out)
    /\ pending' = pending \cup {r}
    /\ UNCHANGED <<file, phase, readVars, out, historyVars>>

WriteLands(r) ==
    /\ r \in pending
    /\ pending' = pending \ {r}
    /\ out' = Append(out, r)
    /\ UNCHANGED <<file, phase, readVars, historyVars>>

(* stop(): no timer and no subscription any more; then the two closes.     *)
Stop ==
    /\ phase = "watching"
    /\ phase' = "closing in"
    /\ UNCHANGED <<file, readVars, replyVars, historyVars>>

InCloses ==
    /\ phase = "closing in" /\ Idle
    /\ phase' = "closing out"
    /\ UNCHANGED <<file, readVars, replyVars, historyVars>>

OutCloses ==
    /\ phase = "closing out" /\ pending = {}
    /\ phase' = "stopped"
    /\ offset' = 0 /\ residual' = <<>>
    /\ UNCHANGED <<file, polling, poll, unhandled, prompts, replyVars, historyVars>>

Next ==
    \/ \E b \in Bytes : Grow(b)
    \/ Truncate \/ Start \/ Stop \/ InCloses \/ OutCloses
    \/ \E s \in Polls : PollStarts(s) \/ StatReturns(s) \/ ReadReturns(s)
    \/ \E r \in Replies : Reply(r) \/ WriteLands(r)

Spec == Init /\ [][Next]_vars

(* The timer fires, file operations return, close() calls resolve.         *)
Fairness ==
    /\ WF_vars(\E s \in Polls : PollStarts(s))
    /\ \A s \in Polls : WF_vars(StatReturns(s)) /\ WF_vars(ReadReturns(s))
    /\ \A r \in Replies : WF_vars(WriteLands(r))
    /\ WF_vars(InCloses) /\ WF_vars(OutCloses)

FairSpec == Spec /\ Fairness
-----------------------------------------------------------------------------
Symbols == (Bytes \ {"nl", "u1", "u2"}) \cup {"U", "?"}

TypeOK ==
    /\ file \in Seq(Bytes)
    /\ phase \in {"stopped", "watching", "closing in", "closing out"}
    /\ offset \in Nat
    /\ residual \in Seq(Symbols)
    /\ poll \in [Polls -> [pc : {"idle", "stat", "read"}, at : Nat, length : Nat]]
    /\ {polling, unhandled, truncated} \subseteq BOOLEAN
    /\ prompts \in Seq(Seq(Symbols))
    /\ lost \subseteq Nat
    /\ pending \subseteq Replies
    /\ out \in Seq(Replies)

(* The text appended since start() that the channel has read.              *)
ReadText ==
    Text(SubSeq(file, from + 1, IF offset < Len(file) THEN offset ELSE Len(file)))

(* Each line appended since start() is sent once, whole and in order, and  *)
(* no other: however the writes and the polls cut it into pieces, and      *)
(* whatever an earlier start() had left half read.  Not all are sent if a  *)
(* send threw, but the lines that later polls read are.                    *)
EachLineOnce ==
    phase = "watching" /\ ~truncated =>
        /\ prompts = Split(ReadText).lines
        /\ residual = Split(ReadText).rest
        /\ lost # {} => unhandled

(* Why: one poll at a time is under way, and none once the input file is   *)
(* closed; ...                                                             *)
OnePoll ==
    /\ polling <=> ~Idle
    /\ \A s, q \in Polls : poll[s] # NoPoll /\ poll[q] # NoPoll => s = q
    /\ phase \in {"stopped", "closing out"} => Idle

(* ... as long as the file only grows, a read gives what follows what the  *)
(* channel has read already; and stop() forgets the residual.              *)
ReadsInPlace ==
    /\ from \in Nat
    /\ phase = "stopped" => residual = <<>>
    /\ phase = "watching" /\ ~truncated =>
          /\ from <= offset /\ offset <= Len(file)
          /\ \A s \in Polls : poll[s].pc = "read" =>
                poll[s].at = offset /\ offset + poll[s].length <= Len(file)

FileWatchInv == TypeOK /\ OnePoll /\ ReadsInPlace

(* Once stop() was called no prompt is sent, not even by a poll whose read *)
(* was already out.                                                        *)
NoPromptAfterStop ==
    [][phase # "watching" /\ prompts' # prompts => phase' = "watching"]_vars

(* A line that was appended while the channel watches is sent, or lost     *)
(* behind one whose send threw.                                            *)
LinesArrive ==
    \A n \in 1 .. MaxFile :
        /\ phase = "watching" /\ ~truncated
        /\ Len(Split(Text(SubSeq(file, from + 1, Len(file)))).lines) = n
        ~> phase # "watching" \/ truncated \/ Len(prompts) >= n
=============================================================================
