------------------------------ MODULE Channels -------------------------------
(***************************************************************************)
(* The interface Channel (src/src/channels/types.ts) and the two classes   *)
(* that implement it without a terminal: a program makes one of them and   *)
(* starts and stops it.  Of the other nothing ever happens.                *)
(***************************************************************************)
EXTENDS FileWatch

CONSTANTS Requests, MaxReplies  \* those of HttpChannel

ASSUME HttpAssumption == MaxReplies \in Nat

VARIABLES
    id,  \* this.id: "file-watch" or "http"
    server, conn, gone, counter, mailbox, subscribed, armed, settled, asked,
    writes, threw  \* those of HttpChannel

Http == INSTANCE HttpChannel

httpVars == <<server, conn, gone, counter, mailbox, subscribed, armed, settled,
              asked, writes, threw>>

ChannelInit == Init /\ Http!Init /\ id \in {"file-watch", "http"}

ChannelNext ==
    \/ id = "file-watch" /\ Next /\ UNCHANGED <<httpVars, id>>
    \/ id = "http" /\ Http!Next /\ UNCHANGED <<vars, id>>

ChannelSpec ==
    /\ ChannelInit /\ [][ChannelNext]_<<vars, httpVars, id>>
    /\ Fairness /\ Http!Fairness
-----------------------------------------------------------------------------
(* A request is answered at most once and with the reply to its own        *)
(* prompt, whatever late replies, second replies and the timer do.         *)
OneAnswer == Http!OneAnswer

(* An answered request leaves neither a subscription nor a timer behind.   *)
NothingLeftBehind == Http!NothingLeftBehind

(* A prompt that was dispatched is answered, whatever the agent does.      *)
PromptsAreAnswered == Http!PromptsAreAnswered
=============================================================================
