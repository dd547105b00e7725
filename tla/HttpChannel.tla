---------------------------- MODULE HttpChannel -----------------------------
(***************************************************************************)
(* HttpChannel (src/src/channels/http.ts): a request becomes a prompt sent *)
(* from a mailbox of its own; the reply to that mailbox, or a timer,       *)
(* answers the request.  stop() lets the requests under way be answered.   *)
(*                                                                         *)
(* The bus is synchronous (src/src/agents/message-bus.ts): the agent gets  *)
(* the prompt within dispatch, and may answer at once, later, more than    *)
(* once, or never; a subscriber that throws makes bus.send throw.  The     *)
(* caller awaits start() and stop() before it calls the next of them, and  *)
(* start() is one step.                                                    *)
(***************************************************************************)
EXTENDS Naturals, Sequences, SequencesExt

CONSTANTS
    Requests,    \* HTTP requests, each sent at most once
    MaxReplies   \* bound of the model: replies to one prompt

VARIABLES
    server,      \* "down", "up", "closing"
    conn,        \* where each request is
    gone,        \* the requests whose client has hung up
    counter,     \* this.counter
    mailbox,     \* fromId of each request, its number; 0 before dispatch
    subscribed,  \* the requests whose subscription is on the bus
    armed,       \* the requests whose timer runs
    settled,     \* the requests whose flag is set
    asked,       \* history: the prompts the agent got, and its replies
    writes,      \* history: the answers writeJson was given for each request
    threw        \* history: the requests whose bus.send threw

vars == <<server, conn, gone, counter, mailbox, subscribed, armed, settled,
          asked, writes, threw>>

Statuses == {200, 400, 404, 500, 504}

(* An answer, and the request it is the answer of.                         *)
Answer(status, r) == [status |-> status, of |-> r]

Init ==
    /\ server = "down"
    /\ conn = [r \in Requests |-> "none"]
    /\ gone = {}
    /\ counter = 0
    /\ mailbox = [r \in Requests |-> 0]
    /\ subscribed = {} /\ armed = {} /\ settled = {}
    /\ asked = [r \in Requests |-> 0]
    /\ writes = [r \in Requests |-> <<>>]
    /\ threw = {}

closureVars == <<mailbox, subscribed, armed, settled, asked, threw>>
-----------------------------------------------------------------------------
Start ==
    /\ server = "down"
    /\ server' = "up"
    /\ UNCHANGED <<conn, gone, counter, writes, closureVars>>

(* stop(): no new requests; close() calls back once no connection is left. *)
Stop ==
    /\ server = "up"
    /\ server' = "closing"
    /\ UNCHANGED <<conn, gone, counter, writes, closureVars>>

Closes ==
    /\ server = "closing"
    /\ \A r \in Requests : conn[r] \in {"none", "answered"} \/ r \in gone
    /\ server' = "down"
    /\ UNCHANGED <<conn, gone, counter, writes, closureVars>>

(* handleRequest: 404 at once, or the body is read.                        *)
Accept(r) ==
    /\ server = "up" /\ conn[r] = "none"
    /\ \/ /\ conn' = [conn EXCEPT ![r] = "answered"]
          /\ writes' = [writes EXCEPT ![r] = <<Answer(404, r)>>]
       \/ /\ conn' = [conn EXCEPT ![r] = "reading"]
          /\ UNCHANGED writes
    /\ UNCHANGED <<server, gone, counter, closureVars>>

(* A client hangs up; nothing in the channel listens to that but the body. *)
HangUp(r) ==
    /\ conn[r] \in {"reading", "open"}
    /\ gone' = gone \cup {r}
    /\ UNCHANGED <<server, conn, counter, writes, closureVars>>

(* The body is not JSON, has no prompt, or could not be read.              *)
BadBody(r) ==
    /\ conn[r] = "reading"
    /\ conn' = [conn EXCEPT ![r] = "answered"]
    /\ writes' = [writes EXCEPT ![r] = <<Answer(400, r)>>]
    /\ UNCHANGED <<server, gone, counter, closureVars>>

(* Variant: the counter does not move on.                                  *)
Dispatch_SameMailbox(r) ==
    /\ conn[r] = "reading" /\ r \notin gone
    /\ mailbox' = [mailbox EXCEPT ![r] = counter + 1]
    /\ subscribed' = subscribed \cup {r} /\ armed' = armed \cup {r}
    /\ asked' = [asked EXCEPT ![r] = 1]
    /\ conn' = [conn EXCEPT ![r] = "open"]
    /\ UNCHANGED <<server, gone, counter, settled, threw, writes>>

(* Variant: no timer.                                                      *)
Dispatch_NoTimer(r) ==
    /\ conn[r] = "reading" /\ r \notin gone
    /\ counter' = counter + 1
    /\ mailbox' = [mailbox EXCEPT ![r] = counter + 1]
    /\ subscribed' = subscribed \cup {r}
    /\ asked' = [asked EXCEPT ![r] = 1]
    /\ conn' = [conn EXCEPT ![r] = "open"]
    /\ UNCHANGED <<server, gone, armed, settled, threw, writes>>

(* dispatch: a mailbox, its subscription, the timer, and the prompt.  When *)
(* bus.send throws, the catch of handleRequest answers 400 and leaves the  *)
(* subscription and the timer as they are.                                 *)
Dispatch(r) ==
    /\ conn[r] = "reading" /\ r \notin gone
    /\ counter' = counter + 1
    /\ mailbox' = [mailbox EXCEPT ![r] = counter + 1]
    /\ subscribed' = subscribed \cup {r}
    /\ armed' = armed \cup {r}
    /\ \/ /\ asked' = [asked EXCEPT ![r] = 1]
          /\ conn' = [conn EXCEPT ![r] = "open"]
          /\ UNCHANGED <<threw, writes>>
       \/ /\ \E n \in {0, 1} : asked' = [asked EXCEPT ![r] = n]
          /\ threw' = threw \cup {r}
          /\ conn' = [conn EXCEPT ![r] = "answered"]
          /\ writes' = [writes EXCEPT ![r] = <<Answer(400, r)>>]
    /\ UNCHANGED <<server, gone, settled>>
-----------------------------------------------------------------------------
(* Settle the requests in R: flag, timer, subscription and answer.         *)
Finish(R, answer) ==
    /\ settled' = settled \cup R
    /\ armed' = armed \ R
    /\ subscribed' = subscribed \ R
    /\ conn' = [r \in Requests |-> IF r \in R THEN "answered" ELSE conn[r]]
    /\ writes' = [r \in Requests |-> IF r \in R THEN Append(writes[r], answer) ELSE writes[r]]

(* The agent answers the prompt of request q: every subscription of the    *)
(* mailbox that is not settled takes it for its own answer.                *)
Reply(q, status) ==
    /\ asked[q] \in 1 .. MaxReplies
    /\ asked' = [asked EXCEPT ![q] = @ + 1]
    /\ Finish({r \in subscribed \ settled : mailbox[r] = mailbox[q]}, Answer(status, q))
    /\ UNCHANGED <<server, gone, counter, mailbox, threw>>

(* Variant: the subscription outlives the timeout.                         *)
TimerFires_StaysSubscribed(r) ==
    /\ r \in armed \ settled
    /\ armed' = armed \ {r}
    /\ conn' = [conn EXCEPT ![r] = "answered"]
    /\ writes' = [writes EXCEPT ![r] = Append(@, Answer(504, r))]
    /\ UNCHANGED <<server, gone, counter, mailbox, subscribed, settled, asked,
                   threw>>

TimerFires(r) ==
    /\ r \in armed \ settled
    /\ Finish({r}, Answer(504, r))
    /\ UNCHANGED <<server, gone, counter, mailbox, asked, threw>>

Next ==
    \/ Start \/ Stop \/ Closes
    \/ \E r \in Requests :
         \/ Accept(r) \/ HangUp(r) \/ BadBody(r) \/ Dispatch(r) \/ TimerFires(r)
         \/ \E status \in {200, 500} : Reply(r, status)

Spec == Init /\ [][Next]_vars

(* Timers fire, and close() calls back.                                    *)
Fairness == WF_vars(Closes) /\ \A r \in Requests : WF_vars(TimerFires(r))

FairSpec == Spec /\ Fairness
-----------------------------------------------------------------------------
TypeOK ==
    /\ server \in {"down", "up", "closing"}
    /\ conn \in [Requests -> {"none", "reading", "open", "answered"}]
    /\ gone \subseteq Requests
    /\ counter \in Nat
    /\ mailbox \in [Requests -> 0 .. counter]
    /\ subscribed \subseteq Requests
    /\ armed \subseteq Requests
    /\ settled \subseteq Requests
    /\ asked \in [Requests -> Nat]
    /\ writes \in [Requests -> Seq([status : Statuses, of : Requests])]
    /\ threw \subseteq Requests

(* A request is answered at most once and with the reply to its own        *)
(* prompt, whatever a late reply, a second reply and the timer do.  The    *)
(* exception is a prompt whose bus.send threw after the subscription was   *)
(* made: it is answered again later.                                       *)
OneAnswer ==
    \A r \in Requests :
        /\ r \notin threw => Len(writes[r]) <= 1
        /\ \A i \in 1 .. Len(writes[r]) : writes[r][i].of = r

(* An answered request leaves neither a subscription nor a timer behind,   *)
(* and a request that has not been answered has both.                      *)
NothingLeftBehind ==
    /\ subscribed = armed
    /\ subscribed \cap settled = {}
    /\ \A r \in Requests \ threw : r \in armed <=> conn[r] = "open"

(* What makes both inductive: each mailbox is that of one request, nothing *)
(* is made for a request before its prompt is dispatched, and what has been *)
(* written for it follows from where it is.                                *)
RequestsApart ==
    /\ \A r, q \in Requests : mailbox[r] = mailbox[q] /\ mailbox[r] # 0 => r = q
    /\ \A r \in Requests :
          /\ asked[r] > 0 \/ r \in subscribed => mailbox[r] # 0
          /\ conn[r] \in {"none", "reading"} =>
               mailbox[r] = 0 /\ r \notin threw \cup settled
          /\ r \notin threw => Len(writes[r]) = IF conn[r] = "answered" THEN 1 ELSE 0

HttpInv == TypeOK /\ RequestsApart /\ OneAnswer /\ NothingLeftBehind

(* A prompt that was dispatched is answered, whatever the agent does.      *)
PromptsAreAnswered == \A r \in Requests : conn[r] = "open" ~> conn[r] = "answered"
=============================================================================
