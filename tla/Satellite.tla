----------------------------- MODULE Satellite ------------------------------
(***************************************************************************)
(* Requests of a satellite to its Mac over HTTP: the two clients           *)
(* (src/src/satellite/runtime-client.ts, client.ts) and the two servers    *)
(* (runtime-server.ts, server.ts) behind a network that loses requests and *)
(* connections, and stalls.                                                *)
(*                                                                         *)
(* A request of the runtime client, or of the plain SatelliteClient, may   *)
(* be sent again under the same id, and each attempt is an exchange of its *)
(* own; ping() of the runtime client makes one.  Aborting an attempt does  *)
(* not stop the server.  The clients keep no state between requests.       *)
(* What the clients send is well formed (encodeRequest validates it), so   *)
(* 400 and 404 do not occur.                                               *)
(***************************************************************************)
EXTENDS Naturals, Sequences, SequencesExt

CONSTANTS
    Requests,
    Retries     \* opts.retries of the runtime client

ASSUME SatelliteAssumption == Retries \in Nat

VARIABLES
    sender,     \* who makes each request: "runtime", "ping" or "plain"
    server,     \* which server listens: "runtime" or "stub"
    agreed,     \* both sides have the same secret
    client,     \* where each request is
    seen,       \* what became of its attempts, as the client saw it
    wire,       \* the exchange of each attempt
    result      \* the reply a request returned

vars == <<sender, server, agreed, client, seen, wire, result>>

(* Replies: 200 with the id of the request or with that of another; and    *)
(* 401 and 500, whose bodies carry the id "unknown".                       *)
Replies == {"own", "other", "refused", "broken"}

Exchange == {"unsent", "travelling", "running", "lost"} \cup Replies

(* Variant: retries counted as attempts.                                   *)
Attempts_Retries(r) == [plain |-> 2, ping |-> 1, runtime |-> Retries][sender[r]]

(* Attempts of the plain client, of ping(), and of request().              *)
Attempts(r) == [plain |-> 2, ping |-> 1, runtime |-> Retries + 1][sender[r]]

MostAttempts == 2 + Retries

(* requireAuth of the runtime server wants the signature too, which only   *)
(* the runtime client makes; the stub compares the bearer token.           *)
Authorized(r) == agreed /\ (server = "runtime" => sender[r] # "plain")

Init ==
    /\ sender \in [Requests -> {"runtime", "ping", "plain"}]
    /\ server \in {"runtime", "stub"}
    /\ agreed \in BOOLEAN
    /\ client = [r \in Requests |-> "idle"]
    /\ seen = [r \in Requests |-> <<>>]
    /\ wire = [r \in Requests |-> [k \in 1 .. MostAttempts |-> "unsent"]]
    /\ result = [r \in Requests |-> "none"]

(* The attempt under way.                                                  *)
Current(r) == Len(seen[r]) + 1
-----------------------------------------------------------------------------
(* request() or send(): the first attempt.                                 *)
Send(r) ==
    /\ client[r] = "idle"
    /\ client' = [client EXCEPT ![r] = "waiting"]
    /\ wire' = [wire EXCEPT ![r][1] = "travelling"]
    /\ UNCHANGED <<sender, server, agreed, seen, result>>

(* The loop: the next attempt, or the last error is thrown.                *)
Retry(r, fate) ==
    /\ seen' = [seen EXCEPT ![r] = Append(@, fate)]
    /\ IF Current(r) < Attempts(r)
       THEN /\ client' = [client EXCEPT ![r] = "waiting"]
            /\ wire' = [wire EXCEPT ![r][Current(r) + 1] = "travelling"]
       ELSE /\ client' = [client EXCEPT ![r] = "thrown"]
            /\ UNCHANGED wire
    /\ UNCHANGED <<sender, server, agreed, result>>

Returns(r, reply) ==
    /\ client' = [client EXCEPT ![r] = "returned"]
    /\ result' = [result EXCEPT ![r] = reply]
    /\ seen' = [seen EXCEPT ![r] = Append(@, reply)]
    /\ UNCHANGED <<sender, server, agreed, wire>>

(* A SatelliteProtocolError of the plain client ends its loop.             *)
Throws(r, reply) ==
    /\ client' = [client EXCEPT ![r] = "thrown"]
    /\ seen' = [seen EXCEPT ![r] = Append(@, reply)]
    /\ UNCHANGED <<sender, server, agreed, wire, result>>

(* The connection of the attempt fails, before or after the server has it. *)
ConnectionFails(r) ==
    /\ client[r] \in {"waiting", "reading"}
    /\ Retry(r, "failed")

(* Variant: the plain client clears its timer at the headers as well.      *)
TimesOut_HeadersOnly(r) ==
    /\ client[r] = "waiting"
    /\ Retry(r, "timeout")

(* The timer aborts the attempt.  The runtime client clears it once the    *)
(* headers are there, the plain client once the body is.                   *)
TimesOut(r) ==
    /\ client[r] = "waiting" \/ (client[r] = "reading" /\ sender[r] = "plain")
    /\ Retry(r, "timeout")

(* The headers: 5xx is retried by request(), and ping() looks at nothing   *)
(* else than the status.                                                   *)
HeadersArrive(r) ==
    LET reply == wire[r][Current(r)] IN
    /\ client[r] = "waiting"
    /\ reply \in Replies
    /\ CASE sender[r] = "runtime" /\ reply = "broken" -> Retry(r, "broken")
         [] sender[r] = "ping" -> Returns(r, reply)
         [] OTHER -> /\ client' = [client EXCEPT ![r] = "reading"]
                     /\ UNCHANGED <<sender, server, agreed, seen, wire, result>>

(* Variant: a refusal is sent again.                                       *)
BodyArrives_RetriesRefusal(r) ==
    LET reply == wire[r][Current(r)] IN
    /\ client[r] = "reading"
    /\ IF reply = "refused" THEN Retry(r, reply) ELSE Returns(r, reply)

(* The body is decoded; the plain client compares the id.                  *)
BodyArrives(r) ==
    LET reply == wire[r][Current(r)] IN
    /\ client[r] = "reading"
    /\ IF sender[r] = "plain" /\ reply # "own" THEN Throws(r, reply) ELSE Returns(r, reply)
-----------------------------------------------------------------------------
(* The server gets a request, also one whose attempt was given up since.   *)
Receive(r, k) ==
    /\ wire[r][k] = "travelling"
    /\ wire' = [wire EXCEPT ![r][k] =
                  IF ~Authorized(r) THEN "refused"
                  ELSE IF server = "runtime" THEN "running" ELSE "own"]
    /\ UNCHANGED <<sender, server, agreed, client, seen, result>>

(* The handler answers; 500 is a handler that threw or an answer that      *)
(* encodeResponse does not let pass.  It may as well never settle.         *)
Handle(r, k) ==
    /\ wire[r][k] = "running"
    /\ \E reply \in {"own", "other", "broken"} :
         wire' = [wire EXCEPT ![r][k] = reply]
    /\ UNCHANGED <<sender, server, agreed, client, seen, result>>

(* A request gets lost on its way.                                         *)
Lose(r, k) ==
    /\ wire[r][k] = "travelling"
    /\ wire' = [wire EXCEPT ![r][k] = "lost"]
    /\ UNCHANGED <<sender, server, agreed, client, seen, result>>

Next == \E r \in Requests :
    \/ Send(r) \/ ConnectionFails(r) \/ TimesOut(r) \/ HeadersArrive(r) \/ BodyArrives(r)
    \/ \E k \in 1 .. MostAttempts : Receive(r, k) \/ Handle(r, k) \/ Lose(r, k)

Spec == Init /\ [][Next]_vars

(* Timers fire.  Nothing is assumed of the network or the handler.         *)
FairSpec == Spec /\ \A r \in Requests : WF_vars(TimesOut(r))
-----------------------------------------------------------------------------
Settled(r) == client[r] \in {"returned", "thrown"}

TypeOK ==
    /\ sender \in [Requests -> {"runtime", "ping", "plain"}]
    /\ server \in {"runtime", "stub"}
    /\ agreed \in BOOLEAN
    /\ client \in [Requests -> {"idle", "waiting", "reading", "returned", "thrown"}]
    /\ seen \in [Requests -> Seq(Replies \cup {"failed", "timeout"})]
    /\ wire \in [Requests -> [1 .. MostAttempts -> Exchange]]
    /\ result \in [Requests -> Replies \cup {"none"}]

(* The handler may run several times for one request, and at the same      *)
(* time, but only for attempts whose answer did not come through or was a  *)
(* 5xx: an answer that reached the client is never asked for again.        *)
RepeatedOnlyForLost ==
    \A r \in Requests : \A k \in 1 .. MostAttempts :
        wire[r][k] # "unsent" =>
            \A j \in 1 .. k - 1 : seen[r][j] \in {"failed", "timeout", "broken"}

(* What a caller gets was earned: request() throws only after its retries, *)
(* each of which has failed, and another client when its one attempt did,  *)
(* or because of an answer, which is then the last thing it saw; and the   *)
(* plain client returns nobody else's answer, nor a refusal.               *)
OutcomeIsEarned ==
    \A r \in Requests :
        /\ client[r] = "thrown" =>
              IF sender[r] = "runtime" THEN Len(seen[r]) = Retries + 1
              ELSE Len(seen[r]) = Attempts(r) \/ Last(seen[r]) \in Replies
        /\ sender[r] = "plain" => result[r] \in {"none", "own"}

(* A request settles although the network or the handler hangs.  The       *)
(* runtime client may be left to wait for a body, as it has no timer then. *)
RequestsSettle ==
    \A r \in Requests :
        client[r] = "waiting" ~> Settled(r) \/ (sender[r] = "runtime" /\ client[r] = "reading")
=============================================================================
