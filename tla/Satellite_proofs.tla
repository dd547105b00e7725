-------------------------- MODULE Satellite_proofs --------------------------
(***************************************************************************)
(* Theorems about Satellite, for any requests and any number of retries.   *)
(***************************************************************************)
EXTENDS Satellite, SequenceTheorems, TLAPS

(* What an attempt may have come to when another one follows it.           *)
Unanswered == {"failed", "timeout", "broken"}

Active(r) == client[r] \in {"waiting", "reading"}

(* Each attempt that was sent is the one under way or one seen to fail.    *)
AttemptsInOrder(r) ==
    /\ client[r] = "idle" =>
         seen[r] = <<>> /\ \A k \in 1 .. MostAttempts : wire[r][k] = "unsent"
    /\ Active(r) =>
         /\ Len(seen[r]) < Attempts(r)
         /\ \A j \in 1 .. Len(seen[r]) : seen[r][j] \in Unanswered
         /\ \A k \in 1 .. MostAttempts : wire[r][k] # "unsent" => k <= Len(seen[r]) + 1
    /\ client[r] = "reading" => wire[r][Len(seen[r]) + 1] \in Replies
    /\ Settled(r) =>
         /\ \A j \in 1 .. Len(seen[r]) - 1 : seen[r][j] \in Unanswered
         /\ \A k \in 1 .. MostAttempts : wire[r][k] # "unsent" => k <= Len(seen[r])

Spent(r) ==
    client[r] = "thrown" =>
        IF sender[r] = "runtime" THEN Len(seen[r]) = Retries + 1
        ELSE Len(seen[r]) = Attempts(r) \/ Last(seen[r]) \in Replies

OwnOnly(r) == sender[r] = "plain" => result[r] \in {"none", "own"}

RequestInv(r) == AttemptsInOrder(r) /\ Spent(r) /\ OwnOnly(r)

SatelliteInv == \A r \in Requests : RequestInv(r)
-----------------------------------------------------------------------------
LEMMA AttemptsBound ==
  ASSUME TypeOK, NEW r \in Requests
  PROVE  /\ Attempts(r) \in 1 .. MostAttempts
         /\ sender[r] = "runtime" => Attempts(r) = Retries + 1
<1>1. sender[r] \in {"runtime", "ping", "plain"} /\ Retries \in Nat
  BY SatelliteAssumption DEF TypeOK
<1>2. CASE sender[r] = "runtime"  BY <1>1, <1>2 DEF Attempts, MostAttempts
<1>3. CASE sender[r] = "ping"     BY <1>1, <1>3 DEF Attempts, MostAttempts
<1>4. CASE sender[r] = "plain"    BY <1>1, <1>4 DEF Attempts, MostAttempts
<1> QED BY <1>1, <1>2, <1>3, <1>4

(* A step of one request leaves the others' invariant alone.               *)
SameOthers(r) ==
    /\ UNCHANGED <<sender, server, agreed>>
    /\ \A q \in Requests \ {r} :
          /\ client'[q] = client[q] /\ seen'[q] = seen[q]
          /\ wire'[q] = wire[q] /\ result'[q] = result[q]

LEMMA OthersKept ==
  ASSUME SatelliteInv, NEW r \in Requests, SameOthers(r), RequestInv(r)'
  PROVE  SatelliteInv'
<1> SUFFICES ASSUME NEW q \in Requests, q # r PROVE RequestInv(q)'
  BY DEF SatelliteInv
<1>1. RequestInv(q)
  BY DEF SatelliteInv
<1>2. /\ client'[q] = client[q] /\ seen'[q] = seen[q]
      /\ wire'[q] = wire[q] /\ result'[q] = result[q] /\ sender' = sender
  BY DEF SameOthers
<1>3. AttemptsInOrder(q)'
  BY <1>1, <1>2 DEF RequestInv, AttemptsInOrder, Active, Settled, Attempts
<1>4. Spent(q)'
  BY <1>1, <1>2 DEF RequestInv, Spent, Attempts
<1>5. OwnOnly(q)'
  BY <1>1, <1>2 DEF RequestInv, OwnOnly
<1> QED BY <1>3, <1>4, <1>5 DEF RequestInv

(* The next attempt after one that failed, or none.                        *)
LEMMA RetryStep ==
  ASSUME TypeOK, NEW r \in Requests, RequestInv(r), Active(r),
         NEW fate \in Unanswered, Retry(r, fate)
  PROVE  TypeOK' /\ SameOthers(r) /\ RequestInv(r)'
<1> DEFINE n == Len(seen[r])
<1>1. /\ seen[r] \in Seq(Replies \cup {"failed", "timeout"}) /\ n \in Nat
      /\ fate \in Replies \cup {"failed", "timeout"}
  BY DEF TypeOK, Unanswered, Replies
<1>2. /\ seen' = [seen EXCEPT ![r] = Append(seen[r], fate)]
      /\ UNCHANGED <<sender, server, agreed, result>>
  BY DEF Retry
<1>3. Append(seen[r], fate) \in Seq(Replies \cup {"failed", "timeout"})
  BY <1>1
<1>4. seen' \in [Requests -> Seq(Replies \cup {"failed", "timeout"})]
  BY <1>2, <1>3 DEF TypeOK
<1>5. /\ seen'[r] = Append(seen[r], fate) /\ Len(seen'[r]) = n + 1
      /\ \A j \in 1 .. n : seen'[r][j] = seen[r][j]
      /\ seen'[r][n + 1] = fate
  BY <1>1, <1>2 DEF TypeOK
<1>6. /\ n < Attempts(r)
      /\ \A j \in 1 .. n : seen[r][j] \in Unanswered
      /\ \A k \in 1 .. MostAttempts : wire[r][k] # "unsent" => k <= n + 1
  BY DEF RequestInv, AttemptsInOrder
<1>7. /\ Attempts(r)' = Attempts(r) /\ Attempts(r) \in 1 .. MostAttempts
      /\ sender[r] = "runtime" => Attempts(r) = Retries + 1
      /\ MostAttempts \in Nat
  BY <1>2, AttemptsBound, SatelliteAssumption DEF Attempts, MostAttempts
<1>8. OwnOnly(r)'
  BY <1>2 DEF RequestInv, OwnOnly
<1>9. \A j \in 1 .. n + 1 : seen'[r][j] \in Unanswered
  BY <1>1, <1>5, <1>6
<1>10. CASE n + 1 < Attempts(r)
  <2>1. /\ client' = [client EXCEPT ![r] = "waiting"]
        /\ wire' = [wire EXCEPT ![r][n + 2] = "travelling"]
    BY <1>1, <1>10 DEF Retry, Current
  <2>2. /\ client'[r] = "waiting"
        /\ \A k \in 1 .. MostAttempts : k # n + 2 => wire'[r][k] = wire[r][k]
    BY <2>1 DEF TypeOK
  <2>3. TypeOK'
    BY <1>2, <1>4, <2>1 DEF TypeOK, Exchange
  <2>4. AttemptsInOrder(r)'
    <3>1. \A k \in 1 .. MostAttempts : wire'[r][k] # "unsent" => k <= n + 2
      BY <1>1, <1>6, <2>2
    <3> QED BY <1>1, <1>5, <1>7, <1>9, <1>10, <2>2, <3>1 DEF AttemptsInOrder, Active, Settled
  <2>5. Spent(r)'
    BY <2>2 DEF Spent
  <2>6. SameOthers(r)
    BY <1>2, <2>1 DEF SameOthers, TypeOK
  <2> QED BY <1>8, <2>3, <2>4, <2>5, <2>6 DEF RequestInv
<1>11. CASE ~(n + 1 < Attempts(r))
  <2>1. client' = [client EXCEPT ![r] = "thrown"] /\ wire' = wire
    BY <1>1, <1>11 DEF Retry, Current
  <2>2. client'[r] = "thrown" /\ n + 1 = Attempts(r)
    BY <1>1, <1>6, <1>7, <1>11, <2>1 DEF TypeOK
  <2>3. TypeOK'
    BY <1>2, <1>4, <2>1 DEF TypeOK
  <2>4. AttemptsInOrder(r)'
    BY <1>1, <1>5, <1>6, <1>9, <2>1, <2>2 DEF AttemptsInOrder, Active, Settled
  <2>5. Spent(r)'
    BY <1>2, <1>5, <1>7, <2>2 DEF Spent
  <2>6. SameOthers(r)
    BY <1>2, <2>1 DEF SameOthers, TypeOK
  <2> QED BY <1>8, <2>3, <2>4, <2>5, <2>6 DEF RequestInv
<1> QED BY <1>10, <1>11

(* An answer ends the request: it is returned or thrown.                   *)
LEMMA AnswerStep ==
  ASSUME TypeOK, NEW r \in Requests, RequestInv(r), Active(r),
         NEW reply \in Replies,
         \/ Returns(r, reply) /\ (sender[r] = "plain" => reply = "own")
         \/ Throws(r, reply) /\ sender[r] = "plain"
  PROVE  TypeOK' /\ SameOthers(r) /\ RequestInv(r)'
<1> DEFINE n == Len(seen[r])
<1>1. seen[r] \in Seq(Replies \cup {"failed", "timeout"}) /\ n \in Nat
  BY DEF TypeOK
<1>2. /\ seen' = [seen EXCEPT ![r] = Append(seen[r], reply)]
      /\ UNCHANGED <<sender, server, agreed, wire>>
      /\ \/ client' = [client EXCEPT ![r] = "returned"]
            /\ result' = [result EXCEPT ![r] = reply] /\ (sender[r] = "plain" => reply = "own")
         \/ client' = [client EXCEPT ![r] = "thrown"] /\ result' = result /\ sender[r] = "plain"
  BY DEF Returns, Throws
<1>3. Append(seen[r], reply) \in Seq(Replies \cup {"failed", "timeout"})
  BY <1>1
<1>4. TypeOK'
  <2>1. seen' \in [Requests -> Seq(Replies \cup {"failed", "timeout"})]
    BY <1>2, <1>3 DEF TypeOK
  <2>2. CASE client' = [client EXCEPT ![r] = "returned"] /\ result' = [result EXCEPT ![r] = reply]
    BY <1>2, <2>1, <2>2 DEF TypeOK
  <2>3. CASE client' = [client EXCEPT ![r] = "thrown"] /\ result' = result
    BY <1>2, <2>1, <2>3 DEF TypeOK
  <2> QED BY <1>2, <2>2, <2>3
<1>5. /\ seen'[r] = Append(seen[r], reply) /\ Len(seen'[r]) = n + 1
      /\ \A j \in 1 .. n : seen'[r][j] = seen[r][j]
      /\ seen'[r][n + 1] = reply
  BY <1>1, <1>2 DEF TypeOK
<1>6. client'[r] \in {"returned", "thrown"}
  BY <1>2 DEF TypeOK
<1>7. AttemptsInOrder(r)'
  <2>1. /\ \A j \in 1 .. n : seen[r][j] \in Unanswered
        /\ \A k \in 1 .. MostAttempts : wire[r][k] # "unsent" => k <= n + 1
    BY DEF RequestInv, AttemptsInOrder
  <2> QED BY <1>1, <1>2, <1>5, <1>6, <2>1 DEF AttemptsInOrder, Active, Settled
<1>8. Spent(r)'
  <2>1. Last(seen'[r]) \in Replies
    BY <1>5 DEF Last
  <2>2. client'[r] = "thrown" => sender'[r] = "plain"
    BY <1>2 DEF TypeOK
  <2> QED BY <2>1, <2>2 DEF Spent
<1>9. OwnOnly(r)'
  BY <1>2 DEF TypeOK, RequestInv, OwnOnly
<1>10. SameOthers(r)
  BY <1>2 DEF SameOthers, TypeOK
<1> QED BY <1>4, <1>7, <1>8, <1>9, <1>10 DEF RequestInv

(* The steps of a client.                                                  *)
LEMMA ClientStep ==
  ASSUME TypeOK, NEW r \in Requests, RequestInv(r),
         Send(r) \/ ConnectionFails(r) \/ TimesOut(r) \/ HeadersArrive(r) \/ BodyArrives(r)
  PROVE  TypeOK' /\ SameOthers(r) /\ RequestInv(r)'
<1>0. 1 \in 1 .. MostAttempts /\ MostAttempts \in Nat
  BY SatelliteAssumption DEF MostAttempts
<1>1. CASE Send(r)
  <2>1. /\ client[r] = "idle"
        /\ client' = [client EXCEPT ![r] = "waiting"]
        /\ wire' = [wire EXCEPT ![r][1] = "travelling"]
        /\ UNCHANGED <<sender, server, agreed, seen, result>>
    BY <1>1 DEF Send
  <2>2. seen[r] = <<>> /\ \A k \in 1 .. MostAttempts : wire[r][k] = "unsent"
    BY <2>1 DEF RequestInv, AttemptsInOrder
  <2>3. TypeOK'
    BY <2>1 DEF TypeOK, Exchange
  <2>4. client'[r] = "waiting" /\ seen'[r] = <<>>
    BY <2>1, <2>2 DEF TypeOK
  <2>5. \A k \in 1 .. MostAttempts : wire'[r][k] # "unsent" => k <= 1
    BY <1>0, <2>1, <2>2 DEF TypeOK
  <2>6. Attempts(r)' \in 1 .. MostAttempts
    BY <2>1, AttemptsBound DEF Attempts
  <2>7. AttemptsInOrder(r)'
    BY <1>0, <2>4, <2>5, <2>6 DEF AttemptsInOrder, Active, Settled
  <2>8. Spent(r)' /\ OwnOnly(r)'
    BY <2>1, <2>4 DEF Spent, OwnOnly, RequestInv
  <2>9. SameOthers(r)
    BY <2>1 DEF SameOthers, TypeOK
  <2> QED BY <2>3, <2>7, <2>8, <2>9 DEF RequestInv
<1>2. CASE ConnectionFails(r)
  <2>1. Active(r) /\ Retry(r, "failed") /\ "failed" \in Unanswered
    BY <1>2 DEF ConnectionFails, Active, Unanswered
  <2> QED BY <2>1, RetryStep
<1>3. CASE TimesOut(r)
  <2>1. Active(r) /\ Retry(r, "timeout") /\ "timeout" \in Unanswered
    BY <1>3 DEF TimesOut, Active, Unanswered
  <2> QED BY <2>1, RetryStep
<1>4. CASE HeadersArrive(r)
  <2> DEFINE reply == wire[r][Current(r)]
  <2>1. Active(r) /\ client[r] = "waiting" /\ reply \in Replies
    BY <1>4 DEF HeadersArrive, Active
  <2>2. CASE sender[r] = "runtime" /\ reply = "broken" /\ Retry(r, "broken")
    <3>1. "broken" \in Unanswered
      BY DEF Unanswered
    <3> QED BY <2>1, <2>2, <3>1, RetryStep
  <2>3. CASE sender[r] = "ping" /\ Returns(r, reply)
    <3>1. sender[r] # "plain"
      BY <2>3
    <3> HIDE DEF reply
    <3> QED BY <2>1, <2>3, <3>1, AnswerStep
  <2>4. CASE /\ client' = [client EXCEPT ![r] = "reading"]
             /\ UNCHANGED <<sender, server, agreed, seen, wire, result>>
    <3>1. TypeOK'
      BY <2>4 DEF TypeOK
    <3>2. client'[r] = "reading"
      BY <2>4 DEF TypeOK
    <3>3. AttemptsInOrder(r)'
      BY <2>1, <2>4, <3>2 DEF RequestInv, AttemptsInOrder, Active, Settled, Attempts, Current
    <3>4. Spent(r)' /\ OwnOnly(r)'
      BY <2>4, <3>2 DEF Spent, OwnOnly, RequestInv
    <3>5. SameOthers(r)
      BY <2>4 DEF SameOthers, TypeOK
    <3> QED BY <3>1, <3>3, <3>4, <3>5 DEF RequestInv
  <2>5. \/ sender[r] = "runtime" /\ reply = "broken" /\ Retry(r, "broken")
        \/ sender[r] = "ping" /\ Returns(r, reply)
        \/ /\ client' = [client EXCEPT ![r] = "reading"]
           /\ UNCHANGED <<sender, server, agreed, seen, wire, result>>
    BY <1>4 DEF HeadersArrive
  <2> QED BY <2>2, <2>3, <2>4, <2>5
<1>5. CASE BodyArrives(r)
  <2> DEFINE reply == wire[r][Current(r)]
  <2>1. Active(r) /\ reply \in Replies
    <3>1. client[r] = "reading" /\ Len(seen[r]) + 1 = Current(r)
      BY <1>5 DEF BodyArrives, Current
    <3> QED BY <3>1 DEF Active, RequestInv, AttemptsInOrder
  <2>2. IF sender[r] = "plain" /\ reply # "own" THEN Throws(r, reply) ELSE Returns(r, reply)
    BY <1>5 DEF BodyArrives
  <2> HIDE DEF reply
  <2>3. \/ Returns(r, reply) /\ (sender[r] = "plain" => reply = "own")
        \/ Throws(r, reply) /\ sender[r] = "plain"
    BY <2>2
  <2> QED BY <2>1, <2>3, AnswerStep
<1> QED BY <1>1, <1>2, <1>3, <1>4, <1>5

(* The steps of a server and of the network: an exchange that is on its    *)
(* way moves on, whether its attempt was given up or not.                  *)
LEMMA ServerStep ==
  ASSUME TypeOK, NEW r \in Requests, RequestInv(r), NEW k \in 1 .. MostAttempts,
         Receive(r, k) \/ Handle(r, k) \/ Lose(r, k)
  PROVE  TypeOK' /\ SameOthers(r) /\ RequestInv(r)'
<1>1. PICK next \in {"running", "lost"} \cup Replies :
         wire' = [wire EXCEPT ![r][k] = next]
  BY DEF Receive, Handle, Lose, Replies
<1>2. /\ wire[r][k] \in {"travelling", "running"}
      /\ UNCHANGED <<sender, server, agreed, client, seen, result>>
  BY DEF Receive, Handle, Lose
<1>3. TypeOK'
  BY <1>1, <1>2 DEF TypeOK, Exchange
<1>4. /\ \A j \in 1 .. MostAttempts : wire'[r][j] # "unsent" <=> wire[r][j] # "unsent"
      /\ \A j \in 1 .. MostAttempts : wire[r][j] \in Replies => wire'[r][j] = wire[r][j]
  <2>1. \A j \in 1 .. MostAttempts : wire'[r][j] = IF j = k THEN next ELSE wire[r][j]
    BY <1>1 DEF TypeOK
  <2>2. next # "unsent" /\ wire[r][k] # "unsent" /\ wire[r][k] \notin Replies
    BY <1>2 DEF Replies
  <2> QED BY <2>1, <2>2
<1>5. AttemptsInOrder(r)'
  <2>1. client[r] = "reading" => Len(seen[r]) + 1 \in 1 .. MostAttempts
    <3>1. Len(seen[r]) \in Nat /\ Attempts(r) \in 1 .. MostAttempts /\ MostAttempts \in Nat
      BY AttemptsBound, SatelliteAssumption DEF TypeOK, MostAttempts
    <3>2. client[r] = "reading" => Len(seen[r]) < Attempts(r)
      BY DEF RequestInv, AttemptsInOrder, Active
    <3> QED BY <3>1, <3>2
  <2>2. client[r] = "reading" => wire'[r][Len(seen[r]) + 1] \in Replies
    BY <1>4, <2>1 DEF RequestInv, AttemptsInOrder
  <2> QED BY <1>2, <1>4, <2>2 DEF RequestInv, AttemptsInOrder, Active, Settled, Attempts
<1>6. Spent(r)' /\ OwnOnly(r)'
  BY <1>2 DEF RequestInv, Spent, OwnOnly, Attempts
<1>7. SameOthers(r)
  BY <1>1, <1>2 DEF SameOthers, TypeOK
<1> QED BY <1>3, <1>5, <1>6, <1>7 DEF RequestInv

LEMMA InitialState == ASSUME Init PROVE TypeOK /\ SatelliteInv
<1>1. \A r \in Requests :
        /\ client[r] = "idle" /\ seen[r] = <<>> /\ result[r] = "none"
        /\ \A k \in 1 .. MostAttempts : wire[r][k] = "unsent"
  BY DEF Init
<1>2. SatelliteInv
  BY <1>1 DEF SatelliteInv, RequestInv, AttemptsInOrder, Active, Settled, Spent, OwnOnly
<1>3. TypeOK
  <2>1. seen \in [Requests -> Seq(Replies \cup {"failed", "timeout"})]
    BY DEF Init
  <2>2. wire \in [Requests -> [1 .. MostAttempts -> Exchange]]
    BY DEF Init, Exchange
  <2> QED BY <2>1, <2>2 DEF Init, TypeOK
<1> QED BY <1>2, <1>3

(* The attempts of every request come in order, and types are kept.        *)
THEOREM AttemptsAreInOrder == Spec => [](TypeOK /\ SatelliteInv)
<1>1. Init => TypeOK /\ SatelliteInv
  BY InitialState
<1>2. TypeOK /\ SatelliteInv /\ [Next]_vars => (TypeOK /\ SatelliteInv)'
  <2> SUFFICES ASSUME TypeOK, SatelliteInv, [Next]_vars PROVE (TypeOK /\ SatelliteInv)'
    OBVIOUS
  <2>1. ASSUME NEW r \in Requests,
               Send(r) \/ ConnectionFails(r) \/ TimesOut(r) \/ HeadersArrive(r) \/ BodyArrives(r)
        PROVE  (TypeOK /\ SatelliteInv)'
    <3>1. RequestInv(r)  BY DEF SatelliteInv
    <3>2. TypeOK' /\ SameOthers(r) /\ RequestInv(r)'  BY <2>1, <3>1, ClientStep
    <3> QED BY <3>2, OthersKept
  <2>2. ASSUME NEW r \in Requests, NEW k \in 1 .. MostAttempts,
               Receive(r, k) \/ Handle(r, k) \/ Lose(r, k)
        PROVE  (TypeOK /\ SatelliteInv)'
    <3>1. RequestInv(r)  BY DEF SatelliteInv
    <3>2. TypeOK' /\ SameOthers(r) /\ RequestInv(r)'  BY <2>2, <3>1, ServerStep
    <3> QED BY <3>2, OthersKept
  <2>3. ASSUME UNCHANGED vars PROVE (TypeOK /\ SatelliteInv)'
    <3>1. TypeOK'  BY <2>3 DEF vars, TypeOK
    <3>2. SatelliteInv'
      BY <2>3 DEF vars, SatelliteInv, RequestInv, AttemptsInOrder, Active, Settled,
                  Spent, OwnOnly, Attempts
    <3> QED BY <3>1, <3>2
  <2> QED BY <2>1, <2>2, <2>3 DEF Next
<1> QED BY <1>1, <1>2, PTL DEF Spec

(* An answer that reached the client is never asked for again.             *)
THEOREM OnlyLostAttemptsRepeat == Spec => []RepeatedOnlyForLost
<1>1. TypeOK /\ SatelliteInv => RepeatedOnlyForLost
  <2> SUFFICES ASSUME TypeOK, SatelliteInv, NEW r \in Requests,
                      NEW k \in 1 .. MostAttempts, wire[r][k] # "unsent",
                      NEW j \in 1 .. k - 1
               PROVE  seen[r][j] \in Unanswered
    BY DEF RepeatedOnlyForLost, Unanswered
  <2>1. AttemptsInOrder(r)
    BY DEF SatelliteInv, RequestInv
  <2>2. client[r] \in {"idle", "waiting", "reading", "returned", "thrown"}
        /\ Len(seen[r]) \in Nat /\ MostAttempts \in Nat
    BY SatelliteAssumption DEF TypeOK, MostAttempts
  <2>3. CASE Active(r)     BY <2>1, <2>2, <2>3 DEF AttemptsInOrder
  <2>4. CASE Settled(r)    BY <2>1, <2>2, <2>4 DEF AttemptsInOrder
  <2>5. CASE client[r] = "idle"  BY <2>1, <2>5 DEF AttemptsInOrder
  <2> QED BY <2>2, <2>3, <2>4, <2>5 DEF Active, Settled
<1> QED BY <1>1, AttemptsAreInOrder, PTL

(* A client gives up only when its attempts are spent, or because of an    *)
(* answer, and the plain client returns nobody else's.                     *)
THEOREM EarnsItsOutcome == Spec => []OutcomeIsEarned
<1>1. SatelliteInv => OutcomeIsEarned
  BY DEF SatelliteInv, RequestInv, Spent, OwnOnly, OutcomeIsEarned
<1> QED BY <1>1, AttemptsAreInOrder, PTL
=============================================================================
