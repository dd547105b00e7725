--------------------------- MODULE CircuitRouter ----------------------------
(***************************************************************************)
(* ModelRouter.route (src/src/router/router.ts) over providers wrapped by  *)
(* withCircuitBreaker (src/src/router/circuit-breaker.ts).                 *)
(*                                                                         *)
(* Every request walks its own snapshot of the provider order; the circuit *)
(* of a provider is shared by all of them.  A step runs from one await to  *)
(* the next: the gate and the start of the provider call are one step, the *)
(* outcome of the call is another, and the attempt that follows a failure  *)
(* or a refusal is a third (the rejection travels through an await).       *)
(***************************************************************************)
EXTENDS ProviderPolicy

CONSTANTS
    Requests,      \* the requests that may be under way at the same time
    Policy,        \* ModelRouterOptions.policy
    RouteHints,    \* ModelRouterOptions.hints
    RetryBudget,   \* ModelRouterOptions.retryBudget
    Threshold,     \* CircuitBreakerOptions.threshold
    Cooldown,      \* CircuitBreakerOptions.cooldownMs, in clock ticks
    MaxClock       \* bound of the model: the clock stops here

ASSUME RouterAssumption ==
    /\ Policy \in Policies
    /\ RouteHints \in Hints
    /\ RetryBudget \in Nat
    /\ Threshold \in Nat \ {0}
    /\ Cooldown \in Nat \ {0}
    /\ MaxClock \in Nat

VARIABLES
    clock,        \* now()
    registered,   \* the keys of ModelRouter.providers, in insertion order
    circ,         \* CircuitBreakerRouter.states
    pc,           \* where each request is
    ord,          \* the request's snapshot of selectProviders
    idx,          \* the attempt the request is at (i + 1 in the code)
    verdict,      \* history: how each provider answered this request
    streak,       \* history: failures since the last success, up to Threshold
    lastFail      \* history: when the last failure was recorded

vars == <<clock, registered, circ, pc, ord, idx, verdict, streak, lastFail>>
requestVars == <<pc, ord, idx, verdict>>
historyVars == <<streak, lastFail>>

Closed(n) == [status |-> "closed", failures |-> n, openedAt |-> 0]
Open(at)  == [status |-> "open", failures |-> 0, openedAt |-> at]
HalfOpen  == [status |-> "half-open", failures |-> 0, openedAt |-> 0]
Circuits  == [status : {"closed", "open", "half-open"},
              failures : Nat, openedAt : Nat]

Verdicts  == [Providers -> {"none", "failed", "refused"}]
Settled == {"idle", "done", "failed"}

Init ==
    /\ clock = 0
    /\ registered = <<>>
    /\ circ = [p \in Providers |-> Closed(0)]
    /\ pc = [r \in Requests |-> "idle"]
    /\ ord = [r \in Requests |-> <<>>]
    /\ idx = [r \in Requests |-> 1]
    /\ verdict = [r \in Requests |-> [p \in Providers |-> "none"]]
    /\ streak = [p \in Providers |-> 0]
    /\ lastFail = [p \in Providers |-> 0]

(* register: a new circuit, and the Map keeps the place of an old key.     *)
Register(p) ==
    /\ circ' = [circ EXCEPT ![p] = Closed(0)]
    /\ registered' = IF Contains(registered, p) THEN registered
                     ELSE Append(registered, p)
    /\ streak' = [streak EXCEPT ![p] = 0]
    /\ UNCHANGED <<clock, requestVars, lastFail>>

MaxAttempts(order) ==
    IF Len(order) < RetryBudget + 1 THEN Len(order) ELSE RetryBudget + 1

(* Variant: the cooldown ends one tick early.                              *)
CooledDown_Early(p) == clock - circ[p].openedAt + 1 >= Cooldown

(* checkGate: whether it lets the call through, and the circuit it leaves. *)
CooledDown(p) == clock - circ[p].openedAt >= Cooldown
GatePasses(p) == circ[p].status # "open" \/ CooledDown(p)
GateCircuit(p) ==
    IF circ[p].status = "open" /\ CooledDown(p) THEN HalfOpen ELSE circ[p]

(* Variant: a refusal does not move on to the next provider.               *)
Attempt_RetriesRefused(r, order, i) ==
    LET p == order[i] IN
    /\ circ' = [circ EXCEPT ![p] = GateCircuit(p)]
    /\ ord' = [ord EXCEPT ![r] = order]
    /\ pc' = [pc EXCEPT ![r] = IF GatePasses(p) THEN "calling" ELSE "next"]
    /\ idx' = [idx EXCEPT ![r] = i]
    /\ UNCHANGED verdict

(* One turn of the loop in route: the call starts, or CircuitOpenError.    *)
Attempt(r, order, i) ==
    LET p == order[i] IN
    /\ circ' = [circ EXCEPT ![p] = GateCircuit(p)]
    /\ ord' = [ord EXCEPT ![r] = order]
    /\ \/ /\ GatePasses(p)
          /\ pc' = [pc EXCEPT ![r] = "calling"]
          /\ idx' = [idx EXCEPT ![r] = i]
          /\ UNCHANGED verdict
       \/ /\ ~GatePasses(p)
          /\ pc' = [pc EXCEPT ![r] = "next"]
          /\ idx' = [idx EXCEPT ![r] = i + 1]
          /\ verdict' = [verdict EXCEPT ![r][p] = "refused"]

(* route: take the snapshot and make the first attempt in the same step.   *)
Route(r) ==
    /\ pc[r] = "idle"
    /\ LET order == SelectProviders(registered, Policy, RouteHints) IN
       \/ /\ order # <<>>
          /\ Attempt(r, order, 1)
       \/ /\ order = <<>>
          /\ pc' = [pc EXCEPT ![r] = "failed"]
          /\ ord' = [ord EXCEPT ![r] = <<>>]
          /\ UNCHANGED <<circ, idx, verdict>>
    /\ UNCHANGED <<clock, registered, historyVars>>

(* The provider's promise resolves: onSuccess, and route returns.          *)
Succeed(r) ==
    LET p == ord[r][idx[r]] IN
    /\ pc[r] = "calling"
    /\ circ' = [circ EXCEPT ![p] = Closed(0)]
    /\ pc' = [pc EXCEPT ![r] = "done"]
    /\ streak' = [streak EXCEPT ![p] = 0]
    /\ UNCHANGED <<clock, registered, ord, idx, verdict, lastFail>>

(* Variant: one failure too many.                                          *)
FailureCircuit_OneMore(p) ==
    IF circ[p].status # "closed" \/ circ[p].failures >= Threshold
    THEN Open(clock) ELSE Closed(circ[p].failures + 1)

FailureCircuit(p) ==
    IF circ[p].status # "closed" \/ circ[p].failures + 1 >= Threshold
    THEN Open(clock) ELSE Closed(circ[p].failures + 1)

(* Variant: the index moves twice after a failure.                         *)
Fail_Skips(r) ==
    LET p == ord[r][idx[r]] IN
    /\ pc[r] = "calling"
    /\ pc' = [pc EXCEPT ![r] = "next"]
    /\ idx' = [idx EXCEPT ![r] = @ + 2]
    /\ verdict' = [verdict EXCEPT ![r][p] = "failed"]
    /\ UNCHANGED <<clock, registered, circ, ord, historyVars>>

(* The provider's promise rejects: onFailure, and the error is kept.       *)
Fail(r) ==
    LET p == ord[r][idx[r]] IN
    /\ pc[r] = "calling"
    /\ circ' = [circ EXCEPT ![p] = FailureCircuit(p)]
    /\ pc' = [pc EXCEPT ![r] = "next"]
    /\ idx' = [idx EXCEPT ![r] = @ + 1]
    /\ verdict' = [verdict EXCEPT ![r][p] = "failed"]
    /\ streak' = [streak EXCEPT ![p] = IF @ < Threshold THEN @ + 1 ELSE @]
    /\ lastFail' = [lastFail EXCEPT ![p] = clock]
    /\ UNCHANGED <<clock, registered, ord>>

(* The loop goes on after a failure or a refusal, or route gives up.       *)
Continue(r) ==
    /\ pc[r] = "next"
    /\ \/ /\ idx[r] <= MaxAttempts(ord[r])
          /\ Attempt(r, ord[r], idx[r])
       \/ /\ idx[r] > MaxAttempts(ord[r])
          /\ pc' = [pc EXCEPT ![r] = "failed"]
          /\ UNCHANGED <<circ, ord, idx, verdict>>
    /\ UNCHANGED <<clock, registered, historyVars>>

(* Variant: the next request starts one attempt too early.                 *)
Return_ToZero(r) ==
    /\ pc[r] \in {"done", "failed"}
    /\ pc' = [pc EXCEPT ![r] = "idle"]
    /\ idx' = [idx EXCEPT ![r] = 0]
    /\ UNCHANGED <<clock, registered, circ, ord, verdict, historyVars>>

(* The caller has its answer and may send another request.                 *)
Return(r) ==
    /\ pc[r] \in {"done", "failed"}
    /\ pc' = [pc EXCEPT ![r] = "idle"]
    /\ ord' = [ord EXCEPT ![r] = <<>>]
    /\ idx' = [idx EXCEPT ![r] = 1]
    /\ verdict' = [verdict EXCEPT ![r] = [p \in Providers |-> "none"]]
    /\ UNCHANGED <<clock, registered, circ, historyVars>>

Tick ==
    /\ clock < MaxClock
    /\ clock' = clock + 1
    /\ UNCHANGED <<registered, circ, requestVars, historyVars>>

Next ==
    \/ Tick
    \/ \E p \in Providers : Register(p)
    \/ \E r \in Requests :
         Route(r) \/ Succeed(r) \/ Fail(r) \/ Continue(r) \/ Return(r)

Spec == Init /\ [][Next]_vars

(* A promise continuation always runs, and a provider's HTTP call settles. *)
Fairness ==
    \A r \in Requests :
        WF_vars(Continue(r)) /\ WF_vars(Succeed(r) \/ Fail(r))

FairSpec == Spec /\ Fairness
-----------------------------------------------------------------------------
TypeOK ==
    /\ clock \in Nat
    /\ circ \in [Providers -> Circuits]
    /\ pc \in [Requests -> Settled \cup {"calling", "next"}]
    /\ idx \in [Requests -> Nat \ {0}]
    /\ DOMAIN ord = Requests
    /\ verdict \in [Requests -> Verdicts]
    /\ streak \in [Providers -> 0 .. Threshold]
    /\ lastFail \in [Providers -> Nat]

(* A circuit is closed exactly while the provider has failed fewer than    *)
(* Threshold times since its last success: neither a late answer of an old *)
(* request nor a concurrent failure makes it open early or stay closed.    *)
OpenIffEarned ==
    \A p \in Providers :
        (circ[p].status = "closed") <=> (streak[p] < Threshold)

(* What makes the promise of the breaker inductive: an open circuit counts *)
(* its cooldown from the last failure, and a half-open one has waited it   *)
(* out, whichever requests reported those failures.                        *)
CircuitInv ==
    \A p \in Providers :
        /\ lastFail[p] <= clock
        /\ circ[p].status = "closed" =>
             circ[p].failures = streak[p] /\ streak[p] < Threshold
        /\ circ[p].status # "closed" => streak[p] = Threshold
        /\ circ[p].status = "open" => circ[p].openedAt = lastFail[p]
        /\ circ[p].status = "half-open" => clock - lastFail[p] >= Cooldown

(* route gives up only when each provider it may still try has failed for  *)
(* this request or was refused by its circuit, and it has used the budget. *)
ExhaustedBeforeFailing ==
    \A r \in Requests :
        pc[r] = "failed" =>
            /\ \A i \in 1 .. MaxAttempts(ord[r]) : verdict[r][ord[r][i]] # "none"
            /\ \A i \in MaxAttempts(ord[r]) + 1 .. Len(ord[r]) :
                   verdict[r][ord[r][i]] = "none"

(* What that takes: an order names no provider twice, so that an answer is *)
(* that of one attempt; those that were made are those before idx.         *)
NoRepeats(s) ==
    /\ s \in Seq(Providers)
    /\ \A i, j \in 1 .. Len(s) : s[i] = s[j] => i = j

AttemptsInv ==
    /\ NoRepeats(registered)
    /\ \A r \in Requests :
         /\ NoRepeats(ord[r]) /\ idx[r] <= MaxAttempts(ord[r]) + 1
         /\ pc[r] = "calling" => idx[r] <= MaxAttempts(ord[r])
         /\ pc[r] = "failed"  => idx[r] > MaxAttempts(ord[r])
         /\ pc[r] = "idle"    => idx[r] = 1 /\ \A p \in Providers : verdict[r][p] = "none"
         /\ \A i \in 1 .. Len(ord[r]) : verdict[r][ord[r][i]] = "none" <=> i >= idx[r]

StartsCall(r, p) ==
    /\ pc[r] # "calling"
    /\ pc'[r] = "calling"
    /\ ord'[r][idx'[r]] = p

(* The promise of the breaker: after Threshold failures in a row a         *)
(* provider is left alone for Cooldown after the last of them, whatever    *)
(* the order in which concurrent requests start and settle.                *)
LeftAloneAfterFailures ==
    [][\A r \in Requests, p \in Providers :
           StartsCall(r, p) /\ streak[p] = Threshold =>
               clock - lastFail[p] >= Cooldown]_vars

(* Every request is answered: neither refusals nor failures loop for ever. *)
EveryRequestSettles ==
    \A r \in Requests :
        pc[r] \in {"calling", "next"} ~> pc[r] \in {"done", "failed"}
=============================================================================
