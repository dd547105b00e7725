------------------------ MODULE CircuitRouter_proofs ------------------------
(***************************************************************************)
(* Proofs about CircuitRouter, for any sets of providers and requests and  *)
(* any threshold, cooldown and retry budget.                               *)
(***************************************************************************)
EXTENDS CircuitRouter, SequenceLemmas, FiniteSetTheorems

LEMMA CircuitTypes ==
  /\ HalfOpen \in Circuits
  /\ \A n \in Nat : Closed(n) \in Circuits /\ Open(n) \in Circuits
BY DEF HalfOpen, Closed, Open, Circuits

(* A turn of the loop keeps the types of what it assigns.                  *)
LEMMA AttemptTypes ==
  ASSUME TypeOK, NEW r \in Requests, NEW order, NEW i \in Nat \ {0},
         Attempt(r, order, i)
  PROVE  /\ circ' \in [Providers -> Circuits]
         /\ pc' \in [Requests -> Settled \cup {"calling", "next"}]
         /\ idx' \in [Requests -> Nat \ {0}]
         /\ verdict' \in [Requests -> Verdicts]
         /\ DOMAIN ord' = Requests
<1>1. GateCircuit(order[i]) \in Circuits \/ order[i] \notin Providers
  BY CircuitTypes DEF GateCircuit, TypeOK
<1>2. circ' \in [Providers -> Circuits]
  BY <1>1 DEF Attempt, TypeOK
<1>3. pc' \in [Requests -> Settled \cup {"calling", "next"}]
  BY DEF Attempt, TypeOK
<1>4. idx' \in [Requests -> Nat \ {0}]
  BY DEF Attempt, TypeOK
<1>5. [verdict[r] EXCEPT ![order[i]] = "refused"] \in Verdicts
  BY DEF TypeOK, Verdicts
<1>6. verdict' \in [Requests -> Verdicts]
  BY <1>5 DEF Attempt, TypeOK
<1>7. DOMAIN ord' = Requests
  BY DEF Attempt, TypeOK
<1> QED BY <1>2, <1>3, <1>4, <1>6, <1>7

(* Type correctness of the router and its circuits.                        *)
THEOREM TypeCorrect == Spec => []TypeOK
<1> USE RouterAssumption
<1>1. Init => TypeOK
  BY CircuitTypes DEF Init, TypeOK, Settled, Verdicts
<1>2. TypeOK /\ [Next]_vars => TypeOK'
  <2> SUFFICES ASSUME TypeOK, [Next]_vars PROVE TypeOK'
    OBVIOUS
  <2>1. CASE Tick
    BY <2>1 DEF Tick, requestVars, historyVars, TypeOK
  <2>2. ASSUME NEW p \in Providers, Register(p) PROVE TypeOK'
    BY <2>2, CircuitTypes DEF Register, requestVars, TypeOK
  <2>3. ASSUME NEW r \in Requests, Route(r) PROVE TypeOK'
    <3>1. CASE Attempt(r, SelectProviders(registered, Policy, RouteHints), 1)
      BY <2>3, <3>1, AttemptTypes DEF Route, historyVars, TypeOK
    <3>2. CASE ~Attempt(r, SelectProviders(registered, Policy, RouteHints), 1)
      BY <2>3, <3>2 DEF Route, historyVars, TypeOK, Settled
    <3> QED BY <3>1, <3>2
  <2>4. ASSUME NEW r \in Requests, Succeed(r) PROVE TypeOK'
    <3>1. Closed(0) \in Circuits
      BY CircuitTypes
    <3>2. circ' \in [Providers -> Circuits]
      BY <2>4, <3>1 DEF Succeed, TypeOK
    <3> QED BY <2>4, <3>2 DEF Succeed, TypeOK, Settled
  <2>5. ASSUME NEW r \in Requests, Fail(r) PROVE TypeOK'
    <3> DEFINE p == ord[r][idx[r]]
    <3>1. FailureCircuit(p) \in Circuits \/ p \notin Providers
      BY CircuitTypes DEF FailureCircuit, TypeOK, Circuits
    <3>2. circ' \in [Providers -> Circuits]
      BY <2>5, <3>1 DEF Fail, TypeOK
    <3>3. [verdict[r] EXCEPT ![p] = "failed"] \in Verdicts
      BY DEF TypeOK, Verdicts
    <3>4. verdict' \in [Requests -> Verdicts]
      BY <2>5, <3>3 DEF Fail, TypeOK
    <3>5. (IF streak[p] < Threshold THEN streak[p] + 1 ELSE streak[p])
            \in 0 .. Threshold \/ p \notin Providers
      BY DEF TypeOK
    <3>6. streak' \in [Providers -> 0 .. Threshold]
      BY <2>5, <3>5 DEF Fail, TypeOK
    <3> HIDE DEF p
    <3> QED BY <2>5, <3>2, <3>4, <3>6 DEF Fail, TypeOK
  <2>6. ASSUME NEW r \in Requests, Continue(r) PROVE TypeOK'
    <3>1. CASE Attempt(r, ord[r], idx[r])
      <4>1. idx[r] \in Nat \ {0}
        BY DEF TypeOK
      <4> QED BY <2>6, <3>1, <4>1, AttemptTypes DEF Continue, historyVars, TypeOK
    <3>2. CASE ~Attempt(r, ord[r], idx[r])
      BY <2>6, <3>2 DEF Continue, historyVars, TypeOK, Settled
    <3> QED BY <3>1, <3>2
  <2>7. ASSUME NEW r \in Requests, Return(r) PROVE TypeOK'
    BY <2>7 DEF Return, historyVars, TypeOK, Settled, Verdicts
  <2>8. CASE UNCHANGED vars
    BY <2>8 DEF vars, TypeOK
  <2> QED
    BY <2>1, <2>2, <2>3, <2>4, <2>5, <2>6, <2>7, <2>8 DEF Next
<1>3. QED
  BY <1>1, <1>2, PTL DEF Spec

(* What the gate does to the circuits: it may half-open one that has       *)
(* waited out its cooldown, and it touches nothing else.                   *)
LEMMA GateKeepsCircuitInv ==
  ASSUME TypeOK, CircuitInv, NEW r \in Requests, NEW order, NEW i,
         Attempt(r, order, i), UNCHANGED <<clock, streak, lastFail>>
  PROVE  CircuitInv'
BY RouterAssumption
   DEF TypeOK, CircuitInv, Attempt, GateCircuit, CooledDown, HalfOpen, Circuits

(* The circuits agree with the history of failures they have been told.    *)
THEOREM CircuitAgrees == Spec => []CircuitInv
<1> USE RouterAssumption DEF CircuitInv, Closed, Open, HalfOpen
<1>1. Init => CircuitInv
  BY DEF Init
<1>2. TypeOK /\ CircuitInv /\ [Next]_vars => CircuitInv'
  <2> SUFFICES ASSUME TypeOK, CircuitInv, [Next]_vars PROVE CircuitInv'
    OBVIOUS
  <2>1. CASE Tick
    BY <2>1 DEF Tick, historyVars, TypeOK, Circuits
  <2>2. ASSUME NEW p \in Providers, Register(p) PROVE CircuitInv'
    BY <2>2 DEF Register, TypeOK, Circuits
  <2>3. ASSUME NEW r \in Requests, Route(r) PROVE CircuitInv'
    <3>1. CASE Attempt(r, SelectProviders(registered, Policy, RouteHints), 1)
      BY <2>3, <3>1, GateKeepsCircuitInv DEF Route, historyVars
    <3>2. CASE ~Attempt(r, SelectProviders(registered, Policy, RouteHints), 1)
      BY <2>3, <3>2 DEF Route, historyVars
    <3> QED BY <3>1, <3>2
  <2>4. ASSUME NEW r \in Requests, Succeed(r) PROVE CircuitInv'
    BY <2>4 DEF Succeed, TypeOK, Circuits
  <2>5. ASSUME NEW r \in Requests, Fail(r) PROVE CircuitInv'
    <3> SUFFICES ASSUME NEW q \in Providers PROVE CircuitInv!(q)'
      OBVIOUS
    <3> DEFINE p == ord[r][idx[r]]
    <3>1. CASE q # p
      <4>1. circ'[q] = circ[q] /\ streak'[q] = streak[q]
            /\ lastFail'[q] = lastFail[q] /\ clock' = clock
        BY <2>5, <3>1 DEF Fail, TypeOK
      <4> QED BY <4>1
    <3>2. CASE q = p
      <4>1. /\ circ'[q] = FailureCircuit(q)
            /\ streak'[q] = IF streak[q] < Threshold
                            THEN streak[q] + 1 ELSE streak[q]
            /\ lastFail'[q] = clock /\ clock' = clock
        BY <2>5, <3>2 DEF Fail, TypeOK
      <4> HIDE DEF p
      <4> QED BY <4>1 DEF FailureCircuit, TypeOK, Circuits
    <3> QED BY <3>1, <3>2
  <2>6. ASSUME NEW r \in Requests, Continue(r) PROVE CircuitInv'
    <3>1. CASE Attempt(r, ord[r], idx[r])
      BY <2>6, <3>1, GateKeepsCircuitInv DEF Continue, historyVars
    <3>2. CASE ~Attempt(r, ord[r], idx[r])
      BY <2>6, <3>2 DEF Continue, historyVars
    <3> QED BY <3>1, <3>2
  <2>7. ASSUME NEW r \in Requests, Return(r) PROVE CircuitInv'
    BY <2>7 DEF Return, historyVars
  <2>8. CASE UNCHANGED vars
    BY <2>8 DEF vars
  <2> QED
    BY <2>1, <2>2, <2>3, <2>4, <2>5, <2>6, <2>7, <2>8 DEF Next
<1>3. QED
  BY <1>1, <1>2, TypeCorrect, PTL DEF Spec

(* A circuit is closed exactly while fewer than Threshold failures have    *)
(* come since the provider's last success.                                 *)
THEOREM OpensWhenEarned == Spec => []OpenIffEarned
<1>1. TypeOK /\ CircuitInv => OpenIffEarned
  BY RouterAssumption DEF TypeOK, CircuitInv, OpenIffEarned, Circuits
<1>2. QED
  BY <1>1, TypeCorrect, CircuitAgrees, PTL

(* A call that the gate lets start finds the cooldown over.                *)
LEMMA GateWaits ==
  ASSUME TypeOK, CircuitInv,
         NEW s \in Requests, NEW order, NEW i, Attempt(s, order, i),
         NEW r \in Requests, NEW p \in Providers,
         StartsCall(r, p), streak[p] = Threshold
  PROVE  clock - lastFail[p] >= Cooldown
<1>1. s = r /\ GatePasses(order[i]) /\ order[i] = p
  <2>1. pc'[r] # pc[r] /\ pc'[r] = "calling" /\ ord'[r][idx'[r]] = p
    BY DEF StartsCall
  <2>2. s = r
    BY <2>1 DEF Attempt, TypeOK
  <2>3. GatePasses(order[i])
    BY <2>1, <2>2 DEF Attempt, TypeOK
  <2>4. idx'[r] = i
    BY <2>2, <2>3 DEF Attempt, TypeOK
  <2>5. ord'[r] = order
    BY <2>2 DEF Attempt, TypeOK
  <2> QED BY <2>1, <2>2, <2>3, <2>4, <2>5
<1>2. circ[p].status \in {"open", "half-open"}
  BY RouterAssumption DEF TypeOK, CircuitInv, Circuits
<1>3. QED
  BY <1>1, <1>2 DEF GatePasses, CooledDown, CircuitInv

(* The promise of the breaker, whatever the interleaving of requests.      *)
THEOREM BreakerLeavesAlone == Spec => LeftAloneAfterFailures
<1> DEFINE LeftAlone ==
      \A r \in Requests, p \in Providers :
          StartsCall(r, p) /\ streak[p] = Threshold =>
              clock - lastFail[p] >= Cooldown
<1>1. TypeOK /\ CircuitInv /\ [Next]_vars => [LeftAlone]_vars
  <2> SUFFICES ASSUME TypeOK, CircuitInv, Next,
                      NEW r \in Requests, NEW p \in Providers,
                      StartsCall(r, p), streak[p] = Threshold
               PROVE  clock - lastFail[p] >= Cooldown
    OBVIOUS
  <2>1. pc'[r] = "calling" /\ pc[r] # "calling"
    BY DEF StartsCall
  <2>2. PICK s \in Requests : Route(s) \/ Continue(s)
    BY <2>1 DEF Next, Tick, Register, Succeed, Fail, Return, requestVars, TypeOK
  <2>3. \E order, i : Attempt(s, order, i)
    BY <2>1, <2>2 DEF Route, Continue, TypeOK
  <2> QED BY <2>3, GateWaits
<1>2. QED
  BY <1>1, TypeCorrect, CircuitAgrees, PTL DEF Spec, LeftAloneAfterFailures
-----------------------------------------------------------------------------
(* A selection in the order of ranks that tell its elements apart names    *)
(* each of them in one place: as many have a lower rank as come before it. *)
LEMMA SortedOrder ==
  ASSUME NEW S, IsFiniteSet(S), NEW rank,
         \A p \in S : rank[p] \in Nat, \A p, q \in S : rank[p] = rank[q] => p = q
  PROVE  /\ Sorted(S, rank) \in Seq(S)
         /\ \A i, j \in 1 .. Len(Sorted(S, rank)) :
                Sorted(S, rank)[i] = Sorted(S, rank)[j] => i = j
<1> DEFINE Below(p) == {q \in S : rank[q] < rank[p]}
           n == Cardinality(S)
           place == [p \in S |-> Cardinality(Below(p)) + 1]
<1>1. n \in Nat
  BY FS_CardinalityType
<1>2. ASSUME NEW p \in S
      PROVE  IsFiniteSet(Below(p)) /\ Cardinality(Below(p)) \in Nat /\ Cardinality(Below(p)) < n
  <2>1. Below(p) \in SUBSET S /\ p \notin Below(p)
    OBVIOUS
  <2> HIDE DEF Below
  <2>2. IsFiniteSet(Below(p)) /\ Cardinality(Below(p)) <= n /\ Cardinality(Below(p)) # n
    BY <2>1, FS_Subset
  <2> QED BY <1>1, <2>2, FS_CardinalityType
<1>3. ASSUME NEW p \in S, NEW q \in S, rank[p] < rank[q]
      PROVE  Cardinality(Below(p)) # Cardinality(Below(q))
  <2>1. Below(p) \in SUBSET Below(q) /\ p \in Below(q) /\ p \notin Below(p)
    BY <1>3
  <2> HIDE DEF Below
  <2> QED BY <1>2, <2>1, FS_Subset
<1>4. \A p, q \in S : Cardinality(Below(p)) = Cardinality(Below(q)) => p = q
  <2> SUFFICES ASSUME NEW p \in S, NEW q \in S, p # q
               PROVE  Cardinality(Below(p)) # Cardinality(Below(q))
    OBVIOUS
  <2>1. rank[p] < rank[q] \/ rank[q] < rank[p]
    OBVIOUS
  <2> HIDE DEF Below
  <2> QED BY <1>2, <1>3, <2>1
<1> HIDE DEF Below
<1>5. place \in Injection(S, 1 .. n)
  <2>1. place \in [S -> 1 .. n]
    BY <1>1, <1>2
  <2>2. \A p, q \in S : place[p] = place[q] => p = q
    BY <1>2, <1>4
  <2> QED BY <2>1, <2>2 DEF Injection, IsInjective
<1>6. place \in Surjection(S, 1 .. n)
  <2>1. IsFiniteSet(1 .. n) /\ Cardinality(1 .. n) = n
    BY <1>1, FS_Interval
  <2> HIDE DEF place
  <2> QED BY <1>5, <2>1, FS_Injection
<1>7. \A i \in 1 .. n : \E p \in S : Cardinality(Below(p)) = i - 1
  <2> TAKE i \in 1 .. n
  <2>1. PICK p \in S : place[p] = i
    BY <1>6 DEF Surjection
  <2> QED BY <1>2, <2>1
<1> DEFINE s == [i \in 1 .. n |-> CHOOSE p \in S : Cardinality(Below(p)) = i - 1]
<1>8. \A i \in 1 .. n : s[i] \in S /\ Cardinality(Below(s[i])) = i - 1
  BY <1>7
<1>9. Sorted(S, rank) = s
  BY DEF Sorted, Below
<1> HIDE DEF s
<1>10. s \in [1 .. n -> S]
  BY <1>8, <1>9 DEF Sorted
<1>11. s \in Seq(S) /\ Len(s) = n
  BY <1>1, <1>10
<1> QED BY <1>1, <1>8, <1>9, <1>11

(* A filter keeps the order of registration, and what it keeps.            *)
LEMMA FilteredOrder ==
  ASSUME NEW reg, NoRepeats(reg), NEW S
  PROVE  /\ NoRepeats(Filtered(reg, S))
         /\ \A i \in 1 .. Len(Filtered(reg, S)) : Filtered(reg, S)[i] \in S
<1> DEFINE T == S \cap ToSet(reg)
<1>1. Len(reg) \in Nat /\ DOMAIN reg = 1 .. Len(reg) /\ \A i \in 1 .. Len(reg) : reg[i] \in Providers
  BY DEF NoRepeats
<1>2. IsFiniteSet(ToSet(reg))
  <2>1. reg \in Surjection(1 .. Len(reg), ToSet(reg))
    BY <1>1 DEF Surjection, ToSet, NoRepeats
  <2> QED BY <1>1, <2>1, FS_Interval, FS_Surjection
<1>3. T \in SUBSET ToSet(reg) /\ ToSet(reg) \subseteq Providers
  BY <1>1 DEF ToSet
<1>4. IsFiniteSet(T)
  BY <1>2, <1>3, FS_Subset
<1>5. \A p \in ToSet(reg) : Place(reg)[p] \in 1 .. Len(reg) /\ reg[Place(reg)[p]] = p
  BY <1>1 DEF Place, ToSet
<1>6. /\ \A p \in T : Place(reg)[p] \in Nat
      /\ \A p, q \in T : Place(reg)[p] = Place(reg)[q] => p = q
  BY <1>1, <1>3, <1>5
<1> DEFINE s == Sorted(T, Place(reg))
<1>7. s \in Seq(T) /\ \A i, j \in 1 .. Len(s) : s[i] = s[j] => i = j
  <2> HIDE DEF T
  <2> QED BY <1>4, <1>6, SortedOrder
<1>8. Filtered(reg, S) = s
  BY DEF Filtered
<1> HIDE DEF s
<1>9. \A i \in 1 .. Len(s) : s[i] \in T
  BY <1>7
<1>10. s \in Seq(Providers)
  BY <1>3, <1>7
<1> QED BY <1>7, <1>8, <1>9, <1>10 DEF NoRepeats

(* Two parts with nothing in common.                                       *)
LEMMA Joined ==
  ASSUME NEW s, NEW t, NoRepeats(s), NoRepeats(t),
         \A i \in 1 .. Len(s), j \in 1 .. Len(t) : s[i] # t[j]
  PROVE  NoRepeats(s \o t)
<1>1. s \in Seq(Providers) /\ t \in Seq(Providers) /\ Len(s) \in Nat /\ Len(t) \in Nat
  BY DEF NoRepeats
<1>2. /\ s \o t \in Seq(Providers) /\ Len(s \o t) = Len(s) + Len(t)
      /\ \A i \in 1 .. Len(s) + Len(t) :
             (s \o t)[i] = IF i <= Len(s) THEN s[i] ELSE t[i - Len(s)]
  BY <1>1, ConcatProperties
<1>3. ASSUME NEW i \in 1 .. Len(s) + Len(t), NEW j \in 1 .. Len(s) + Len(t),
             (s \o t)[i] = (s \o t)[j]
      PROVE  i = j
  <2>1. CASE i <= Len(s) /\ j <= Len(s)
    BY <1>1, <1>2, <1>3, <2>1 DEF NoRepeats
  <2>2. CASE i > Len(s) /\ j > Len(s)
    <3>1. i - Len(s) \in 1 .. Len(t) /\ j - Len(s) \in 1 .. Len(t)
      BY <1>1, <2>2
    <3>2. t[i - Len(s)] = t[j - Len(s)]
      BY <1>1, <1>2, <1>3, <2>2
    <3>3. i - Len(s) = j - Len(s)
      BY <3>1, <3>2 DEF NoRepeats
    <3> QED BY <1>1, <3>3
  <2>3. CASE i <= Len(s) /\ j > Len(s)
    BY <1>1, <1>2, <1>3, <2>3
  <2>4. CASE i > Len(s) /\ j <= Len(s)
    BY <1>1, <1>2, <1>3, <2>4
  <2> QED BY <1>1, <2>1, <2>2, <2>3, <2>4
<1> QED BY <1>2, <1>3 DEF NoRepeats

(* No policy and no hint names a provider twice.                           *)
LEMMA SelectedOnce ==
  ASSUME NEW reg, NoRepeats(reg)
  PROVE  NoRepeats(SelectProviders(reg, Policy, RouteHints))
<1>1. ASSUME NEW kind PROVE NoRepeats(KindFirst(reg, kind))
  <2>1. /\ NoRepeats(Filtered(reg, OfKind({kind})))
        /\ NoRepeats(Filtered(reg, Providers \ OfKind({kind})))
        /\ \A i \in 1 .. Len(Filtered(reg, OfKind({kind}))) :
               Filtered(reg, OfKind({kind}))[i] \in OfKind({kind})
        /\ \A i \in 1 .. Len(Filtered(reg, Providers \ OfKind({kind}))) :
               Filtered(reg, Providers \ OfKind({kind}))[i] \in Providers \ OfKind({kind})
    BY FilteredOrder
  <2> QED BY <2>1, Joined DEF KindFirst
<1>2. NoRepeats(SelectManual(reg, RouteHints))
  BY FilteredOrder DEF SelectManual
<1>3. NoRepeats(ById(OfKind({"local"}) \cap ToSet(reg)) \o ById(OfKind({"cloud"}) \cap ToSet(reg)))
  <2>1. ASSUME NEW kind
        PROVE  /\ NoRepeats(ById(OfKind({kind}) \cap ToSet(reg)))
               /\ \A i \in 1 .. Len(ById(OfKind({kind}) \cap ToSet(reg))) :
                      ById(OfKind({kind}) \cap ToSet(reg))[i] \in OfKind({kind})
    <3> DEFINE T == OfKind({kind}) \cap ToSet(reg)
               s == Sorted(T, IdRank)
    <3>1. Len(reg) \in Nat /\ DOMAIN reg = 1 .. Len(reg)
      BY DEF NoRepeats
    <3>2. reg \in Surjection(1 .. Len(reg), ToSet(reg))
      BY <3>1 DEF Surjection, ToSet, NoRepeats
    <3>3. IsFiniteSet(ToSet(reg))
      BY <3>1, <3>2, FS_Interval, FS_Surjection
    <3>4. T \in SUBSET ToSet(reg) /\ T \subseteq Providers
      BY DEF OfKind
    <3>5. IsFiniteSet(T)
      BY <3>3, <3>4, FS_Subset
    <3>6. \A p \in T : IdRank[p] \in Nat /\ \A q \in T : IdRank[p] = IdRank[q] => p = q
      BY <3>4, ProviderAssumption
    <3> HIDE DEF T
    <3>7. s \in Seq(T) /\ \A i, j \in 1 .. Len(s) : s[i] = s[j] => i = j
      BY <3>5, <3>6, SortedOrder
    <3> HIDE DEF s
    <3>8. s \in Seq(Providers) /\ \A i \in 1 .. Len(s) : s[i] \in T
      BY <3>4, <3>7
    <3>9. NoRepeats(s) /\ \A i \in 1 .. Len(s) : s[i] \in OfKind({kind})
      BY <3>7, <3>8 DEF NoRepeats, T
    <3> QED BY <3>9 DEF s, T, ById
  <2>2. OfKind({"local"}) \cap OfKind({"cloud"}) = {}
    BY DEF OfKind
  <2> QED BY <2>1, <2>2, Joined
<1> QED BY <1>1, <1>2, <1>3, RouterAssumption DEF SelectProviders, Policies
(* What one request knows of its attempts.                                 *)
Attempted(order, i, answers) ==
    /\ NoRepeats(order) /\ i \in Nat \ {0} /\ i <= MaxAttempts(order) + 1
    /\ answers \in Verdicts
    /\ \A k \in 1 .. Len(order) : answers[order[k]] = "none" <=> k >= i

At(p, order, i, answers) ==
    /\ Attempted(order, i, answers)
    /\ p = "calling" => i <= MaxAttempts(order)
    /\ p = "failed"  => i > MaxAttempts(order)
    /\ p = "idle"    => i = 1 /\ \A q \in Providers : answers[q] = "none"

LEMMA AttemptsParts ==
  ASSUME TypeOK
  PROVE  AttemptsInv <=> /\ NoRepeats(registered)
                         /\ \A r \in Requests : At(pc[r], ord[r], idx[r], verdict[r])
BY DEF AttemptsInv, At, Attempted, TypeOK

LEMMA Budget ==
  ASSUME NEW order, NoRepeats(order)
  PROVE  /\ MaxAttempts(order) \in Nat /\ MaxAttempts(order) <= Len(order)
         /\ Len(order) \in Nat /\ (order # <<>> => MaxAttempts(order) >= 1)
<1>1. Len(order) \in Nat /\ (order # <<>> => Len(order) # 0)
  BY DEF NoRepeats
<1> QED BY <1>1, RouterAssumption DEF MaxAttempts

(* The provider at the index answers, and the index moves on.              *)
LEMMA AnswerMovesOn ==
  ASSUME NEW order, NEW i, NEW answers, Attempted(order, i, answers),
         i <= MaxAttempts(order), NEW what \in {"failed", "refused"}
  PROVE  Attempted(order, i + 1, [answers EXCEPT ![order[i]] = what])
<1> DEFINE after == [answers EXCEPT ![order[i]] = what]
<1>1. /\ MaxAttempts(order) \in Nat /\ MaxAttempts(order) <= Len(order) /\ Len(order) \in Nat
      /\ i \in Nat \ {0} /\ NoRepeats(order)
  BY Budget DEF Attempted
<1>2. i \in 1 .. Len(order) /\ i + 1 \in Nat \ {0} /\ i + 1 <= MaxAttempts(order) + 1
  BY <1>1
<1>3. \A k \in 1 .. Len(order) : order[k] \in Providers /\ (order[k] = order[i] => k = i)
  BY <1>1, <1>2 DEF NoRepeats
<1>4. after \in Verdicts /\ after[order[i]] = what
      /\ \A k \in 1 .. Len(order) : k # i => after[order[k]] = answers[order[k]]
  BY <1>2, <1>3 DEF Attempted, Verdicts
<1> HIDE DEF after
<1>5. ASSUME NEW k \in 1 .. Len(order) PROVE after[order[k]] = "none" <=> k >= i + 1
  <2>1. CASE k = i
    BY <1>1, <1>4, <2>1
  <2>2. CASE k # i
    <3>1. answers[order[k]] = "none" <=> k >= i
      BY DEF Attempted
    <3>2. k >= i <=> k >= i + 1
      BY <1>1, <2>2
    <3> QED BY <1>4, <2>2, <3>1, <3>2
  <2> QED BY <2>1, <2>2
<1> QED BY <1>1, <1>2, <1>4, <1>5 DEF Attempted, after

(* One turn of the loop.                                                   *)
LEMMA AttemptStep ==
  ASSUME TypeOK, AttemptsInv, NEW r \in Requests, NEW order, NEW i,
         Attempted(order, i, verdict[r]), i <= MaxAttempts(order),
         Attempt(r, order, i), registered' = registered
  PROVE  /\ NoRepeats(registered')
         /\ \A s \in Requests : At(pc'[s], ord'[s], idx'[s], verdict'[s])
<1>1. NoRepeats(registered) /\ \A s \in Requests : At(pc[s], ord[s], idx[s], verdict[s])
  BY AttemptsParts
<1>2. \A s \in Requests : s # r =>
          pc'[s] = pc[s] /\ ord'[s] = ord[s] /\ idx'[s] = idx[s] /\ verdict'[s] = verdict[s]
  BY DEF Attempt, TypeOK
<1>3. \/ pc'[r] = "calling" /\ ord'[r] = order /\ idx'[r] = i /\ verdict'[r] = verdict[r]
      \/ /\ pc'[r] = "next" /\ ord'[r] = order /\ idx'[r] = i + 1
         /\ verdict'[r] = [verdict[r] EXCEPT ![order[i]] = "refused"]
  BY DEF Attempt, TypeOK
<1>4. Attempted(order, i + 1, [verdict[r] EXCEPT ![order[i]] = "refused"])
  BY AnswerMovesOn
<1>5. At(pc'[r], ord'[r], idx'[r], verdict'[r])
  BY <1>3, <1>4 DEF At
<1> QED BY <1>1, <1>2, <1>5

LEMMA AttemptsInit ==
  ASSUME Init PROVE AttemptsInv
<1>1. NoRepeats(<<>>) /\ Len(<<>>) = 0
  BY DEF NoRepeats
<1>2. MaxAttempts(<<>>) = 0
  BY <1>1, RouterAssumption DEF MaxAttempts
<1> QED BY <1>1, <1>2 DEF Init, AttemptsInv

LEMMA AttemptsStep ==
  ASSUME TypeOK, TypeOK', AttemptsInv, [Next]_vars
  PROVE  AttemptsInv'
<1> DEFINE Goal == NoRepeats(registered') /\ \A s \in Requests : At(pc'[s], ord'[s], idx'[s], verdict'[s])
<1>1. NoRepeats(registered) /\ \A s \in Requests : At(pc[s], ord[s], idx[s], verdict[s])
  BY AttemptsParts
<1>2. Goal => AttemptsInv'
  BY DEF AttemptsInv, At, Attempted, TypeOK
<1>3. registered' = registered /\ requestVars' = requestVars => Goal
  BY <1>1 DEF requestVars
<1>4. ASSUME NEW p \in Providers, Register(p) PROVE Goal
  <2>1. UNCHANGED requestVars
    BY <1>4 DEF Register
  <2>2. CASE Contains(registered, p)
    <3>1. registered' = registered
      BY <1>4, <2>2 DEF Register
    <3> QED BY <1>1, <2>1, <3>1 DEF requestVars
  <2>3. CASE ~Contains(registered, p)
    <3> DEFINE n == Len(registered)
    <3>1. registered' = Append(registered, p) /\ registered \in Seq(Providers) /\ n \in Nat
      BY <1>1, <1>4, <2>3 DEF Register, NoRepeats
    <3>2. /\ registered' \in Seq(Providers) /\ Len(registered') = n + 1
          /\ \A i \in 1 .. n : registered'[i] = registered[i]
          /\ registered'[n + 1] = p
      BY <3>1, AppendProperties
    <3>3. \A i \in 1 .. n : registered[i] # p
      BY <2>3, <3>1 DEF Contains
    <3>4. ASSUME NEW i \in 1 .. n + 1, NEW j \in 1 .. n + 1, registered'[i] = registered'[j]
          PROVE  i = j
      <4>1. i \in 1 .. n \/ i = n + 1
        BY <3>1
      <4>2. j \in 1 .. n \/ j = n + 1
        BY <3>1
      <4> HIDE DEF n
      <4>3. CASE i \in 1 .. n /\ j \in 1 .. n
        BY <1>1, <3>2, <3>4, <4>3 DEF NoRepeats, n
      <4> QED BY <3>2, <3>3, <3>4, <4>1, <4>2, <4>3
    <3>5. NoRepeats(registered')
      BY <3>2, <3>4 DEF NoRepeats
    <3> QED BY <1>1, <2>1, <3>5 DEF requestVars
  <2> QED BY <2>2, <2>3
<1>5. ASSUME NEW r \in Requests, Route(r) PROVE Goal
  <2> DEFINE order == SelectProviders(registered, Policy, RouteHints)
  <2>1. NoRepeats(order)
    BY <1>1, SelectedOnce
  <2>2. pc[r] = "idle" /\ registered' = registered
    BY <1>5 DEF Route
  <2>3. /\ idx[r] = 1 /\ verdict[r] \in Verdicts
        /\ \A p \in Providers : verdict[r][p] = "none"
    BY <1>1, <2>2 DEF At, TypeOK
  <2>4. \/ order # <<>> /\ Attempt(r, order, 1)
        \/ /\ order = <<>> /\ pc' = [pc EXCEPT ![r] = "failed"]
           /\ ord' = [ord EXCEPT ![r] = <<>>] /\ idx' = idx /\ verdict' = verdict
    BY <1>5 DEF Route
  <2> HIDE DEF order
  <2>5. /\ MaxAttempts(order) \in Nat /\ MaxAttempts(order) <= Len(order)
        /\ Len(order) \in Nat /\ (order # <<>> => MaxAttempts(order) >= 1)
    BY <2>1, Budget
  <2>6. \A k \in 1 .. Len(order) : order[k] \in Providers /\ k >= 1
    BY <2>1 DEF NoRepeats
  <2>7. Attempted(order, 1, verdict[r])
    BY <2>1, <2>3, <2>5, <2>6 DEF Attempted
  <2>8. CASE order # <<>> /\ Attempt(r, order, 1)
    BY <2>2, <2>5, <2>7, <2>8, AttemptStep
  <2>9. CASE /\ order = <<>> /\ pc' = [pc EXCEPT ![r] = "failed"]
             /\ ord' = [ord EXCEPT ![r] = <<>>] /\ idx' = idx /\ verdict' = verdict
    <3>1. \A s \in Requests : s # r => pc'[s] = pc[s] /\ ord'[s] = ord[s]
      BY <2>9 DEF TypeOK
    <3>2. pc'[r] = "failed" /\ ord'[r] = order
      BY <2>9 DEF TypeOK
    <3>3. MaxAttempts(order) = 0
      <4>1. Len(order) = 0
        BY <2>9
      <4> QED BY <2>5, <4>1
    <3>4. At(pc'[r], ord'[r], idx'[r], verdict'[r])
      BY <2>3, <2>7, <2>9, <3>2, <3>3 DEF At
    <3> QED BY <1>1, <2>2, <2>9, <3>1, <3>4
  <2> QED BY <2>4, <2>8, <2>9
<1>6. ASSUME NEW r \in Requests, Succeed(r) PROVE Goal
  <2>1. /\ registered' = registered /\ ord' = ord /\ idx' = idx /\ verdict' = verdict
        /\ pc'[r] = "done" /\ \A s \in Requests : s # r => pc'[s] = pc[s]
    BY <1>6 DEF Succeed, TypeOK
  <2>2. Attempted(ord[r], idx[r], verdict[r])
    BY <1>1 DEF At
  <2>3. At("done", ord[r], idx[r], verdict[r])
    BY <2>2 DEF At
  <2> QED BY <1>1, <2>1, <2>3
<1>7. ASSUME NEW r \in Requests, Fail(r) PROVE Goal
  <2>1. /\ registered' = registered /\ ord' = ord
        /\ pc'[r] = "next" /\ \A s \in Requests : s # r => pc'[s] = pc[s]
        /\ idx'[r] = idx[r] + 1 /\ \A s \in Requests : s # r => idx'[s] = idx[s]
        /\ verdict'[r] = [verdict[r] EXCEPT ![ord[r][idx[r]]] = "failed"]
        /\ \A s \in Requests : s # r => verdict'[s] = verdict[s]
    BY <1>7 DEF Fail, TypeOK
  <2>2. pc[r] = "calling"
    BY <1>7 DEF Fail
  <2>3. Attempted(ord[r], idx[r], verdict[r]) /\ idx[r] <= MaxAttempts(ord[r])
    BY <1>1, <2>2 DEF At
  <2>4. Attempted(ord[r], idx[r] + 1, [verdict[r] EXCEPT ![ord[r][idx[r]]] = "failed"])
    BY <2>3, AnswerMovesOn
  <2>5. At("next", ord[r], idx'[r], verdict'[r])
    BY <2>1, <2>4 DEF At
  <2> QED BY <1>1, <2>1, <2>5
<1>8. ASSUME NEW r \in Requests, Continue(r) PROVE Goal
  <2>1. registered' = registered
    BY <1>8 DEF Continue
  <2>2. Attempted(ord[r], idx[r], verdict[r])
    BY <1>1 DEF At
  <2>3. CASE idx[r] <= MaxAttempts(ord[r]) /\ Attempt(r, ord[r], idx[r])
    BY <2>1, <2>2, <2>3, AttemptStep
  <2>4. CASE /\ idx[r] > MaxAttempts(ord[r]) /\ pc' = [pc EXCEPT ![r] = "failed"]
             /\ ord' = ord /\ idx' = idx /\ verdict' = verdict
    <3>1. pc'[r] = "failed" /\ \A s \in Requests : s # r => pc'[s] = pc[s]
      BY <2>4 DEF TypeOK
    <3>2. At("failed", ord[r], idx[r], verdict[r])
      BY <2>2, <2>4 DEF At
    <3> QED BY <1>1, <2>1, <2>4, <3>1, <3>2
  <2> QED BY <1>8, <2>3, <2>4 DEF Continue
<1>9. ASSUME NEW r \in Requests, Return(r) PROVE Goal
  <2>1. /\ registered' = registered
        /\ pc'[r] = "idle" /\ \A s \in Requests : s # r => pc'[s] = pc[s]
        /\ ord'[r] = <<>> /\ \A s \in Requests : s # r => ord'[s] = ord[s]
        /\ idx'[r] = 1 /\ \A s \in Requests : s # r => idx'[s] = idx[s]
        /\ verdict'[r] = [p \in Providers |-> "none"]
        /\ \A s \in Requests : s # r => verdict'[s] = verdict[s]
    BY <1>9 DEF Return, TypeOK
  <2>2. NoRepeats(<<>>) /\ Len(<<>>) = 0
    BY DEF NoRepeats
  <2>3. MaxAttempts(<<>>) = 0
    BY <2>2, RouterAssumption DEF MaxAttempts
  <2>4. At("idle", <<>>, 1, [p \in Providers |-> "none"])
    BY <2>2, <2>3 DEF At, Attempted, Verdicts
  <2> QED BY <1>1, <2>1, <2>4
<1> HIDE DEF Goal
<1>10. CASE Tick
  <2>1. registered' = registered /\ requestVars' = requestVars
    BY <1>10 DEF Tick
  <2> QED BY <1>2, <1>3, <2>1
<1>11. CASE UNCHANGED vars
  <2>1. registered' = registered /\ requestVars' = requestVars
    BY <1>11 DEF vars, requestVars
  <2> QED BY <1>2, <1>3, <2>1
<1> QED BY <1>2, <1>4, <1>5, <1>6, <1>7, <1>8, <1>9, <1>10, <1>11 DEF Next

(* When route gives up, each provider within the budget has failed or was  *)
(* refused for this very request and no other was asked, for any policy,   *)
(* hints, budget and interleaving of requests (router.ts).                 *)
THEOREM BudgetIsExhausted == Spec => []ExhaustedBeforeFailing
<1>1. Init => AttemptsInv
  BY AttemptsInit
<1>2. TypeOK /\ TypeOK' /\ AttemptsInv /\ [Next]_vars => AttemptsInv'
  BY AttemptsStep
<1>3. TypeOK /\ AttemptsInv => ExhaustedBeforeFailing
  <2> SUFFICES ASSUME TypeOK, AttemptsInv, NEW r \in Requests, pc[r] = "failed"
               PROVE  /\ \A i \in 1 .. MaxAttempts(ord[r]) : verdict[r][ord[r][i]] # "none"
                      /\ \A i \in MaxAttempts(ord[r]) + 1 .. Len(ord[r]) :
                             verdict[r][ord[r][i]] = "none"
    BY DEF ExhaustedBeforeFailing
  <2>1. /\ NoRepeats(ord[r]) /\ idx[r] <= MaxAttempts(ord[r]) + 1 /\ idx[r] > MaxAttempts(ord[r])
        /\ \A i \in 1 .. Len(ord[r]) : verdict[r][ord[r][i]] = "none" <=> i >= idx[r]
    BY DEF AttemptsInv
  <2>2. /\ MaxAttempts(ord[r]) \in Nat /\ MaxAttempts(ord[r]) <= Len(ord[r])
        /\ Len(ord[r]) \in Nat /\ idx[r] \in Nat
    BY <2>1, Budget DEF TypeOK
  <2> QED BY <2>1, <2>2
<1> QED BY <1>1, <1>2, <1>3, TypeCorrect, PTL DEF Spec
=============================================================================
