---------------------------- MODULE MeteredRouter ----------------------------
(***************************************************************************)
(* instrumentRouter (src/src/router/instrumented-router.ts) around         *)
(* withRateLimit (src/src/router/rate-limit.ts) around any router, and the *)
(* histogram of src/src/obs/metrics.ts that the former fills.              *)
(*                                                                         *)
(* Time is in milliseconds, and the clock is Date.now(): it may be set     *)
(* back.  Rate and burst are whole thousandths of a token, as the bucket   *)
(* gets tokensPerSec of those in a millisecond.  The code reckons in       *)
(* doubles: a refill, and the wait a refused caller is told, may each be   *)
(* off by rounding, by less than a unit, of which Grain are a thousandth   *)
(* of a token: with a burst of one token some 10^12.  To take a token from *)
(* a bucket that has one loses nothing.                                    *)
(***************************************************************************)
EXTENDS Integers, Sequences, FiniteSets

CONSTANTS
    Requests,   \* callers, each with one request at a time
    Rate,       \* tokensPerSec
    Burst,      \* burst, in thousandths of a token
    Grain,      \* units in a thousandth of a token
    Cap,        \* HISTOGRAM_CAP
    MaxClock,   \* bound of the model: the clock stops there
    MaxRoutes,  \* bound of the model: how many requests are made
    MaxBack     \* bound of the model: how often the clock is set back

VARIABLES
    phase,       \* of each caller: "idle", "inner" in the router, "refused"
    start,       \* when its request started
    clock,       \* now()
    tokens,      \* this.tokens, in units
    lastRefill,  \* this.lastRefillMs
    total,       \* the counter router.route.total
    histogram,   \* router.route.latency_ms of successes and of failures
    admitted,    \* history: when tokens were taken, by the latest time seen
    observed,    \* history: what was observed
    promised,    \* history: of each caller, the earliest time it was told, or
                 \* -1: since then nobody was let through, nor the clock set back
    back         \* history: how often the clock was set back

vars == <<phase, start, clock, tokens, lastRefill, total, histogram, admitted,
          observed, promised, back>>
meters == <<histogram, observed>>

Token == 1000 * Grain
Full == Burst * Grain
Speed == Rate * Grain  \* in units a millisecond

Init ==
    /\ phase = [r \in Requests |-> "idle"]
    /\ start = [r \in Requests |-> 0]
    /\ clock = 1 /\ lastRefill = 1 /\ tokens = Full
    /\ total = 0
    /\ histogram = [ok \in BOOLEAN |-> [ring |-> <<>>, writeIdx |-> 0]]
    /\ admitted = <<>> /\ observed = [ok \in BOOLEAN |-> <<>>]
    /\ promised = [r \in Requests |-> -1] /\ back = 0
-----------------------------------------------------------------------------
Roundings == {-1, 0, 1}

AtMost(level, limit) == IF level < limit THEN level ELSE limit

(* Variant: the parts of a token that a refill adds are dropped.           *)
Refilled_WholeTokens ==
    LET added == (clock - lastRefill) * Speed IN
    IF clock <= lastRefill THEN {tokens}
    ELSE {AtMost(tokens + (added \div Token) * Token, Full)}

(* What the bucket may have now: it never holds more than the burst, and a *)
(* clock that has not moved on fills nothing.                              *)
Refilled ==
    IF clock <= lastRefill THEN {tokens}
    ELSE {AtMost(tokens + (clock - lastRefill) * Speed + rounding, Full) : rounding \in Roundings}

(* Variant: the bucket counts from now on, also when now is earlier.       *)
RefillTime_Follows == clock
RefillTime == IF clock <= lastRefill THEN lastRefill ELSE clock

(* Math.ceil of the time it takes to fill up to a whole token: what is     *)
(* lacking is rounded, but never to nothing.                               *)
RetryAfter(level) ==
    {(lacking + Speed - 1) \div Speed :
        lacking \in {Token - level + rounding : rounding \in Roundings} \ {0}}

(* History: a promise stands until a token is taken or the clock set back. *)
Earlier(known, time) == IF known = -1 \/ time < known THEN time ELSE known

(* route: the bucket is filled, and has a token for the request or not.    *)
Route(r) ==
    /\ phase[r] = "idle" /\ total < MaxRoutes
    /\ total' = total + 1
    /\ start' = [start EXCEPT ![r] = clock]
    /\ lastRefill' = RefillTime
    /\ \E level \in Refilled :
          \/ /\ level < Token
             /\ tokens' = level
             /\ phase' = [phase EXCEPT ![r] = "refused"]
             /\ \E wait \in RetryAfter(level) :
                   promised' = IF clock < lastRefill THEN promised
                               ELSE [promised EXCEPT ![r] = Earlier(@, clock + wait)]
             /\ UNCHANGED admitted
          \/ /\ level >= Token
             /\ tokens' = level - Token
             /\ phase' = [phase EXCEPT ![r] = "inner"]
             /\ promised' = [q \in Requests |-> -1]
             /\ admitted' = Append(admitted, RefillTime)
    /\ UNCHANGED <<clock, back, meters>>

(* Variant: the place to write is not moved on.                            *)
Observe_InPlace(h, value) ==
    IF Len(h.ring) < Cap THEN [h EXCEPT !.ring = Append(@, value)]
    ELSE [h EXCEPT !.ring[h.writeIdx + 1] = value]

(* observe: the ring grows to its cap, and is then written round and round.*)
Observe(h, value) ==
    IF Len(h.ring) < Cap THEN [h EXCEPT !.ring = Append(@, value)]
    ELSE [ring |-> [h.ring EXCEPT ![h.writeIdx + 1] = value],
          writeIdx |-> (h.writeIdx + 1) % Cap]

(* The router answers or throws, and a refusal is thrown on: either way    *)
(* the time it took is observed.                                           *)
Settle(r, ok) ==
    /\ phase[r] = "inner" \/ (phase[r] = "refused" /\ ~ok)
    /\ phase' = [phase EXCEPT ![r] = "idle"]
    /\ start' = [start EXCEPT ![r] = 0]
    /\ histogram' = [histogram EXCEPT ![ok] = Observe(@, clock - start[r])]
    /\ observed' = [observed EXCEPT ![ok] = Append(@, clock - start[r])]
    /\ UNCHANGED <<clock, tokens, lastRefill, total, admitted, promised, back>>

Tick ==
    /\ clock < MaxClock
    /\ clock' = clock + 1
    /\ UNCHANGED <<phase, start, tokens, lastRefill, total, admitted, promised, back, meters>>

(* The system's clock is corrected.                                        *)
SetBack ==
    /\ clock > 0 /\ back < MaxBack
    /\ clock' = clock - 1
    /\ back' = back + 1
    /\ promised' = [r \in Requests |-> -1]
    /\ UNCHANGED <<phase, start, tokens, lastRefill, total, admitted, meters>>

Next ==
    \/ Tick \/ SetBack
    \/ \E r \in Requests : Route(r) \/ \E ok \in BOOLEAN : Settle(r, ok)

Spec == Init /\ [][Next]_vars
-----------------------------------------------------------------------------
(* Fewer than i samples are below the j-th, and at least i not above it.   *)
Below(s, j) == {k \in 1 .. Len(s) : s[k] < s[j]}
NotAbove(s, j) == {k \in 1 .. Len(s) : s[k] <= s[j]}
Ranked(s, i, j) == Cardinality(Below(s, j)) < i /\ i <= Cardinality(NotAbove(s, j))

(* The samples from the least to the largest.                              *)
Ascending(s) ==
    [i \in 1 .. Len(s) |-> s[CHOOSE j \in 1 .. Len(s) : Ranked(s, i, j)]]

(* percentile, in hundredths: between the two samples next to the rank.    *)
Between(sorted, rank) ==
    LET lo == rank \div 100
        frac == rank % 100 IN
    IF frac = 0 THEN 100 * sorted[lo + 1]
    ELSE sorted[lo + 1] * (100 - frac) + sorted[lo + 2] * frac

Percentile(sorted, q) == Between(sorted, q * (Len(sorted) - 1))

(* In any stretch of time no more requests are let through than the burst  *)
(* and what the rate adds in that time, also when the clock was set back   *)
(* and whatever the roundings.                                             *)
AdmissionBounded ==
    \A i, j \in 1 .. Len(admitted) :
        i <= j => 1000 * (j - i + 1) <= Burst + Rate * (admitted[j] - admitted[i])

(* A caller that was refused, and comes a millisecond later than it was    *)
(* told or after that, is let through, however many others were refused in *)
(* between, unless another was let through or the clock was set back; a    *)
(* burst of less than one token lets nobody through.  The millisecond is   *)
(* needed: the pieces of a token may add up to a little less than one.     *)
WaitAndOneMoreSuffices ==
    [][\A r \in Requests :
          Burst >= 1000 /\ phase[r] = "idle" /\ phase'[r] = "refused" /\ promised[r] >= 0
          => clock <= promised[r]]_vars

(* The ring holds the newest samples, up to its cap, read from the place   *)
(* that is written next; the percentiles of a snapshot are in order and    *)
(* between the least and the largest of them.                              *)
WindowIsNewest ==
    \A ok \in BOOLEAN :
        LET ring == histogram[ok].ring
            next == histogram[ok].writeIdx
            count == Len(observed[ok])
            sorted == Ascending(ring)
            p(q) == Percentile(sorted, q) IN
        /\ SubSeq(ring, next + 1, Len(ring)) \o SubSeq(ring, 1, next)
           = SubSeq(observed[ok], count - Len(ring) + 1, count)
        /\ Len(ring) = IF count < Cap THEN count ELSE Cap
        /\ ring # <<>> => /\ p(0) <= p(50) /\ p(50) <= p(95)
                          /\ p(95) <= p(99) /\ p(99) <= p(100)

(* The samples by their place in the ring: those up to the place that is   *)
(* written next are the newest, and the others are older by a ring.        *)
Holds(h, seen) ==
    LET count == Len(seen)
        size == Len(h.ring) IN
    /\ seen \in Seq(Int) /\ h \in [ring : Seq(Int), writeIdx : 0 .. Cap - 1]
    /\ size = IF count < Cap THEN count ELSE Cap
    /\ size < Cap => h.writeIdx = 0
    /\ \A i \in 1 .. size :
          h.ring[i] = seen[count + i - h.writeIdx - (IF i > h.writeIdx THEN size ELSE 0)]

Window ==
    /\ start \in [Requests -> Int]
    /\ histogram = [ok \in BOOLEAN |-> histogram[ok]]
    /\ observed = [ok \in BOOLEAN |-> observed[ok]]
    /\ \A ok \in BOOLEAN : Holds(histogram[ok], observed[ok])

(* What the bucket is made of; no token is taken in its future.            *)
Phases == phase \in [Requests -> {"idle", "inner", "refused"}]
Bucket ==
    /\ clock \in Int /\ lastRefill \in Int
    /\ tokens \in 0 .. Full
    /\ admitted \in Seq(Int)
    /\ \A i \in 1 .. Len(admitted) : admitted[i] <= lastRefill

(* The tokens taken since any of them, and those that are left, came from  *)
(* the burst and from what the rate has added since, with the roundings.   *)
Accounted ==
    /\ total \in 0 .. MaxRoutes
    /\ \A i \in 1 .. Len(admitted) :
          Token * (Len(admitted) - i + 1) + tokens
          <= Full + Speed * (lastRefill - admitted[i]) + total

(* While a promise stands the bucket will have a token when it is due, but *)
(* for the roundings; a refill after that time makes up for them.          *)
PromiseStands ==
    /\ promised \in [Requests -> Int]
    /\ \A r \in Requests : promised[r] # -1 =>
          /\ lastRefill <= clock
          /\ lastRefill <= promised[r] =>
                Token <= tokens + Speed * (promised[r] - lastRefill) + total
          /\ lastRefill > promised[r] => Token <= tokens

=============================================================================
