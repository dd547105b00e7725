---------------------------- MODULE Observability ----------------------------
(***************************************************************************)
(* What a program can see of itself: the log file it writes, or the        *)
(* metrics of its router.  A behaviour is about one of the two; nothing    *)
(* happens in the other.                                                   *)
(***************************************************************************)
EXTENDS FileSink

CONSTANTS
    Requests, Rate, Burst, Grain, Cap, MaxClock, MaxRoutes, MaxBack
        \* those of MeteredRouter

ASSUME MeterAssumption ==
    /\ Rate \in Nat \ {0} /\ Burst \in Nat \ {0} /\ Cap \in Nat \ {0}
    /\ MaxClock \in Nat /\ MaxRoutes \in Nat /\ MaxBack \in Nat
    /\ Grain \in Nat /\ MaxRoutes < Grain
          \* roundings, one a refill, do not add up to a thousandth of a token

VARIABLES
    part,  \* "sink" or "router"
    phase, start, clock, tokens, lastRefill, total, histogram, admitted,
    observed, promised, back  \* those of MeteredRouter

Meter == INSTANCE MeteredRouter

meterVars == <<phase, start, clock, tokens, lastRefill, total, histogram,
               admitted, observed, promised, back>>

ObservabilityInit == Init /\ Meter!Init /\ part \in {"sink", "router"}

ObservabilityNext ==
    \/ part = "sink" /\ Next /\ UNCHANGED <<meterVars, part>>
    \/ part = "router" /\ Meter!Next /\ UNCHANGED <<vars, part>>

(* Nothing is asked of the callers and of the router inside.               *)
ObservabilitySpec ==
    ObservabilityInit /\ [][ObservabilityNext]_<<vars, meterVars, part>> /\ Fairness
-----------------------------------------------------------------------------
(* In any stretch of time no more requests are let through than the burst  *)
(* and what the rate adds in that time, also when the clock was set back.  *)
AdmissionBounded == Meter!AdmissionBounded

(* A caller that was refused, and comes a millisecond later than it was    *)
(* told, is let through, unless another one was first or the clock was set *)
(* back.                                                                   *)
WaitAndOneMoreSuffices == Meter!WaitAndOneMoreSuffices

(* A snapshot of a histogram shows its newest samples, and percentiles in  *)
(* order and between the least and the largest of them.                    *)
WindowIsNewest == Meter!WindowIsNewest
=============================================================================
