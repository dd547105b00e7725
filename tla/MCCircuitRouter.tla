-------------------------- MODULE MCCircuitRouter ---------------------------
(***************************************************************************)
(* Two concurrent requests, each of which may be followed by others, on    *)
(* three providers with a budget of two attempts: one request can be late  *)
(* while the other opens the circuit and meets it open, and the budget     *)
(* runs out before the providers do.                                       *)
(***************************************************************************)
EXTENDS CircuitRouter

CONSTANTS p1, p2, p3, r1, r2

MCProviders == {p1, p2, p3}
MCKind   == [p \in Providers |-> IF p = p1 THEN "cloud" ELSE "local"]
MCIdRank == [p \in Providers |-> IF p = p1 THEN 0 ELSE IF p = p2 THEN 1 ELSE 2]
NoHints  == [preferId |-> {}, preferKind |-> {}]

MCRequests == {r1, r2}
=============================================================================
