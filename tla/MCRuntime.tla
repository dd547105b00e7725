----------------------------- MODULE MCRuntime ------------------------------
(***************************************************************************)
(* One prompt, which the seam and the agent may both handle; all modes.    *)
(***************************************************************************)
EXTENDS Runtime

CONSTANT m1

MCPrompts == {m1}
MCModes == {"standalone", "satellite", "satellite with fallback"}
=============================================================================
