--------------------------- MODULE MCObservability ---------------------------
(***************************************************************************)
(* Three files of three bytes, and chunks that fill a file, share one, or  *)
(* are larger than any may be; or two callers of a bucket of one and a     *)
(* half tokens, which gets a quarter of one in a millisecond.  With four   *)
(* requests, five units in a thousandth are more than all roundings.       *)
(***************************************************************************)
EXTENDS Observability

CONSTANTS r1, r2

MCSize == <<1, 2, 2, 4, 1, 3, 1, 2>>
MCRequests == {r1, r2}
=============================================================================
