---------------------------- MODULE MCSatellite -----------------------------
(***************************************************************************)
(* One request, as requests share no state: of each client and as a ping,  *)
(* to both servers, with and without the right secret.                     *)
(***************************************************************************)
EXTENDS Satellite

CONSTANT r1

MCRequests == {r1}
=============================================================================
