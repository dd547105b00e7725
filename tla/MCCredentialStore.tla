------------------------- MODULE MCCredentialStore --------------------------
(***************************************************************************)
(* Two callers, two providers, three calls of set and markRotated.         *)
(***************************************************************************)
EXTENDS CredentialStore

CONSTANTS c1, c2, p1, p2

MCCallers == {c1, c2}
MCProviders == {p1, p2}
=============================================================================
