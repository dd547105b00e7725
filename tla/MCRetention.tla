---------------------------- MODULE MCRetention -----------------------------
(***************************************************************************)
(* Five events.  The cap is above the default limit of a query, as in the  *)
(* code, where they are 1000 and 100.                                      *)
(***************************************************************************)
EXTENDS Retention

MCEvents == 1 .. 5
=============================================================================
