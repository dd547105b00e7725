------------------------------ MODULE MCKiosk -------------------------------
(***************************************************************************)
(* Four calls, enough for a session that fails while the next one is on:   *)
(* start, interrupt, start, end; and two pages.                            *)
(***************************************************************************)
EXTENDS Kiosk

CONSTANTS c1, c2, c3, c4, s1, s2

MCCalls == {c1, c2, c3, c4}
MCStreams == {s1, s2}
=============================================================================
