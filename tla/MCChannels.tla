----------------------------- MODULE MCChannels ------------------------------
(***************************************************************************)
(* Short files over a small alphabet: every way in which writes, polls, a  *)
(* truncation and a restart can cut them; or two concurrent requests, with *)
(* an agent that answers each prompt up to three times.                    *)
(***************************************************************************)
EXTENDS Channels

CONSTANTS w1, poll1, poll2, r1, r2

Ascii == {"nl", "a"}
TwoBytes == {"nl", "u1", "u2"}
MCReplies == {w1}
MCPolls == {poll1, poll2}
MCRequests == {r1, r2}
=============================================================================
