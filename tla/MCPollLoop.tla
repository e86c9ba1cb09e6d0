----------------------------- MODULE MCPollLoop -----------------------------
(* Instances of PollLoop for TLC.                                          *)
EXTENDS PollLoop
CONSTANTS m1, w1, w2, e1
=============================================================================
