------------------------------ MODULE MCTickParse ------------------------------
(***************************************************************************)
(* TLC instances of TickParse.                                             *)
(***************************************************************************)
EXTENDS TickParse

CONSTANTS w1, w2, w3

\* A clean replay, one with two malformed ticks, one the viewer rejects.
SampleReplays ==
  {[bad |-> {}, viewerBad |-> {}],
   [bad |-> {2, 4}, viewerBad |-> {}],
   [bad |-> {4}, viewerBad |-> {1}]}

=============================================================================
