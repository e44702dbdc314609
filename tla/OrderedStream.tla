------------------------------ MODULE OrderedStream ------------------------------
(***************************************************************************)
(* What a threaded stage of the replay extractor and of the film encoder   *)
(* promises the caller that feeds it the ticks of one replay: ticks are    *)
(* delivered in source order, none twice, and the stream succeeds only     *)
(* after the last one was delivered.  TickParse and EncoderPipeline are    *)
(* shown to implement it.                                                  *)
(***************************************************************************)
EXTENDS Naturals

CONSTANT Total  \* ticks of the replay

VARIABLES
  offered,    \* ticks the source handed in
  delivered,  \* ticks handed on, in source order
  outcome     \* what the caller was told

vars == <<offered, delivered, outcome>>

Init == offered = 0 /\ delivered = 0 /\ outcome = "open"

Offer ==
  /\ outcome = "open"
  /\ offered < Total
  /\ offered' = offered + 1
  /\ UNCHANGED <<delivered, outcome>>

Deliver ==
  /\ outcome = "open"
  /\ delivered < offered
  /\ delivered' = delivered + 1
  /\ UNCHANGED <<offered, outcome>>

Succeed ==
  /\ outcome = "open"
  /\ delivered = Total
  /\ outcome' = "ok"
  /\ UNCHANGED <<offered, delivered>>

Fail ==
  /\ outcome = "open"
  /\ outcome' = "error"
  /\ UNCHANGED <<offered, delivered>>

Next == Offer \/ Deliver \/ Succeed \/ Fail

Spec == Init /\ [][Next]_vars

=============================================================================
