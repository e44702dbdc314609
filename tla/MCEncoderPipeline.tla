--------------------------- MODULE MCEncoderPipeline ---------------------------
(***************************************************************************)
(* TLC instances of EncoderPipeline.                                       *)
(***************************************************************************)
EXTENDS EncoderPipeline

=============================================================================
