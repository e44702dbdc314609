----------------------------- MODULE MCReprocessJob -----------------------------
(***************************************************************************)
(* TLC instances of ReprocessJob.                                          *)
(***************************************************************************)
EXTENDS ReprocessJob

CONSTANTS m1, m2, native, python

=============================================================================
