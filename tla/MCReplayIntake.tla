----------------------------- MODULE MCReplayIntake -----------------------------
(***************************************************************************)
(* TLC instances of ReplayIntake.                                          *)
(***************************************************************************)
EXTENDS ReplayIntake

CONSTANTS m1, m2, native, newer, python

=============================================================================
