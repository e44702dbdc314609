------------------------------ MODULE MCFilmWorker ------------------------------
(***************************************************************************)
(* TLC instances of FilmWorker.                                            *)
(***************************************************************************)
EXTENDS FilmWorker

CONSTANTS m1, m2

\* Uploads that are converted with diagnostics, unreadable and damaged; reparses
\* that are converted and refused at the end; and rebuilds that are converted,
\* that do not reproduce the film, and whose products cannot be read.
SampleJobs ==
  {[mode |-> "initial", quality |-> "good", diagnosed |-> TRUE],
   [mode |-> "initial", quality |-> "unreadable", diagnosed |-> FALSE],
   [mode |-> "initial", quality |-> "damaged", diagnosed |-> FALSE],
   [mode |-> "full_reparse", quality |-> "good", diagnosed |-> FALSE],
   [mode |-> "full_reparse", quality |-> "misreported", diagnosed |-> FALSE],
   [mode |-> "viewer_rebuild", quality |-> "good", diagnosed |-> TRUE],
   [mode |-> "viewer_rebuild", quality |-> "desyncs", diagnosed |-> FALSE],
   [mode |-> "viewer_rebuild", quality |-> "inconsistent", diagnosed |-> FALSE]}

=============================================================================
