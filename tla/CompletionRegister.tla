--------------------------- MODULE CompletionRegister ---------------------------
(***************************************************************************)
(* What every ingest worker of this repository promises about one          *)
(* generation (an initial upload, a reprocess attempt, a film attempt):    *)
(* one completion is chosen, only the chosen completion is ever delivered  *)
(* to the application API, and the raw object the work started from is     *)
(* released only once the completion was delivered or a copy was kept.     *)
(*                                                                         *)
(* ReplayIntake and FilmWorker are shown to implement this register by a   *)
(* refinement mapping.                                                     *)
(***************************************************************************)
CONSTANTS
  Payloads,   \* the completions attempts may propose
  None        \* no completion, not one of Payloads

VARIABLES
  chosen,     \* the generation's completion, or None
  delivered,  \* the completions the API accepted
  held,       \* the raw object still exists
  kept        \* a copy was kept outside the intake prefix

vars == <<chosen, delivered, held, kept>>

TypeOK ==
  /\ chosen \in Payloads \cup {None}
  /\ delivered \in SUBSET Payloads
  /\ held \in BOOLEAN
  /\ kept \in BOOLEAN

Init ==
  /\ chosen = None
  /\ delivered = {}
  /\ held = TRUE
  /\ kept = FALSE

\* The first attempt to propose wins; nobody replaces its choice.
Choose(p) ==
  /\ chosen = None
  /\ chosen' = p
  /\ UNCHANGED <<delivered, held, kept>>

\* Deliveries repeat, always with the chosen completion.
Deliver ==
  /\ chosen # None
  /\ delivered' = delivered \cup {chosen}
  /\ UNCHANGED <<chosen, held, kept>>

\* An attempt that gives up keeps a copy while the raw object exists.
Keep ==
  /\ held
  /\ kept' = TRUE
  /\ UNCHANGED <<chosen, delivered, held>>

Release ==
  /\ delivered # {} \/ kept
  /\ held' = FALSE
  /\ UNCHANGED <<chosen, delivered, kept>>

Next == (\E p \in Payloads : Choose(p)) \/ Deliver \/ Keep \/ Release

Spec == Init /\ [][Next]_vars

=============================================================================
