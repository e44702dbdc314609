----------------------------- MODULE ViewerArtifact -----------------------------
(***************************************************************************)
(* The viewer writer with the projectors of ViewerProjection and the codec *)
(* of ViewerDelta.  The names on the right are what a configuration gives  *)
(* ViewerWriter:                                                           *)
(*                                                                         *)
(*   Projected <- ProjectedText      Refused <- Rejected                   *)
(*   SafeMeta <- MetadataIsSafe      ProjectedMeta <- MetadataProjection   *)
(*   Encode <- EncodeChunk           Decode <- DecodeChunk                 *)
(*   Digest <- Semantic              Interval = KeyframeInterval           *)
(***************************************************************************)
EXTENDS ViewerProjection, ViewerWriter

ASSUME IntervalAssumption == Interval = KeyframeInterval

\* One source worker has the tick as a value, several project inside the parser.
ProjectedText(several, text) == IF several THEN ProjectTickRaw(text) ELSE ProjectTick(text)

MetadataIsSafe(text) == \A e \in Range(Parsed(text)[2]) : Safe(e[2], 2)
MetadataProjection(text) == ProjectMetadata(Parsed(text))

-----------------------------------------------------------------------------
(***************************************************************************)
(* Properties.                                                             *)
(***************************************************************************)
RECURSIVE Unique(_)
Unique(v) ==
  CASE v[1] = "arr" -> \A item \in Range(v[2]) : Unique(item)
    [] v[1] = "obj" -> IsInjective([i \in DOMAIN v[2] |-> v[2][i][1]])
                       /\ \A e \in Range(v[2]) : Unique(e[2])
    [] OTHER -> TRUE

\* What the contract says of a tick.
Reference(text) ==
  LET source == Parsed(text)
      projected == Project(Definitions["tick"], source)
  IN IF Safe(source, RootDepth) /\ projected # Rejected /\ Valid(projected)
       THEN projected ELSE Rejected

\* When a tick is read, both projectors give what the contract says of it, except
\* that a value which a later one of its key replaces is looked at only inside the
\* parser.
ProjectorsAgree ==
  at = "read" /\ ticks < Len(replay.ticks) =>
    LET text == replay.ticks[ticks + 1]
        raw == ProjectTickRaw(text)
    IN /\ ProjectTick(text) = Reference(text)
       /\ raw # Reference(text) => raw = Rejected /\ ~Unique(text)

\* What the contract and its limits allow.
Legal ==
  /\ Len(replay.ticks) \in 1..MaxTicks
  /\ ~Bulky(replay)
  /\ \A text \in Range(replay.ticks) : Reference(text) # Rejected /\ Unique(text)
  /\ ProjectMetadata(Parsed(replay.meta)) # Rejected

\* A replay the contract and the limits allow is written unless every attempt met a
\* fault: no chunk is found lossy by the worker that decodes it, whatever the order in which
\* workers finish.
LegalReplaysComplete == at = "failed" /\ faults < attempt => ~Legal

=============================================================================
