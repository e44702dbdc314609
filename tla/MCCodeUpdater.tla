------------------------------ MODULE MCCodeUpdater ------------------------------
(***************************************************************************)
(* TLC instances of CodeUpdater: codes a and b beside the first code, and  *)
(* one configuration, "cdn", that only code b can serve.                   *)
(***************************************************************************)
EXTENDS CodeUpdater

SupportsAll == Codes \X Configs
OnlyReleaseB == {<<c, d>> \in Codes \X Configs : d = "cdn" => c = "b"}

=============================================================================
