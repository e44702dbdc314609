------------------------------- MODULE CodeUpdater -------------------------------
(***************************************************************************)
(* lambda/app_api_code_updater/handler.py: the function that publishes     *)
(* release artifacts of the application API and promotes configurations    *)
(* Terraform applied, by moving the "live" alias of the API's Lambda       *)
(* function.                                                               *)
(*                                                                         *)
(* A release invocation is identified by the code it deploys, a promotion  *)
(* by the configuration it confirms.  Beside them run Terraform (it        *)
(* changes LATEST's configuration, publishes it, tells the updater which   *)
(* configuration to expect and invokes it) and an operator who may roll    *)
(* the alias back.  The Lambda service itself is external: LATEST and the  *)
(* alias carry revision ids that change with every write, and an update    *)
(* that names a revision succeeds only while it is the current one.        *)
(***************************************************************************)
EXTENDS Naturals, Sequences

CONSTANTS
  Releases,      \* the codes of the artifacts uploaded under releases/
  Promotions,    \* the configurations Terraform applies
  FirstCode,     \* the code live at the start
  FirstConfig,   \* its configuration
  Supported,     \* the <<code, configuration>> pairs _assert_asset_package_support
                 \* accepts: every pair where EXPECTED_CONFIGURATION_HASH is empty
  Serialized,    \* the updater runs with reserved concurrency 1
  MaxAttempts,   \* deliveries of an S3 event: one, and Lambda's async retries
  MaxFaults,     \* bound: crashes and failed AWS calls in a behaviour
  MaxRollbacks   \* bound: rollbacks by the operator

Codes == Releases \cup {FirstCode}
Configs == Promotions \cup {FirstConfig}
Invocations == Releases \cup Promotions

ASSUME UpdaterAssumption ==
  /\ Releases \cap Promotions = {}
  /\ FirstCode \notin Invocations
  /\ FirstConfig \notin Invocations
  /\ Supported \subseteq Codes \X Configs
  /\ <<FirstCode, FirstConfig>> \in Supported
  /\ Serialized \in BOOLEAN
  /\ MaxAttempts \in Nat \ {0}
  /\ MaxFaults \in Nat
  /\ MaxRollbacks \in Nat

VARIABLES
  latest,     \* LATEST: its code, configuration and revision
  versions,   \* the published versions, in order
  alias,      \* the live alias: its version and revision
  clock,      \* the last revision id given out
  expected,   \* EXPECTED_CONFIGURATION_HASH of the updater
  terraform,  \* what Terraform is doing
  pc,         \* the step each invocation is at
  attempts,   \* how often each invocation was started
  seen,       \* what each invocation read: alias, LATEST, candidate version
  overtaken,  \* invocations during which somebody else moved the alias
  faults,
  rollbacks

vars == <<latest, versions, alias, clock, expected, terraform, pc, attempts, seen,
          overtaken, faults, rollbacks>>
service == <<latest, versions, alias, clock>>
outside == <<expected, terraform, faults, rollbacks>>

Version == [code : Codes, config : Configs, active : BOOLEAN]
Latest == [code : Codes, config : Configs, rev : Nat]
Alias == [version : Nat \ {0}, rev : Nat]

Running == {"read_previous", "update_code", "read_staged", "staged_alias",
            "staged_latest", "publish", "await_version", "read_published",
            "read_applied", "read_live", "current_alias", "current_latest",
            "find_version", "candidate", "promoted_alias", "promoted_latest",
            "move_alias", "confirm"}

TypeOK ==
  /\ latest \in Latest
  /\ versions \in Seq(Version)
  /\ alias \in Alias /\ alias.version <= Len(versions)
  /\ clock \in Nat
  /\ expected \in Configs
  /\ terraform \in [step : {"idle", "publish", "expect", "confirm"}, config : Configs]
  /\ pc \in [Invocations -> Running \cup {"absent", "queued", "done", "failed"}]
  /\ attempts \in [Invocations -> 0..MaxAttempts]
  /\ seen \in [Invocations -> [alias : Alias, latest : Latest, version : Nat]]
  /\ overtaken \in SUBSET Invocations
  /\ faults \in 0..MaxFaults
  /\ rollbacks \in 0..MaxRollbacks

Init ==
  /\ latest = [code |-> FirstCode, config |-> FirstConfig, rev |-> 1]
  /\ versions = <<[code |-> FirstCode, config |-> FirstConfig, active |-> TRUE]>>
  /\ alias = [version |-> 1, rev |-> 1]
  /\ clock = 1
  /\ expected = FirstConfig
  /\ terraform = [step |-> "idle", config |-> FirstConfig]
  /\ pc = [i \in Invocations |-> "absent"]
  /\ attempts = [i \in Invocations |-> 0]
  /\ seen = [i \in Invocations |-> [alias |-> alias, latest |-> latest, version |-> 0]]
  /\ overtaken = {}
  /\ faults = 0
  /\ rollbacks = 0

\* _configuration_snapshot: what two descriptions of the function agree on.
Snapshot(f) == <<f.code, f.config>>

Live == versions[alias.version]

Goto(i, next) == pc' = [pc EXCEPT ![i] = next]

\* The invocation raises.  Lambda retries an S3 event, and nothing else.
Raise(i) ==
  Goto(i, IF i \in Releases /\ attempts[i] < MaxAttempts THEN "queued" ELSE "failed")

-----------------------------------------------------------------------------
(***************************************************************************)
(* Starting an invocation.                                                 *)
(***************************************************************************)
Upload(i) ==
  /\ i \in Releases
  /\ pc[i] = "absent"
  /\ Goto(i, "queued")
  /\ UNCHANGED <<service, outside, attempts, seen, overtaken>>

\* A promotion whose hash is not the expected one is refused at once; the
\* others, and the releases, begin by reading the alias.
Start(i) ==
  /\ pc[i] = "queued"
  /\ Serialized => \A j \in Invocations : pc[j] \notin Running
  /\ attempts' = [attempts EXCEPT ![i] = @ + 1]
  /\ IF i \in Promotions /\ i # expected
       THEN Goto(i, "failed") /\ UNCHANGED seen
       ELSE /\ Goto(i, IF i \in Releases THEN "read_previous" ELSE "read_applied")
            /\ seen' = [seen EXCEPT ![i].alias = alias]
  /\ overtaken' = overtaken \ {i}
  /\ UNCHANGED <<service, outside>>

\* A crash, a timeout of the invocation, or an AWS call that fails.
Fault(i) ==
  /\ pc[i] \in Running
  /\ faults < MaxFaults
  /\ faults' = faults + 1
  /\ Raise(i)
  /\ UNCHANGED <<service, expected, terraform, rollbacks, attempts, seen, overtaken>>

-----------------------------------------------------------------------------
(***************************************************************************)
(* _deploy_artifact.                                                       *)
(***************************************************************************)
ReadPrevious(i) ==
  /\ pc[i] = "read_previous"
  /\ seen' = [seen EXCEPT ![i].latest = latest]
  /\ Goto(i, "update_code")
  /\ UNCHANGED <<service, outside, attempts, overtaken>>

\* update_function_code with the RevisionId of the previous configuration.
UpdateCode(i) ==
  /\ pc[i] = "update_code"
  /\ IF latest.rev = seen[i].latest.rev
       THEN /\ latest' = [latest EXCEPT !.code = i, !.rev = clock + 1]
            /\ clock' = clock + 1
            /\ Goto(i, "read_staged")
       ELSE Raise(i) /\ UNCHANGED <<latest, clock>>
  /\ UNCHANGED <<versions, alias, outside, attempts, seen, overtaken>>

\* Wrong on purpose: the staged code is not compared with the response.
ReadStagedUnchecked(i) ==
  /\ pc[i] = "read_staged"
  /\ Goto(i, "staged_alias")
  /\ seen' = [seen EXCEPT ![i].latest = latest]
  /\ UNCHANGED <<service, outside, attempts, overtaken>>

ReadStaged(i) ==
  /\ pc[i] = "read_staged"
  /\ IF latest.code = i
       THEN Goto(i, "staged_alias") /\ seen' = [seen EXCEPT ![i].latest = latest]
       ELSE Raise(i) /\ UNCHANGED seen
  /\ UNCHANGED <<service, outside, attempts, overtaken>>

\* publish_version with the CodeSha256 and the RevisionId read before.  The
\* service may return the newest version when it equals LATEST; LATEST's
\* revision changes either way.
Publish(i) ==
  /\ pc[i] = "publish"
  /\ IF latest.rev = seen[i].latest.rev
       THEN /\ \/ versions' = Append(versions, [code |-> latest.code,
                                                config |-> latest.config,
                                                active |-> FALSE])
               \/ /\ Snapshot(versions[Len(versions)]) = Snapshot(latest)
                  /\ UNCHANGED versions
            /\ latest' = [latest EXCEPT !.rev = clock + 1]
            /\ clock' = clock + 1
            /\ seen' = [seen EXCEPT ![i].version = Len(versions')]
            /\ Goto(i, "await_version")
       ELSE Raise(i) /\ UNCHANGED <<versions, latest, clock, seen>>
  /\ UNCHANGED <<alias, outside, attempts, overtaken>>

\* _wait_for_function_update on the new version.
AwaitVersion(i) ==
  /\ pc[i] = "await_version"
  /\ versions[seen[i].version].active
  /\ Goto(i, "read_published")
  /\ UNCHANGED <<service, outside, attempts, seen, overtaken>>

\* Wrong on purpose: the token from before the publication is still required.
ReadPublishedByRevision(i) ==
  /\ pc[i] = "read_published"
  /\ IF latest.rev = seen[i].latest.rev THEN Goto(i, "candidate") ELSE Raise(i)
  /\ UNCHANGED <<service, outside, attempts, seen, overtaken>>

ReadPublished(i) ==
  /\ pc[i] = "read_published"
  /\ IF Snapshot(latest) = Snapshot(seen[i].latest)
       THEN Goto(i, "candidate") /\ seen' = [seen EXCEPT ![i].latest = latest]
       ELSE Raise(i) /\ UNCHANGED seen
  /\ UNCHANGED <<service, outside, attempts, overtaken>>

(***************************************************************************)
(* _assert_unchanged: the alias is read again, then LATEST.  A revision    *)
(* that did not change stands for an unchanged snapshot.                   *)
(***************************************************************************)
AfterAlias == [staged_alias |-> "staged_latest", current_alias |-> "current_latest",
               promoted_alias |-> "promoted_latest"]
AfterLatest == [staged_latest |-> "publish", current_latest |-> "done",
                promoted_latest |-> "move_alias"]

\* Wrong on purpose: the invocation waits for the alias to change back.
CheckAliasWaiting(i) ==
  /\ pc[i] \in DOMAIN AfterAlias
  /\ alias.rev = seen[i].alias.rev
  /\ Goto(i, AfterAlias[pc[i]])
  /\ UNCHANGED <<service, outside, attempts, seen, overtaken>>

CheckAlias(i) ==
  /\ pc[i] \in DOMAIN AfterAlias
  /\ IF alias.rev = seen[i].alias.rev THEN Goto(i, AfterAlias[pc[i]]) ELSE Raise(i)
  /\ UNCHANGED <<service, outside, attempts, seen, overtaken>>

CheckLatest(i) ==
  /\ pc[i] \in DOMAIN AfterLatest
  /\ IF latest.rev = seen[i].latest.rev THEN Goto(i, AfterLatest[pc[i]]) ELSE Raise(i)
  /\ UNCHANGED <<service, outside, attempts, seen, overtaken>>

(***************************************************************************)
(* _promote_configuration.                                                 *)
(***************************************************************************)
ReadApplied(i) ==
  /\ pc[i] = "read_applied"
  /\ IF latest.config = i
       THEN Goto(i, "read_live") /\ seen' = [seen EXCEPT ![i].latest = latest]
       ELSE Raise(i) /\ UNCHANGED seen
  /\ UNCHANGED <<service, outside, attempts, overtaken>>

\* Wrong on purpose: the code of LATEST is not compared with the live code.
ReadLiveAnyCode(i) ==
  LET live == versions[seen[i].alias.version] IN
  /\ pc[i] = "read_live"
  /\ Goto(i, IF Snapshot(live) = Snapshot(seen[i].latest) THEN "current_alias"
             ELSE "find_version")
  /\ UNCHANGED <<service, outside, attempts, seen, overtaken>>

\* Wrong on purpose: only the code of LATEST is compared.
ReadLiveAnyConfiguration(i) ==
  LET live == versions[seen[i].alias.version] IN
  /\ pc[i] = "read_live"
  /\ IF live.code # seen[i].latest.code THEN Raise(i) ELSE Goto(i, "current_alias")
  /\ UNCHANGED <<service, outside, attempts, seen, overtaken>>

\* The version read is the one the alias named at the start.
ReadLive(i) ==
  LET live == versions[seen[i].alias.version] IN
  /\ pc[i] = "read_live"
  /\ IF live.code # seen[i].latest.code THEN Raise(i)
     ELSE IF Snapshot(live) # Snapshot(seen[i].latest) THEN Goto(i, "find_version")
     ELSE IF Snapshot(live) \in Supported THEN Goto(i, "current_alias")
     ELSE Raise(i)
  /\ UNCHANGED <<service, outside, attempts, seen, overtaken>>

\* _find_configuration_version: the highest version with LATEST's snapshot.
Matching(i) == {v \in 1..Len(versions) : Snapshot(versions[v]) = Snapshot(seen[i].latest)}

FindVersion(i) ==
  /\ pc[i] = "find_version"
  /\ \/ \E v \in Matching(i) :
          /\ \A w \in Matching(i) : w <= v
          /\ seen' = [seen EXCEPT ![i].version = v]
          /\ Goto(i, "candidate")
     \/ Matching(i) = {} /\ Raise(i) /\ UNCHANGED seen
  /\ UNCHANGED <<service, outside, attempts, overtaken>>

(***************************************************************************)
(* _promote_version.                                                       *)
(***************************************************************************)
\* Wrong on purpose: the package is not inspected.
InspectSnapshotOnly(i) ==
  LET candidate == versions[seen[i].version] IN
  /\ pc[i] = "candidate"
  /\ candidate.active
  /\ IF Snapshot(candidate) = Snapshot(seen[i].latest)
       THEN Goto(i, "promoted_alias")
       ELSE Raise(i)
  /\ UNCHANGED <<service, outside, attempts, seen, overtaken>>

InspectCandidate(i) ==
  LET candidate == versions[seen[i].version] IN
  /\ pc[i] = "candidate"
  /\ candidate.active
  /\ IF Snapshot(candidate) = Snapshot(seen[i].latest) /\ Snapshot(candidate) \in Supported
       THEN Goto(i, "promoted_alias")
       ELSE Raise(i)
  /\ UNCHANGED <<service, outside, attempts, seen, overtaken>>

MoveAliasTo(v) ==
  /\ alias' = [version |-> v, rev |-> clock + 1]
  /\ clock' = clock + 1

\* Wrong on purpose: update_alias without a RevisionId.
MoveAliasBlindly(i) ==
  /\ pc[i] = "move_alias"
  /\ MoveAliasTo(seen[i].version)
  /\ overtaken' = overtaken \cup {j \in Invocations \ {i} : pc[j] \in Running}
  /\ Goto(i, "confirm")
  /\ UNCHANGED <<latest, versions, outside, attempts, seen>>

\* update_alias with the RevisionId read when the invocation began.
MoveAlias(i) ==
  /\ pc[i] = "move_alias"
  /\ IF alias.rev = seen[i].alias.rev
       THEN /\ MoveAliasTo(seen[i].version)
            /\ overtaken' = overtaken \cup {j \in Invocations \ {i} : pc[j] \in Running}
            /\ Goto(i, "confirm")
       ELSE Raise(i) /\ UNCHANGED <<alias, clock, overtaken>>
  /\ UNCHANGED <<latest, versions, outside, attempts, seen>>

Confirm(i) ==
  /\ pc[i] = "confirm"
  /\ IF alias.version = seen[i].version THEN Goto(i, "done") ELSE Raise(i)
  /\ UNCHANGED <<service, outside, attempts, seen, overtaken>>

-----------------------------------------------------------------------------
(***************************************************************************)
(* The Lambda service, Terraform and the operator.                         *)
(***************************************************************************)
\* A published version becomes active, and LATEST's revision changes.
FinishPublication ==
  \E v \in 1..Len(versions) :
    /\ ~versions[v].active
    /\ versions' = [versions EXCEPT ![v].active = TRUE]
    /\ latest' = [latest EXCEPT !.rev = clock + 1]
    /\ clock' = clock + 1
    /\ UNCHANGED <<alias, outside, pc, attempts, seen, overtaken>>

\* terraform apply: the function's configuration, then publish = true ...
ApplyConfiguration(c) ==
  /\ terraform.step = "idle"
  /\ pc[c] = "absent"
  /\ latest' = [latest EXCEPT !.config = c, !.rev = clock + 1]
  /\ clock' = clock + 1
  /\ terraform' = [step |-> "publish", config |-> c]
  /\ UNCHANGED <<versions, alias, expected, faults, rollbacks, pc, attempts, seen, overtaken>>

PublishConfiguration(c) ==
  /\ terraform = [step |-> "publish", config |-> c]
  /\ versions' = Append(versions, [code |-> latest.code, config |-> latest.config,
                                   active |-> FALSE])
  /\ latest' = [latest EXCEPT !.rev = clock + 1]
  /\ clock' = clock + 1
  /\ terraform' = [step |-> "expect", config |-> c]
  /\ UNCHANGED <<alias, expected, faults, rollbacks, pc, attempts, seen, overtaken>>

\* ... then the updater's environment and its invocation.
ExpectConfiguration(c) ==
  /\ terraform = [step |-> "expect", config |-> c]
  /\ expected' = c
  /\ Goto(c, "queued")
  /\ terraform' = [step |-> "confirm", config |-> c]
  /\ UNCHANGED <<service, faults, rollbacks, attempts, seen, overtaken>>

FinishApply(c) ==
  /\ terraform = [step |-> "confirm", config |-> c]
  /\ pc[c] \in {"done", "failed"}
  /\ terraform' = [step |-> "idle", config |-> c]
  /\ UNCHANGED <<service, expected, faults, rollbacks, pc, attempts, seen, overtaken>>

\* The operator moves the alias to an earlier version.
Rollback(v) ==
  /\ rollbacks < MaxRollbacks
  /\ v < alias.version
  /\ MoveAliasTo(v)
  /\ overtaken' = overtaken \cup {j \in Invocations : pc[j] \in Running}
  /\ rollbacks' = rollbacks + 1
  /\ UNCHANGED <<latest, versions, expected, terraform, faults, pc, attempts, seen>>

-----------------------------------------------------------------------------
Step(i) ==
  \/ Start(i)
  \/ ReadPrevious(i) \/ UpdateCode(i) \/ ReadStaged(i) \/ Publish(i)
  \/ AwaitVersion(i) \/ ReadPublished(i)
  \/ CheckAlias(i) \/ CheckLatest(i)
  \/ ReadApplied(i) \/ ReadLive(i) \/ FindVersion(i)
  \/ InspectCandidate(i) \/ MoveAlias(i) \/ Confirm(i)

Terraform(c) ==
  ApplyConfiguration(c) \/ PublishConfiguration(c) \/ ExpectConfiguration(c) \/ FinishApply(c)

Next ==
  \/ \E i \in Invocations : Upload(i) \/ Step(i) \/ Fault(i)
  \/ \E c \in Promotions : Terraform(c)
  \/ \E v \in 1..Len(versions) : Rollback(v)
  \/ FinishPublication

Spec == Init /\ [][Next]_vars

\* An invocation that runs goes on, Lambda delivers queued events, an apply
\* that began goes on, and a publication completes.
FairSpec ==
  /\ Spec
  /\ \A i \in Invocations : WF_vars(Step(i))
  /\ \A c \in Promotions : WF_vars(PublishConfiguration(c) \/ ExpectConfiguration(c)
                                     \/ FinishApply(c))
  /\ WF_vars(FinishPublication)

-----------------------------------------------------------------------------
(***************************************************************************)
(* Properties.                                                             *)
(***************************************************************************)
Moves(i) == pc[i] = "move_alias" /\ alias' # alias

\* A promotion of a configuration never changes the live code: it neither
\* releases staged code nor undoes a code rollback.
ConfigurationKeepsCode ==
  [][\A i \in Promotions : Moves(i) /\ pc'[i] = "confirm" => Live'.code = Live.code]_vars

\* An invocation during which somebody else moved the alias moves it no more.
OvertakenNeverPromotes ==
  [][\A i \in overtaken : ~(Moves(i) /\ pc'[i] = "confirm")]_vars

\* The updater never makes live a package that cannot serve its configuration.
PromotesSupported ==
  [][\A i \in Invocations : Moves(i) /\ pc'[i] = "confirm" => Snapshot(Live') \in Supported]_vars

\* The configuration an apply was told is live stays live, whatever releases
\* run, until the next apply or a rollback (with one invocation at a time).
ConfirmedConfigurationStays ==
  \A c \in Promotions :
    rollbacks = 0 /\ pc[c] = "done" /\ latest.config = c => Live.config = c

\* A release that reports success was live with its own code.
ReleaseIsLive ==
  [][\A i \in Releases : pc[i] = "confirm" /\ pc'[i] = "done" => Live.code = i]_vars

\* A release goes live although attempts crash, as long as fewer attempts crash
\* than Lambda makes and neither an apply nor a rollback interferes.
Undisturbed == terraform.step = "idle" /\ rollbacks = 0
LoneReleaseGoesLive ==
  \A i \in Releases : []Undisturbed => (pc[i] = "queued" ~> Live.code = i)

\* No invocation and no apply waits for ever.
EveryInvocationSettles ==
  \A i \in Invocations : pc[i] = "queued" ~> pc[i] \in {"done", "failed"}

=============================================================================
