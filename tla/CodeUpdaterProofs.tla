---------------------------- MODULE CodeUpdaterProofs ----------------------------
(***************************************************************************)
(* Theorems about CodeUpdater, for every number of releases, applies and   *)
(* rollbacks, every retry policy of Lambda, and every set of packages that *)
(* serve a configuration.                                                  *)
(***************************************************************************)
EXTENDS CodeUpdater, SequenceTheorems, TLAPS

-----------------------------------------------------------------------------
Places == Running \cup {"absent", "queued", "done", "failed"}
Seen == [alias : Alias, latest : Latest, version : Nat]

\* The steps that only a release takes, only a promotion takes, and those that
\* follow the inspection of a candidate.
Releasing == {"read_previous", "update_code", "read_staged", "staged_alias", "staged_latest",
              "publish", "await_version", "read_published"}
Promoting == {"read_applied", "read_live", "current_alias", "current_latest", "find_version"}
Inspected == {"promoted_alias", "promoted_latest", "move_alias", "confirm"}

\* A release holds on to its own code.
ReleaseInv(i, p, s) ==
  /\ p \notin Promoting
  /\ p \in {"staged_alias", "staged_latest", "publish", "await_version", "read_published",
            "candidate"} \cup Inspected =>
       s.latest.code = i

\* A promotion holds on to its configuration and to the code that was live.
PromotionInv(i, p, s) ==
  /\ p \notin Releasing
  /\ p \in Running \ {"read_applied"} => s.latest.config = i
  /\ p \in {"find_version", "candidate", "promoted_alias", "promoted_latest", "move_alias"} =>
       versions[s.alias.version].code = s.latest.code
  /\ p \in {"current_alias", "current_latest"} =>
       Snapshot(versions[s.alias.version]) = Snapshot(s.latest)

\* What is true of an invocation at step p that has seen s.  Two reads of the
\* alias with one revision agree; who was overtaken holds an old one; an
\* inspected candidate is the package that was read, and can be served.
Local(i, p, s) ==
  /\ s.alias.rev <= clock
  /\ s.alias.version \in 1..Len(versions)
  /\ s.alias.rev = alias.rev => s.alias = alias
  /\ i \in overtaken /\ p \in Running => s.alias.rev < alias.rev
  /\ p \in {"await_version", "read_published", "candidate"} \cup Inspected =>
       s.version \in 1..Len(versions)
  /\ p \in Inspected =>
       /\ Snapshot(versions[s.version]) = Snapshot(s.latest)
       /\ Snapshot(s.latest) \in Supported
  /\ i \in Releases => ReleaseInv(i, p, s)
  /\ i \in Promotions => PromotionInv(i, p, s)

\* The Lambda service gives out growing revision ids.
ServiceInv ==
  /\ latest \in Latest
  /\ versions \in Seq(Version)
  /\ alias \in Alias /\ alias.version <= Len(versions)
  /\ clock \in Nat
  /\ alias.rev <= clock /\ latest.rev <= clock

OutsideOK ==
  /\ expected \in Configs
  /\ terraform \in [step : {"idle", "publish", "expect", "confirm"}, config : Configs]
  /\ attempts \in [Invocations -> 0..MaxAttempts]
  /\ overtaken \in SUBSET Invocations
  /\ faults \in 0..MaxFaults
  /\ rollbacks \in 0..MaxRollbacks

\* A queued event has a delivery left, and an apply one promotion ahead.
AttemptsInv ==
  /\ \A i \in Invocations : pc[i] = "absent" => attempts[i] = 0
  /\ \A i \in Invocations : pc[i] = "queued" => attempts[i] < MaxAttempts
  /\ \A c \in Promotions :
       terraform.step \in {"publish", "expect"} /\ terraform.config = c => pc[c] = "absent"

IInv ==
  /\ ServiceInv
  /\ OutsideOK
  /\ AttemptsInv
  /\ pc \in [Invocations -> Places]
  /\ seen \in [Invocations -> Seen]
  /\ \A i \in Invocations : Local(i, pc[i], seen[i])

-----------------------------------------------------------------------------
\* The tables of _assert_unchanged, entry by entry.
LEMMA Tables ==
  /\ DOMAIN AfterAlias = {"staged_alias", "current_alias", "promoted_alias"}
  /\ AfterAlias["staged_alias"] = "staged_latest"
  /\ AfterAlias["current_alias"] = "current_latest"
  /\ AfterAlias["promoted_alias"] = "promoted_latest"
  /\ DOMAIN AfterLatest = {"staged_latest", "current_latest", "promoted_latest"}
  /\ AfterLatest["staged_latest"] = "publish"
  /\ AfterLatest["current_latest"] = "done"
  /\ AfterLatest["promoted_latest"] = "move_alias"
  BY DEF AfterAlias, AfterLatest

\* A published version keeps its number, its code and its configuration.
VersionsKept ==
  /\ Len(versions) \in Nat /\ Len(versions') \in Nat /\ Len(versions) <= Len(versions')
  /\ \A v \in 1..Len(versions) : Snapshot(versions'[v]) = Snapshot(versions[v])

\* The two ways a version list changes.
LEMMA Published ==
  ASSUME versions \in Seq(Version), NEW f \in Version, versions' = Append(versions, f)
  PROVE  VersionsKept /\ versions' \in Seq(Version) /\ Len(versions') = Len(versions) + 1
BY AppendProperties DEF VersionsKept

LEMMA Activated ==
  ASSUME versions \in Seq(Version), NEW v \in 1..Len(versions),
         versions' = [versions EXCEPT ![v].active = TRUE]
  PROVE  VersionsKept /\ versions' \in Seq(Version) /\ Len(versions') = Len(versions)
<1> DEFINE f == [versions[v] EXCEPT !.active = TRUE]
<1>1. versions[v] \in Version /\ Len(versions) \in Nat
  BY ElementOfSeq, LenProperties
<1>2. f \in Version /\ Snapshot(f) = Snapshot(versions[v])
  BY <1>1 DEF Version, Snapshot
<1>3. versions' = [versions EXCEPT ![v] = f]
  OBVIOUS
<1> DEFINE vs == [versions EXCEPT ![v] = f]
<1> HIDE DEF f
<1>4. /\ vs \in Seq(Version)
      /\ Len(vs) = Len(versions)
      /\ \A w \in 1..Len(versions) : vs[w] = IF w = v THEN f ELSE versions[w]
  BY <1>2, ExceptSeq
<1>5. \A w \in 1..Len(versions) : Snapshot(vs[w]) = Snapshot(versions[w])
  BY <1>2, <1>4 DEF Snapshot
<1> HIDE DEF vs
<1>6. versions' = vs
  BY <1>3 DEF vs
<1>7. \A w \in 1..Len(versions) : Snapshot(versions'[w]) = Snapshot(versions[w])
  BY <1>5, <1>6
<1>8. versions' \in Seq(Version) /\ Len(versions') = Len(versions)
  BY <1>4, <1>6
<1>9. Len(versions') \in Nat /\ Len(versions) <= Len(versions')
  BY <1>1, <1>8
<1>10. VersionsKept
  BY <1>1, <1>7, <1>9 DEF VersionsKept
<1> QED
  BY <1>8, <1>10

LEMMA NotPublished ==
  ASSUME versions \in Seq(Version), UNCHANGED versions
  PROVE  VersionsKept
BY LenProperties DEF VersionsKept

-----------------------------------------------------------------------------
\* Versions are only added, revision ids only grow, and the alias that is moved
\* gets a new one.
Grown ==
  /\ VersionsKept
  /\ clock' \in Nat /\ clock <= clock'
  /\ \/ alias' = alias /\ overtaken' \subseteq overtaken
     \/ alias'.rev = clock + 1

\* What every step does to the service.
LEMMA ServiceStep ==
  ASSUME IInv, [Next]_vars
  PROVE  ServiceInv' /\ Grown
<1> USE UpdaterAssumption
<1>0. /\ versions \in Seq(Version) /\ Len(versions) \in Nat
      /\ clock \in Nat /\ alias \in Alias /\ latest \in Latest
      /\ alias.rev \in Nat /\ latest.rev \in Nat
  BY LenProperties DEF IInv, ServiceInv, Alias, Latest
<1>1. ASSUME UNCHANGED service, overtaken' \subseteq overtaken PROVE ServiceInv' /\ Grown
  BY <1>0, <1>1, NotPublished DEF IInv, ServiceInv, service, Grown
<1>2. ASSUME UNCHANGED <<versions, alias, overtaken>>, clock' = clock + 1,
             NEW f \in Latest, latest' = [f EXCEPT !.rev = clock + 1]
      PROVE  ServiceInv' /\ Grown
  <2>1. latest' \in Latest /\ latest'.rev = clock + 1
    BY <1>0, <1>2 DEF Latest
  <2> QED
    BY <1>0, <1>2, <2>1, NotPublished DEF IInv, ServiceInv, Grown
<1>3. ASSUME UNCHANGED <<alias, overtaken>>, clock' = clock + 1,
             latest' = [latest EXCEPT !.rev = clock + 1],
             VersionsKept, versions' \in Seq(Version)
      PROVE  ServiceInv' /\ Grown
  <2>1. latest' \in Latest /\ latest'.rev = clock + 1
    BY <1>0, <1>3 DEF Latest
  <2>2. alias'.version <= Len(versions')
    BY <1>0, <1>3 DEF IInv, ServiceInv, VersionsKept, Alias
  <2> QED
    BY <1>0, <1>3, <2>1, <2>2 DEF IInv, ServiceInv, Grown
<1>4. ASSUME NEW v \in 1..Len(versions), MoveAliasTo(v), UNCHANGED <<latest, versions>>
      PROVE  ServiceInv' /\ Grown
  <2>1. alias' \in Alias /\ alias'.rev = clock + 1 /\ alias'.version = v /\ clock' = clock + 1
    BY <1>0, <1>4 DEF MoveAliasTo, Alias
  <2> QED
    BY <1>0, <1>4, <2>1, NotPublished DEF IInv, ServiceInv, Grown
<1>5. Snapshot(latest) \in Codes \X Configs /\ Len(versions) >= 1
  BY <1>0 DEF Snapshot, Latest, IInv, ServiceInv, Alias
<1>6. [code |-> latest.code, config |-> latest.config, active |-> FALSE] \in Version
  BY <1>0 DEF Version, Latest
<1>7. ASSUME NEW i \in Invocations, Upload(i) \/ Start(i) \/ Fault(i) PROVE ServiceInv' /\ Grown
  BY <1>1, <1>7 DEF Upload, Start, Fault
<1>8. ASSUME NEW i \in Invocations,
             \/ ReadPrevious(i) \/ ReadStaged(i) \/ AwaitVersion(i) \/ ReadPublished(i)
             \/ CheckAlias(i) \/ CheckLatest(i) \/ ReadApplied(i) \/ ReadLive(i)
             \/ FindVersion(i) \/ InspectCandidate(i) \/ Confirm(i)
      PROVE  ServiceInv' /\ Grown
  BY <1>1, <1>8
     DEF ReadPrevious, ReadStaged, AwaitVersion, ReadPublished, CheckAlias, CheckLatest,
         ReadApplied, ReadLive, FindVersion, InspectCandidate, Confirm
<1>9. ASSUME NEW i \in Invocations, UpdateCode(i) PROVE ServiceInv' /\ Grown
  <2>1. CASE latest.rev = seen[i].latest.rev
    <3>1. i \in Releases
      BY <1>9 DEF UpdateCode, IInv, Local, PromotionInv, Releasing, Invocations
    <3>2. [latest EXCEPT !.code = i] \in Latest
      BY <1>0, <3>1 DEF Latest, Codes
    <3>3. latest' = [[latest EXCEPT !.code = i] EXCEPT !.rev = clock + 1]
      BY <1>9, <2>1, <1>0 DEF UpdateCode, Latest
    <3>4. UNCHANGED <<versions, alias, overtaken>> /\ clock' = clock + 1
      BY <1>9, <2>1 DEF UpdateCode
    <3> QED
      BY <1>2, <3>2, <3>3, <3>4
  <2>2. CASE latest.rev # seen[i].latest.rev
    BY <1>1, <1>9, <2>2 DEF UpdateCode, service
  <2> QED
    BY <2>1, <2>2
<1>10. ASSUME NEW i \in Invocations, Publish(i) PROVE ServiceInv' /\ Grown
  <2>1. CASE latest.rev = seen[i].latest.rev
    <3>1. VersionsKept /\ versions' \in Seq(Version)
      BY <1>0, <1>6, <1>10, <2>1, Published, NotPublished DEF Publish
    <3>2. /\ UNCHANGED <<alias, overtaken>> /\ clock' = clock + 1
          /\ latest' = [latest EXCEPT !.rev = clock + 1]
      BY <1>10, <2>1 DEF Publish
    <3> QED
      BY <1>3, <3>1, <3>2
  <2>2. CASE latest.rev # seen[i].latest.rev
    BY <1>1, <1>10, <2>2 DEF Publish, service
  <2> QED
    BY <2>1, <2>2
<1>11. ASSUME NEW i \in Invocations, MoveAlias(i) PROVE ServiceInv' /\ Grown
  <2>1. seen[i].version \in 1..Len(versions)
    BY <1>11 DEF MoveAlias, IInv, Local, Inspected
  <2> QED
    BY <1>1, <1>4, <1>11, <2>1 DEF MoveAlias, service
<1>12. ASSUME NEW c \in Promotions, ApplyConfiguration(c) PROVE ServiceInv' /\ Grown
  <2>1. [latest EXCEPT !.config = c] \in Latest
    BY <1>0 DEF Latest, Configs
  <2>2. latest' = [[latest EXCEPT !.config = c] EXCEPT !.rev = clock + 1]
    BY <1>12, <1>0 DEF ApplyConfiguration, Latest
  <2>3. UNCHANGED <<versions, alias, overtaken>> /\ clock' = clock + 1
    BY <1>12 DEF ApplyConfiguration
  <2> QED
    BY <1>2, <2>1, <2>2, <2>3
<1>13. ASSUME NEW c \in Promotions, PublishConfiguration(c) PROVE ServiceInv' /\ Grown
  <2>1. VersionsKept /\ versions' \in Seq(Version)
    BY <1>0, <1>6, <1>13, Published DEF PublishConfiguration
  <2> QED
    BY <1>3, <1>13, <2>1 DEF PublishConfiguration
<1>14. ASSUME NEW c \in Promotions, ExpectConfiguration(c) \/ FinishApply(c)
       PROVE  ServiceInv' /\ Grown
  BY <1>1, <1>14 DEF ExpectConfiguration, FinishApply
<1>15. ASSUME NEW v \in 1..Len(versions), Rollback(v) PROVE ServiceInv' /\ Grown
  BY <1>4, <1>15 DEF Rollback
<1>16. ASSUME FinishPublication PROVE ServiceInv' /\ Grown
  <2>1. VersionsKept /\ versions' \in Seq(Version)
    BY <1>0, <1>16, Activated DEF FinishPublication
  <2> QED
    BY <1>3, <1>16, <2>1 DEF FinishPublication
<1>17. CASE UNCHANGED vars
  BY <1>1, <1>17 DEF vars, service
<1> QED
  BY <1>7, <1>8, <1>9, <1>10, <1>11, <1>12, <1>13, <1>14, <1>15, <1>16, <1>17
     DEF Next, Step, Terraform

\* What every step does to the variables of nobody's state.
LEMMA OutsideStep ==
  ASSUME IInv, [Next]_vars
  PROVE  OutsideOK'
<1> USE UpdaterAssumption DEF IInv, OutsideOK, outside, Configs, Invocations
<1>1. ASSUME NEW i \in Invocations, Upload(i) \/ Start(i) \/ Fault(i) PROVE OutsideOK'
  <2>1. ASSUME Start(i) PROVE attempts[i] + 1 \in 0..MaxAttempts
    BY <2>1 DEF Start, AttemptsInv
  <2> QED
    BY <1>1, <2>1 DEF Upload, Start, Fault
<1>2. ASSUME NEW i \in Invocations, Step(i), ~Start(i) PROVE OutsideOK'
  BY <1>2
     DEF Step, ReadPrevious, UpdateCode, ReadStaged, Publish, AwaitVersion, ReadPublished,
         CheckAlias, CheckLatest, ReadApplied, ReadLive, FindVersion, InspectCandidate,
         MoveAlias, Confirm
<1>3. ASSUME NEW c \in Promotions, Terraform(c) PROVE OutsideOK'
  BY <1>3
     DEF Terraform, ApplyConfiguration, PublishConfiguration, ExpectConfiguration, FinishApply
<1>4. ASSUME NEW v \in 1..Len(versions), Rollback(v) PROVE OutsideOK'
  BY <1>4 DEF Rollback
<1>5. CASE FinishPublication \/ UNCHANGED vars
  BY <1>5 DEF FinishPublication, vars
<1> QED
  BY <1>1, <1>2, <1>3, <1>4, <1>5 DEF Next, Step

\* Who raises is delivered again at most MaxAttempts times.
LEMMA AttemptsStep ==
  ASSUME IInv, [Next]_vars
  PROVE  AttemptsInv'
<1> USE UpdaterAssumption, Tables
    DEF IInv, OutsideOK, AttemptsInv, Invocations, Goto, Raise, outside, Running
<1>1. ASSUME NEW i \in Invocations, Upload(i) \/ Start(i) \/ Fault(i) PROVE AttemptsInv'
  BY <1>1 DEF Upload, Start, Fault
<1>2. ASSUME NEW i \in Invocations, Step(i), ~Start(i) PROVE AttemptsInv'
  BY <1>2
     DEF Step, ReadPrevious, UpdateCode, ReadStaged, Publish, AwaitVersion, ReadPublished,
         CheckAlias, CheckLatest, ReadApplied, ReadLive, FindVersion, InspectCandidate,
         MoveAlias, Confirm
<1>3. ASSUME NEW c \in Promotions, Terraform(c) PROVE AttemptsInv'
  BY <1>3
     DEF Terraform, ApplyConfiguration, PublishConfiguration, ExpectConfiguration, FinishApply
<1>4. ASSUME NEW v \in 1..Len(versions), Rollback(v) PROVE AttemptsInv'
  BY <1>4 DEF Rollback
<1>5. CASE FinishPublication \/ UNCHANGED vars
  BY <1>5 DEF FinishPublication, vars
<1> QED
  BY <1>1, <1>2, <1>3, <1>4, <1>5 DEF Next, Step

\* What an invocation has seen stays true of the service.
LEMMA LocalKept ==
  ASSUME ServiceInv, ServiceInv', Grown, NEW i \in Invocations, NEW p \in Places, NEW s \in Seen,
         Local(i, p, s)
  PROVE  Local(i, p, s)'
<1>1. /\ s.alias \in Alias /\ s.alias.rev \in Nat /\ s.alias.version \in Nat
      /\ s.version \in Nat
  BY DEF Seen, Alias
<1>2. clock \in Nat /\ alias.rev \in Nat /\ clock' \in Nat /\ clock <= clock'
  BY DEF ServiceInv, Alias, Grown
<1>3. s.alias.rev <= clock /\ s.alias.version \in 1..Len(versions)
  BY DEF Local
<1>4. /\ s.alias.rev <= clock'
      /\ s.alias.rev = alias'.rev => s.alias = alias'
      /\ i \in overtaken' /\ p \in Running => s.alias.rev < alias'.rev
  <2>1. CASE alias' = alias /\ overtaken' \subseteq overtaken
    BY <1>1, <1>2, <2>1 DEF Local
  <2>2. CASE alias'.rev = clock + 1
    BY <1>1, <1>2, <1>3, <2>2
  <2> QED
    BY <2>1, <2>2 DEF Grown
<1>5. \A v \in 1..Len(versions) :
        /\ v \in 1..Len(versions')
        /\ Snapshot(versions'[v]) = Snapshot(versions[v])
        /\ versions'[v].code = versions[v].code
  BY DEF Grown, VersionsKept, Snapshot
<1>6. i \in Promotions => PromotionInv(i, p, s)'
  BY <1>3, <1>5 DEF Local, PromotionInv
<1>7. /\ p \in {"await_version", "read_published", "candidate"} \cup Inspected =>
           s.version \in 1..Len(versions')
      /\ p \in Inspected => Snapshot(versions'[s.version]) = Snapshot(s.latest)
  BY <1>5 DEF Local
<1> QED
  BY <1>3, <1>4, <1>5, <1>6, <1>7 DEF Local, ReleaseInv

\* An invocation takes its step; the others stay where they are.
LEMMA Turn ==
  ASSUME IInv, [Next]_vars, NEW i \in Invocations, NEW p \in Places, NEW s \in Seen,
         pc' = [pc EXCEPT ![i] = p], seen' = [seen EXCEPT ![i] = s],
         Local(i, p, s)'
  PROVE  IInv'
<1>1. ServiceInv' /\ Grown /\ OutsideOK' /\ AttemptsInv'
  BY ServiceStep, OutsideStep, AttemptsStep
<1>2. pc' \in [Invocations -> Places] /\ seen' \in [Invocations -> Seen]
  BY DEF IInv
<1>3. ASSUME NEW j \in Invocations PROVE Local(j, pc[j], seen[j])'
  <2>1. CASE j = i
    BY <2>1 DEF IInv
  <2>2. CASE j # i
    <3>1. /\ pc'[j] = pc[j] /\ seen'[j] = seen[j] /\ pc[j] \in Places /\ seen[j] \in Seen
          /\ Local(j, pc[j], seen[j])
      BY <2>2 DEF IInv
    <3> QED
      BY <1>1, <3>1, LocalKept DEF IInv
  <2> QED
    BY <2>1, <2>2
<1> QED
  BY <1>1, <1>2, <1>3 DEF IInv

-----------------------------------------------------------------------------
\* What holds before the service's step of what the invocation will have seen
\* holds after it.
LEMMA LocalTurn ==
  ASSUME IInv, [Next]_vars, NEW i \in Invocations, NEW p \in Places, NEW s \in Seen,
         pc' = [pc EXCEPT ![i] = p], seen' = [seen EXCEPT ![i] = s],
         Local(i, p, s)
  PROVE  IInv'
<1>1. ServiceInv' /\ Grown
  BY ServiceStep
<1>2. Local(i, p, s)'
  BY <1>1, LocalKept DEF IInv
<1> QED
  BY <1>2, Turn

\* An invocation that raises, ends or waits claims nothing.
LEMMA StopTurn ==
  ASSUME IInv, [Next]_vars, NEW i \in Invocations, NEW p \in Places \ Running,
         pc' = [pc EXCEPT ![i] = p], UNCHANGED seen
  PROVE  IInv'
<1>1. pc[i] \in Places /\ seen[i] \in Seen /\ Local(i, pc[i], seen[i])
  BY DEF IInv
<1>2. Local(i, p, seen[i])
  BY <1>1 DEF Local, ReleaseInv, PromotionInv, Running, Inspected, Releasing, Promoting
<1>3. seen' = [seen EXCEPT ![i] = seen[i]] /\ p \in Places
  BY DEF IInv
<1> QED
  BY <1>1, <1>2, <1>3, LocalTurn

LEMMA RaiseTurn ==
  ASSUME IInv, [Next]_vars, NEW i \in Invocations, Raise(i), UNCHANGED seen
  PROVE  IInv'
<1>1. PICK p \in {"queued", "failed"} : pc' = [pc EXCEPT ![i] = p]
  BY DEF Raise, Goto
<1>2. p \in Places \ Running
  BY DEF Places, Running
<1> QED
  BY <1>1, <1>2, StopTurn

\* Every step of an invocation preserves the invariant.
LEMMA StepTurn ==
  ASSUME IInv, [Next]_vars, NEW i \in Invocations, Step(i)
  PROVE  IInv'
<1> DEFINE s == seen[i]
<1>0. /\ pc[i] \in Places /\ s \in Seen /\ Local(i, pc[i], s)
      /\ latest \in Latest /\ alias \in Alias /\ clock \in Nat
      /\ alias.rev <= clock /\ latest.rev <= clock
      /\ versions \in Seq(Version) /\ Len(versions) \in Nat
      /\ i \in Releases \/ i \in Promotions
  BY LenProperties DEF IInv, ServiceInv, Invocations
<1>00. seen = [seen EXCEPT ![i] = s]
  BY DEF IInv
<1> USE UpdaterAssumption
    DEF Goto, Local, ReleaseInv, PromotionInv, Running, Places, Inspected, Releasing, Promoting
<1> HIDE DEF s
<1>1. CASE Start(i)
  <2>1. CASE i \in Promotions /\ i # expected
    BY <1>1, <2>1, StopTurn DEF Start
  <2>2. CASE ~(i \in Promotions /\ i # expected)
    <3>1. PICK t \in Seen : /\ t.alias = alias /\ t.latest = s.latest /\ t.version = s.version
                            /\ t = [s EXCEPT !.alias = alias]
      BY <1>0 DEF Seen
    <3>2. PICK p \in {"read_previous", "read_applied"} : i \in Releases <=> p = "read_previous"
      OBVIOUS
    <3>3. pc' = [pc EXCEPT ![i] = p] /\ seen' = [seen EXCEPT ![i] = t]
      BY <1>1, <2>2, <3>1, <3>2 DEF Start, s
    <3>4. UNCHANGED <<alias, clock, versions>> /\ overtaken' = overtaken \ {i}
      BY <1>1 DEF Start, service
    <3>5. alias.version \in 1..Len(versions) /\ alias.rev <= clock
      BY <1>0 DEF IInv, ServiceInv, Alias
    <3>6. Local(i, p, t)'
      BY <1>0, <3>1, <3>2, <3>4, <3>5
    <3> QED
      BY <3>1, <3>3, <3>6, Turn
  <2> QED
    BY <2>1, <2>2
<1>2. CASE ReadPrevious(i)
  <2> DEFINE t == [s EXCEPT !.latest = latest]
  <2>1. t \in Seen /\ t.alias = s.alias /\ t.latest = latest /\ t.version = s.version
    BY <1>0 DEF Seen
  <2>2. pc' = [pc EXCEPT ![i] = "update_code"] /\ seen' = [seen EXCEPT ![i] = t]
    BY <1>2 DEF ReadPrevious, s
  <2> HIDE DEF t
  <2>3. Local(i, "update_code", t)
    BY <1>0, <1>2, <2>1 DEF ReadPrevious
  <2> QED
    BY <2>1, <2>2, <2>3, LocalTurn
<1>3. CASE UpdateCode(i)
  <2>1. CASE latest.rev = seen[i].latest.rev
    <3>1. Local(i, "read_staged", s)
      BY <1>0, <1>3 DEF UpdateCode
    <3> QED
      BY <1>0, <1>00, <1>3, <2>1, <3>1, LocalTurn DEF UpdateCode
  <2>2. CASE latest.rev # seen[i].latest.rev
    BY <1>3, <2>2, RaiseTurn DEF UpdateCode
  <2> QED
    BY <2>1, <2>2
<1>4. CASE ReadStaged(i)
  <2>1. CASE latest.code = i
    <3> DEFINE t == [s EXCEPT !.latest = latest]
    <3>1. t \in Seen /\ t.alias = s.alias /\ t.latest = latest /\ t.version = s.version
      BY <1>0 DEF Seen
    <3>2. pc' = [pc EXCEPT ![i] = "staged_alias"] /\ seen' = [seen EXCEPT ![i] = t]
      BY <1>4, <2>1 DEF ReadStaged, s
    <3> HIDE DEF t
    <3>3. Local(i, "staged_alias", t)
      BY <1>0, <1>4, <2>1, <3>1 DEF ReadStaged
    <3> QED
      BY <3>1, <3>2, <3>3, LocalTurn
  <2>2. CASE latest.code # i
    BY <1>4, <2>2, RaiseTurn DEF ReadStaged
  <2> QED
    BY <2>1, <2>2
<1>5. CASE Publish(i)
  <2>1. CASE latest.rev = seen[i].latest.rev
    <3>1. ServiceInv' /\ Grown /\ VersionsKept
      BY ServiceStep DEF Grown
    <3>2. Len(versions') \in Nat /\ Len(versions') >= 1
      BY <1>0, <3>1 DEF VersionsKept
    <3>3. PICK t \in Seen : /\ t.alias = s.alias /\ t.latest = s.latest
                            /\ t.version = Len(versions')
                            /\ t = [s EXCEPT !.version = Len(versions')]
      BY <1>0, <3>2 DEF Seen
    <3>4. pc' = [pc EXCEPT ![i] = "await_version"] /\ seen' = [seen EXCEPT ![i] = t]
      BY <1>5, <2>1, <3>3 DEF Publish, s
    <3>5. PICK r \in Seen : r = s
      BY <1>0
    <3>6. Local(i, "publish", r)'
      <4>1. Local(i, "publish", r)
        BY <1>0, <1>5, <3>5 DEF Publish
      <4> QED
        BY <3>1, <4>1, LocalKept DEF IInv
    <3>7. Local(i, "await_version", t)'
      BY <1>0, <3>2, <3>3, <3>5, <3>6
    <3> QED
      BY <3>3, <3>4, <3>7, Turn
  <2>2. CASE latest.rev # seen[i].latest.rev
    BY <1>5, <2>2, RaiseTurn DEF Publish
  <2> QED
    BY <2>1, <2>2
<1>6. CASE AwaitVersion(i)
  <2>1. Local(i, "read_published", s)
    BY <1>0, <1>6 DEF AwaitVersion
  <2> QED
    BY <1>0, <1>00, <1>6, <2>1, LocalTurn DEF AwaitVersion
<1>7. CASE ReadPublished(i)
  <2>1. CASE Snapshot(latest) = Snapshot(seen[i].latest)
    <3> DEFINE t == [s EXCEPT !.latest = latest]
    <3>1. t \in Seen /\ t.alias = s.alias /\ t.latest = latest /\ t.version = s.version
      BY <1>0 DEF Seen
    <3>2. pc' = [pc EXCEPT ![i] = "candidate"] /\ seen' = [seen EXCEPT ![i] = t]
      BY <1>7, <2>1 DEF ReadPublished, s
    <3>3. latest.code = s.latest.code
      BY <2>1 DEF s, Snapshot
    <3> HIDE DEF t
    <3>4. Local(i, "candidate", t)
      BY <1>0, <1>7, <3>1, <3>3 DEF ReadPublished
    <3> QED
      BY <3>1, <3>2, <3>4, LocalTurn
  <2>2. CASE Snapshot(latest) # Snapshot(seen[i].latest)
    BY <1>7, <2>2, RaiseTurn DEF ReadPublished
  <2> QED
    BY <2>1, <2>2
<1>8. CASE CheckAlias(i)
  <2>1. CASE alias.rev = seen[i].alias.rev
    <3>1. Local(i, AfterAlias[pc[i]], s) /\ AfterAlias[pc[i]] \in Places
      BY <1>0, <1>8, Tables DEF CheckAlias
    <3>2. pc' = [pc EXCEPT ![i] = AfterAlias[pc[i]]] /\ seen' = seen
      BY <1>8, <2>1 DEF CheckAlias
    <3> QED
      BY <1>0, <1>00, <3>1, <3>2, LocalTurn
  <2>2. CASE alias.rev # seen[i].alias.rev
    BY <1>8, <2>2, RaiseTurn DEF CheckAlias
  <2> QED
    BY <2>1, <2>2
<1>9. CASE CheckLatest(i)
  <2>1. CASE latest.rev = seen[i].latest.rev
    <3>1. Local(i, AfterLatest[pc[i]], s) /\ AfterLatest[pc[i]] \in Places
      BY <1>0, <1>9, Tables DEF CheckLatest
    <3>2. pc' = [pc EXCEPT ![i] = AfterLatest[pc[i]]] /\ seen' = seen
      BY <1>9, <2>1 DEF CheckLatest
    <3> QED
      BY <1>0, <1>00, <3>1, <3>2, LocalTurn
  <2>2. CASE latest.rev # seen[i].latest.rev
    BY <1>9, <2>2, RaiseTurn DEF CheckLatest
  <2> QED
    BY <2>1, <2>2
<1>10. CASE ReadApplied(i)
  <2>1. CASE latest.config = i
    <3> DEFINE t == [s EXCEPT !.latest = latest]
    <3>1. t \in Seen /\ t.alias = s.alias /\ t.latest = latest /\ t.version = s.version
      BY <1>0 DEF Seen
    <3>2. pc' = [pc EXCEPT ![i] = "read_live"] /\ seen' = [seen EXCEPT ![i] = t]
      BY <1>10, <2>1 DEF ReadApplied, s
    <3> HIDE DEF t
    <3>3. Local(i, "read_live", t)
      BY <1>0, <1>10, <2>1, <3>1 DEF ReadApplied
    <3> QED
      BY <3>1, <3>2, <3>3, LocalTurn
  <2>2. CASE latest.config # i
    BY <1>10, <2>2, RaiseTurn DEF ReadApplied
  <2> QED
    BY <2>1, <2>2
<1>11. CASE ReadLive(i)
  <2> DEFINE live == versions[s.alias.version]
  <2>1. CASE live.code # s.latest.code \/ (Snapshot(live) = Snapshot(s.latest)
                                            /\ Snapshot(live) \notin Supported)
    BY <1>11, <2>1, RaiseTurn DEF ReadLive, s
  <2>2. CASE live.code = s.latest.code /\ Snapshot(live) # Snapshot(s.latest)
    <3>1. Local(i, "find_version", s)
      BY <1>0, <1>11, <2>2 DEF ReadLive
    <3>2. pc' = [pc EXCEPT ![i] = "find_version"] /\ seen' = seen
      BY <1>11, <2>2 DEF ReadLive, s
    <3> QED
      BY <1>0, <1>00, <3>1, <3>2, LocalTurn
  <2>3. CASE /\ live.code = s.latest.code /\ Snapshot(live) = Snapshot(s.latest)
             /\ Snapshot(live) \in Supported
    <3>1. Local(i, "current_alias", s)
      BY <1>0, <1>11, <2>3 DEF ReadLive
    <3>2. pc' = [pc EXCEPT ![i] = "current_alias"] /\ seen' = seen
      BY <1>11, <2>3 DEF ReadLive, s
    <3> QED
      BY <1>0, <1>00, <3>1, <3>2, LocalTurn
  <2> QED
    BY <2>1, <2>2, <2>3
<1>12. CASE FindVersion(i)
  <2>1. CASE Matching(i) = {} /\ Raise(i) /\ UNCHANGED seen
    BY <2>1, RaiseTurn
  <2>2. ASSUME NEW v \in Matching(i), seen' = [seen EXCEPT ![i].version = v], Goto(i, "candidate")
        PROVE  IInv'
    <3> DEFINE t == [s EXCEPT !.version = v]
    <3>1. v \in 1..Len(versions)
      BY DEF Matching
    <3>2. t \in Seen /\ t.alias = s.alias /\ t.latest = s.latest /\ t.version = v
      BY <1>0, <3>1 DEF Seen
    <3>3. pc' = [pc EXCEPT ![i] = "candidate"] /\ seen' = [seen EXCEPT ![i] = t]
      BY <2>2 DEF s
    <3> HIDE DEF t
    <3>4. Local(i, "candidate", t)
      BY <1>0, <1>12, <3>1, <3>2 DEF FindVersion
    <3> QED
      BY <3>2, <3>3, <3>4, LocalTurn
  <2> QED
    BY <1>12, <2>1, <2>2 DEF FindVersion
<1>13. CASE InspectCandidate(i)
  <2> DEFINE candidate == versions[s.version]
  <2>1. CASE Snapshot(candidate) = Snapshot(s.latest) /\ Snapshot(candidate) \in Supported
    <3>1. Local(i, "promoted_alias", s)
      BY <1>0, <1>13, <2>1 DEF InspectCandidate
    <3>2. pc' = [pc EXCEPT ![i] = "promoted_alias"] /\ seen' = seen
      BY <1>13, <2>1 DEF InspectCandidate, s
    <3> QED
      BY <1>0, <1>00, <3>1, <3>2, LocalTurn
  <2>2. CASE ~(Snapshot(candidate) = Snapshot(s.latest) /\ Snapshot(candidate) \in Supported)
    BY <1>13, <2>2, RaiseTurn DEF InspectCandidate, s
  <2> QED
    BY <2>1, <2>2
<1>14. CASE MoveAlias(i)
  <2>1. CASE alias.rev = seen[i].alias.rev
    <3>1. Local(i, "confirm", s)
      BY <1>0, <1>14 DEF MoveAlias
    <3>2. pc' = [pc EXCEPT ![i] = "confirm"] /\ seen' = seen
      BY <1>14, <2>1 DEF MoveAlias
    <3> QED
      BY <1>0, <1>00, <3>1, <3>2, LocalTurn
  <2>2. CASE alias.rev # seen[i].alias.rev
    BY <1>14, <2>2, RaiseTurn DEF MoveAlias
  <2> QED
    BY <2>1, <2>2
<1>15. CASE Confirm(i)
  <2>1. CASE alias.version = seen[i].version
    BY <1>15, <2>1, StopTurn DEF Confirm
  <2>2. CASE alias.version # seen[i].version
    BY <1>15, <2>2, RaiseTurn DEF Confirm
  <2> QED
    BY <2>1, <2>2
<1> QED
  BY <1>1, <1>2, <1>3, <1>4, <1>5, <1>6, <1>7, <1>8, <1>9, <1>10, <1>11, <1>12, <1>13, <1>14,
     <1>15
     DEF Step

LEMMA StillTurn ==
  ASSUME IInv, [Next]_vars, UNCHANGED <<pc, seen>>
  PROVE  IInv'
<1>1. ServiceInv' /\ Grown /\ OutsideOK' /\ AttemptsInv'
  BY ServiceStep, OutsideStep, AttemptsStep
<1>2. ASSUME NEW j \in Invocations PROVE Local(j, pc[j], seen[j])'
  BY <1>1, LocalKept DEF IInv
<1> QED
  BY <1>1, <1>2 DEF IInv

LEMMA InitIInv == Init => IInv
<1> SUFFICES ASSUME Init PROVE IInv
  OBVIOUS
<1> USE UpdaterAssumption
<1>1. /\ latest = [code |-> FirstCode, config |-> FirstConfig, rev |-> 1] /\ latest \in Latest
      /\ alias = [version |-> 1, rev |-> 1] /\ alias \in Alias
  BY DEF Init, Latest, Alias, Codes, Configs
<1>2. versions \in Seq(Version) /\ Len(versions) = 1
  BY DEF Init, Version, Codes, Configs
<1>3. ServiceInv
  BY <1>1, <1>2 DEF ServiceInv, Init
<1>4. OutsideOK /\ AttemptsInv
  BY DEF Init, OutsideOK, AttemptsInv, Configs
<1>5. pc \in [Invocations -> Places] /\ seen \in [Invocations -> Seen]
  BY <1>1 DEF Init, Places, Seen
<1>6. ASSUME NEW i \in Invocations PROVE Local(i, pc[i], seen[i])
  BY <1>1, <1>2
     DEF Init, Local, ReleaseInv, PromotionInv, Running, Inspected, Releasing, Promoting
<1> QED
  BY <1>3, <1>4, <1>5, <1>6 DEF IInv

LEMMA StepIInv == IInv /\ [Next]_vars => IInv'
<1> SUFFICES ASSUME IInv, [Next]_vars PROVE IInv'
  OBVIOUS
<1>1. ASSUME NEW i \in Invocations, Upload(i) PROVE IInv'
  BY <1>1, StopTurn DEF Upload, Goto, Places, Running
<1>2. ASSUME NEW i \in Invocations, Step(i) PROVE IInv'
  BY <1>2, StepTurn
<1>3. ASSUME NEW i \in Invocations, Fault(i) PROVE IInv'
  BY <1>3, RaiseTurn DEF Fault
<1>4. ASSUME NEW c \in Promotions, ExpectConfiguration(c) PROVE IInv'
  BY <1>4, StopTurn DEF ExpectConfiguration, Goto, Places, Running, Invocations, service
<1>5. ASSUME NEW c \in Promotions,
             ApplyConfiguration(c) \/ PublishConfiguration(c) \/ FinishApply(c)
      PROVE  IInv'
  BY <1>5, StillTurn DEF ApplyConfiguration, PublishConfiguration, FinishApply
<1>6. ASSUME NEW v \in 1..Len(versions), Rollback(v) PROVE IInv'
  BY <1>6, StillTurn DEF Rollback
<1>7. CASE FinishPublication \/ UNCHANGED vars
  BY <1>7, StillTurn DEF FinishPublication, vars
<1> QED
  BY <1>1, <1>2, <1>3, <1>4, <1>5, <1>6, <1>7 DEF Next, Terraform

LEMMA Invariance == Spec => []IInv
<1> QED
  BY InitIInv, StepIInv, PTL DEF Spec

-----------------------------------------------------------------------------
\* The updater's own state and what it keeps in the Lambda service stay within
\* their types: the alias names a version that exists, and no event is
\* delivered more often than Lambda retries.
THEOREM TypeCorrect == Spec => []TypeOK
<1>1. IInv => TypeOK
  BY DEF IInv, ServiceInv, OutsideOK, TypeOK, Places, Seen
<1> QED
  BY Invariance, <1>1, PTL

\* Nobody but the service and Terraform moves an invocation that does not step.
LEMMA WhoMoves ==
  ASSUME IInv, [Next]_vars, NEW i \in Invocations, pc'[i] # pc[i] \/ seen'[i] # seen[i]
  PROVE  Step(i) \/ Fault(i) \/ Upload(i) \/ (i \in Promotions /\ ExpectConfiguration(i))
<1> USE DEF IInv, Goto, Raise, Invocations
<1>1. ASSUME NEW j \in Invocations, Upload(j) \/ Fault(j), j # i PROVE FALSE
  BY <1>1 DEF Upload, Fault
<1>2. ASSUME NEW j \in Invocations, Step(j), j # i PROVE FALSE
  BY <1>2
     DEF Step, Start, ReadPrevious, UpdateCode, ReadStaged, Publish, AwaitVersion,
         ReadPublished, CheckAlias, CheckLatest, ReadApplied, ReadLive, FindVersion,
         InspectCandidate, MoveAlias, Confirm
<1>3. ASSUME NEW c \in Promotions, Terraform(c), ~(c = i /\ ExpectConfiguration(c)) PROVE FALSE
  BY <1>3
     DEF Terraform, ApplyConfiguration, PublishConfiguration, ExpectConfiguration, FinishApply
<1>4. ASSUME (\E v \in 1..Len(versions) : Rollback(v)) \/ FinishPublication \/ UNCHANGED vars
      PROVE  FALSE
  BY <1>4 DEF Rollback, FinishPublication, vars
<1> QED
  BY <1>1, <1>2, <1>3, <1>4 DEF Next

\* Who goes on from move_alias to confirm has moved the alias it read to the
\* version it inspected.
LEMMA Mover ==
  ASSUME IInv, [Next]_vars, NEW i \in Invocations, pc[i] = "move_alias", pc'[i] = "confirm"
  PROVE  /\ alias = seen[i].alias /\ alias' = [version |-> seen[i].version, rev |-> clock + 1]
         /\ UNCHANGED <<versions, latest, rollbacks>>
<1>1. Step(i) \/ Fault(i)
  BY WhoMoves DEF Upload, ExpectConfiguration, Goto, IInv, Invocations
<1>2. ~Fault(i)
  BY DEF Fault, Raise, Goto, IInv
<1>3. MoveAlias(i)
  BY <1>1, <1>2, Tables
     DEF Step, Start, ReadPrevious, UpdateCode, ReadStaged, Publish, AwaitVersion,
         ReadPublished, CheckAlias, CheckLatest, ReadApplied, ReadLive, FindVersion,
         InspectCandidate, Confirm
<1>4. alias.rev = seen[i].alias.rev
  BY <1>3 DEF MoveAlias, Raise, Goto, IInv
<1> QED
  BY <1>3, <1>4 DEF MoveAlias, MoveAliasTo, outside, IInv, Local

\* The live version before and after such a step.
LEMMA MovesTo ==
  ASSUME IInv, [Next]_vars, NEW i \in Invocations, pc[i] = "move_alias", pc'[i] = "confirm"
  PROVE  /\ Live = versions[seen[i].alias.version]
         /\ Snapshot(Live') = Snapshot(seen[i].latest)
         /\ Snapshot(Live') \in Supported
<1>1. Live' = versions[seen[i].version] /\ Live = versions[seen[i].alias.version]
  BY Mover DEF Live
<1>2. /\ Snapshot(versions[seen[i].version]) = Snapshot(seen[i].latest)
      /\ Snapshot(seen[i].latest) \in Supported
  BY DEF IInv, Local, Inspected
<1> QED
  BY <1>1, <1>2

\* _promote_version never makes a package live that _assert_asset_package_support
\* would reject, whatever happened between the inspection and the move.
THEOREM OnlySupportedGoLive == Spec => PromotesSupported
<1>1. ASSUME IInv, [Next]_vars, NEW i \in Invocations, Moves(i), pc'[i] = "confirm"
      PROVE  Snapshot(Live') \in Supported
  BY <1>1, MovesTo DEF Moves
<1>2. IInv /\ [Next]_vars =>
        [\A i \in Invocations :
           Moves(i) /\ pc'[i] = "confirm" => Snapshot(Live') \in Supported]_vars
  BY <1>1
<1> QED
  BY Invariance, <1>2, PTL DEF Spec, PromotesSupported

\* _promote_configuration keeps the code that is live at the moment it moves
\* the alias, and not only the code that was live when it began.
THEOREM PromotionsKeepCode == Spec => ConfigurationKeepsCode
<1>1. ASSUME IInv, [Next]_vars, NEW i \in Promotions, Moves(i), pc'[i] = "confirm"
      PROVE  Live'.code = Live.code
  <2>1. i \in Invocations /\ pc[i] = "move_alias"
    BY <1>1 DEF Invocations, Moves
  <2>2. Live'.code = seen[i].latest.code
    BY <1>1, <2>1, MovesTo DEF Snapshot
  <2>3. versions[seen[i].alias.version].code = seen[i].latest.code
    BY <1>1, <2>1 DEF IInv, Local, PromotionInv
  <2> QED
    BY <1>1, <2>1, <2>2, <2>3, MovesTo
<1>2. IInv /\ [Next]_vars =>
        [\A i \in Promotions : Moves(i) /\ pc'[i] = "confirm" => Live'.code = Live.code]_vars
  BY <1>1
<1> QED
  BY Invariance, <1>2, PTL DEF Spec, ConfigurationKeepsCode

\* The RevisionId of update_alias stops every invocation during which another
\* one, or the operator, moved the alias, even back to the same version.
THEOREM OvertakenGivesUp == Spec => OvertakenNeverPromotes
<1>1. ASSUME IInv, [Next]_vars, NEW i \in overtaken, Moves(i), pc'[i] = "confirm"
      PROVE  FALSE
  <2>1. i \in Invocations /\ pc[i] = "move_alias"
    BY <1>1 DEF IInv, OutsideOK, Moves
  <2>2. alias = seen[i].alias
    BY <1>1, <2>1, Mover
  <2>3. seen[i].alias.rev < alias.rev /\ alias.rev \in Nat
    BY <1>1, <2>1 DEF IInv, ServiceInv, Alias, Local, Running
  <2> QED
    BY <2>2, <2>3
<1>2. IInv /\ [Next]_vars =>
        [\A i \in overtaken : ~(Moves(i) /\ pc'[i] = "confirm")]_vars
  BY <1>1
<1> QED
  BY Invariance, <1>2, PTL DEF Spec, OvertakenNeverPromotes

\* A release that _deploy_artifact reports as promoted is live with its own
\* code at that moment.
THEOREM ReleasesAreLive == Spec => ReleaseIsLive
<1>1. ASSUME IInv, [Next]_vars, NEW i \in Releases, pc[i] = "confirm", pc'[i] = "done"
      PROVE  Live.code = i
  <2>1. i \in Invocations /\ Step(i)
    BY <1>1, WhoMoves
       DEF Upload, Fault, ExpectConfiguration, Raise, Goto, IInv, Invocations
  <2>2. Confirm(i)
    BY <1>1, <2>1, Tables
       DEF Step, Start, ReadPrevious, UpdateCode, ReadStaged, Publish, AwaitVersion,
           ReadPublished, CheckAlias, CheckLatest, ReadApplied, ReadLive, FindVersion,
           InspectCandidate, MoveAlias
  <2>3. alias.version = seen[i].version
    BY <1>1, <2>1, <2>2 DEF Confirm, Raise, Goto, IInv
  <2>4. /\ Snapshot(versions[seen[i].version]) = Snapshot(seen[i].latest)
        /\ seen[i].latest.code = i
    BY <1>1, <2>1 DEF IInv, Local, ReleaseInv, Inspected
  <2> QED
    BY <2>3, <2>4 DEF Live, Snapshot
<1>2. IInv /\ [Next]_vars =>
        [\A i \in Releases : pc[i] = "confirm" /\ pc'[i] = "done" => Live.code = i]_vars
  BY <1>1
<1> QED
  BY Invariance, <1>2, PTL DEF Spec, ReleaseIsLive

-----------------------------------------------------------------------------
\* One invocation runs at a time.  Unless the operator moves it, the alias is
\* the one it read until it moves it.
AloneInv ==
  /\ \A i, j \in Invocations : pc[i] \in Running /\ pc[j] \in Running => i = j
  /\ rollbacks = 0 =>
       \A i \in Invocations : pc[i] \in Running \ {"confirm"} => seen[i].alias = alias

\* After an apply was confirmed, and before the next one begins, nobody reads
\* another configuration.
ConfirmedInv ==
  \A c \in Promotions : pc[c] = "done" /\ latest.config = c =>
    \A i \in Invocations : pc[i] \in Running \ {"read_previous", "read_applied"} =>
      seen[i].latest.config = c

SerialInv == AloneInv /\ ConfirmedInv /\ ConfirmedConfigurationStays

\* Only Start reads the alias, and only from the queue.
LEMMA WhoReads ==
  ASSUME IInv, [Next]_vars, NEW i \in Invocations, pc'[i] \in Running
  PROVE  \/ /\ Start(i) /\ pc[i] = "queued" /\ seen'[i].alias = alias /\ UNCHANGED alias
            /\ pc'[i] \in {"read_previous", "read_applied"}
         \/ /\ pc[i] \in Running /\ seen'[i].alias = seen[i].alias
            /\ seen'[i].latest \in {seen[i].latest, latest}
            /\ pc[i] = "confirm" => pc'[i] = "confirm"
            /\ pc[i] \in {"read_previous", "read_applied"} /\ pc'[i] # pc[i] =>
                 seen'[i].latest = latest
<1> USE DEF IInv, Goto, Raise, Running
<1>1. CASE pc'[i] = pc[i] /\ seen'[i] = seen[i]
  BY <1>1
<1>2. CASE Start(i)
  BY <1>2 DEF Start, service, Seen
<1>3. CASE Step(i) /\ ~Start(i)
  <2>1. seen[i] \in Seen /\ pc[i] \in Running
    BY <1>3, Tables
       DEF Step, ReadPrevious, UpdateCode, ReadStaged, Publish, AwaitVersion, ReadPublished,
           CheckAlias, CheckLatest, ReadApplied, ReadLive, FindVersion, InspectCandidate,
           MoveAlias, Confirm
  <2>2. CASE ReadPrevious(i) \/ ReadStaged(i) \/ ReadPublished(i) \/ ReadApplied(i)
    BY <2>1, <2>2 DEF ReadPrevious, ReadStaged, ReadPublished, ReadApplied, Seen
  <2>3. CASE Publish(i) \/ FindVersion(i)
    BY <2>1, <2>3 DEF Publish, FindVersion, Seen
  <2>4. CASE \/ UpdateCode(i) \/ AwaitVersion(i) \/ CheckAlias(i) \/ CheckLatest(i)
             \/ ReadLive(i) \/ InspectCandidate(i) \/ MoveAlias(i) \/ Confirm(i)
    BY <2>1, <2>4, Tables
       DEF UpdateCode, AwaitVersion, CheckAlias, CheckLatest, ReadLive, InspectCandidate,
           MoveAlias, Confirm
  <2> QED
    BY <1>3, <2>2, <2>3, <2>4 DEF Step
<1>4. CASE Fault(i) \/ Upload(i) \/ (i \in Promotions /\ ExpectConfiguration(i))
  BY <1>4 DEF Fault, Upload, ExpectConfiguration
<1> QED
  BY <1>1, <1>2, <1>3, <1>4, WhoMoves

\* Terraform alone changes LATEST's configuration, to one that was not applied.
LEMMA WhoConfigures ==
  ASSUME IInv, [Next]_vars, latest'.config # latest.config
  PROVE  latest'.config \in Promotions /\ pc[latest'.config] = "absent" /\ UNCHANGED pc
<1> USE DEF IInv, ServiceInv, Latest, service
<1>1. ASSUME NEW i \in Invocations, Upload(i) \/ Fault(i) PROVE FALSE
  BY <1>1 DEF Upload, Fault
<1>2. ASSUME NEW i \in Invocations, Step(i) PROVE FALSE
  BY <1>2
     DEF Step, Start, ReadPrevious, UpdateCode, ReadStaged, Publish, AwaitVersion,
         ReadPublished, CheckAlias, CheckLatest, ReadApplied, ReadLive, FindVersion,
         InspectCandidate, MoveAlias, Confirm
<1>3. ASSUME NEW c \in Promotions, Terraform(c), ~ApplyConfiguration(c) PROVE FALSE
  BY <1>3 DEF Terraform, PublishConfiguration, ExpectConfiguration, FinishApply
<1>4. ASSUME NEW c \in Promotions, ApplyConfiguration(c)
      PROVE  latest'.config = c /\ pc[c] = "absent" /\ UNCHANGED pc
  BY <1>4 DEF ApplyConfiguration
<1>5. ASSUME (\E v \in 1..Len(versions) : Rollback(v)) \/ FinishPublication \/ UNCHANGED vars
      PROVE  FALSE
  BY <1>5 DEF Rollback, FinishPublication, vars
<1> QED
  BY <1>1, <1>2, <1>3, <1>4, <1>5 DEF Next

\* The alias is moved by the operator, or by who inspected a candidate.
LEMMA WhoMovesAlias ==
  ASSUME IInv, [Next]_vars, alias' # alias
  PROVE  \/ rollbacks' # 0
         \/ \E j \in Invocations : pc[j] = "move_alias" /\ pc'[j] = "confirm"
<1> USE DEF service
<1>1. ASSUME NEW i \in Invocations, Upload(i) \/ Fault(i) PROVE FALSE
  BY <1>1 DEF Upload, Fault
<1>2. ASSUME NEW i \in Invocations, Step(i) PROVE pc[i] = "move_alias" /\ pc'[i] = "confirm"
  BY <1>2
     DEF Step, Start, ReadPrevious, UpdateCode, ReadStaged, Publish, AwaitVersion,
         ReadPublished, CheckAlias, CheckLatest, ReadApplied, ReadLive, FindVersion,
         InspectCandidate, MoveAlias, Confirm, Goto, IInv
<1>3. ASSUME NEW c \in Promotions, Terraform(c) PROVE FALSE
  BY <1>3
     DEF Terraform, ApplyConfiguration, PublishConfiguration, ExpectConfiguration, FinishApply
<1>4. ASSUME NEW v \in 1..Len(versions), Rollback(v) PROVE rollbacks' # 0
  BY <1>4 DEF Rollback, IInv, OutsideOK
<1>5. CASE FinishPublication \/ UNCHANGED vars
  BY <1>5 DEF FinishPublication, vars
<1> QED
  BY <1>1, <1>2, <1>3, <1>4, <1>5 DEF Next

\* Rollbacks are counted and never taken back.
LEMMA RollbacksCounted ==
  ASSUME IInv, [Next]_vars
  PROVE  rollbacks' = 0 => rollbacks = 0
<1> USE DEF outside
<1>1. ASSUME NEW i \in Invocations, Upload(i) \/ Fault(i) PROVE UNCHANGED rollbacks
  BY <1>1 DEF Upload, Fault
<1>2. ASSUME NEW i \in Invocations, Step(i) PROVE UNCHANGED rollbacks
  BY <1>2
     DEF Step, Start, ReadPrevious, UpdateCode, ReadStaged, Publish, AwaitVersion,
         ReadPublished, CheckAlias, CheckLatest, ReadApplied, ReadLive, FindVersion,
         InspectCandidate, MoveAlias, Confirm
<1>3. ASSUME NEW c \in Promotions, Terraform(c) PROVE UNCHANGED rollbacks
  BY <1>3
     DEF Terraform, ApplyConfiguration, PublishConfiguration, ExpectConfiguration, FinishApply
<1>4. ASSUME NEW v \in 1..Len(versions), Rollback(v) PROVE rollbacks' # 0
  BY <1>4 DEF Rollback, IInv, OutsideOK
<1>5. CASE FinishPublication \/ UNCHANGED vars
  BY <1>5 DEF FinishPublication, vars
<1> QED
  BY <1>1, <1>2, <1>3, <1>4, <1>5 DEF Next

LEMMA InitSerial == Init => SerialInv
BY DEF Init, SerialInv, AloneInv, ConfirmedInv, ConfirmedConfigurationStays, Running, Invocations

\* With reserved concurrency 1, every step keeps the invocations apart.
LEMMA AloneStep ==
  ASSUME Serialized, IInv, AloneInv, [Next]_vars
  PROVE  AloneInv'
<1>1. ASSUME NEW i \in Invocations, NEW j \in Invocations, pc'[i] \in Running, pc'[j] \in Running,
             i # j
      PROVE  FALSE
  <2>1. ~(pc[i] \in Running /\ pc[j] \in Running)
    BY <1>1 DEF AloneInv
  <2>2. ASSUME NEW a \in {i, j}, Start(a)
        PROVE  \A b \in Invocations : pc[b] \notin Running /\ (b # a => pc'[b] = pc[b])
    BY <2>2 DEF Start, Goto, IInv
  <2> QED
    BY <1>1, <2>1, <2>2, WhoReads
<1>2. ASSUME rollbacks' = 0, NEW i \in Invocations, pc'[i] \in Running \ {"confirm"}
      PROVE  seen'[i].alias = alias'
  <2>1. rollbacks = 0
    BY <1>2, RollbacksCounted
  <2>2. CASE Start(i) /\ seen'[i].alias = alias /\ UNCHANGED alias
    BY <2>2
  <2>3. CASE /\ pc[i] \in Running /\ seen'[i].alias = seen[i].alias
             /\ pc[i] = "confirm" => pc'[i] = "confirm"
    <3>1. seen[i].alias = alias
      BY <1>2, <2>1, <2>3 DEF AloneInv
    <3>2. CASE alias' # alias
      <4>1. PICK j \in Invocations : pc[j] = "move_alias" /\ pc'[j] = "confirm"
        BY <1>2, <3>2, WhoMovesAlias
      <4>2. j = i
        BY <2>3, <4>1 DEF AloneInv, Running
      <4> QED
        BY <1>2, <4>1, <4>2
    <3> QED
      BY <2>3, <3>1, <3>2
  <2> QED
    BY <1>2, <2>2, <2>3, WhoReads
<1> QED
  BY <1>1, <1>2 DEF AloneInv

\* A promotion that has just ended was alone, and its configuration is live.
LEMMA JustConfirmed ==
  ASSUME Serialized, IInv, AloneInv, [Next]_vars, rollbacks = 0,
         NEW c \in Promotions, pc[c] # "done", pc'[c] = "done"
  PROVE  Live.config = c /\ UNCHANGED <<alias, versions>>
<1>1. c \in Invocations /\ Step(c)
  BY WhoMoves DEF Upload, Fault, ExpectConfiguration, Raise, Goto, IInv, Invocations
<1>2. Confirm(c) \/ (CheckLatest(c) /\ pc[c] = "current_latest")
  BY <1>1, Tables
     DEF Step, Start, ReadPrevious, UpdateCode, ReadStaged, Publish, AwaitVersion,
         ReadPublished, CheckAlias, CheckLatest, ReadApplied, ReadLive, FindVersion,
         InspectCandidate, MoveAlias, Raise, Goto, IInv
<1>3. Local(c, pc[c], seen[c]) /\ PromotionInv(c, pc[c], seen[c])
  BY <1>1 DEF IInv, Local
<1>4. UNCHANGED <<alias, versions>>
  BY <1>2 DEF Confirm, CheckLatest, service
<1>5. CASE Confirm(c)
  <2>1. alias.version = seen[c].version /\ pc[c] = "confirm"
    BY <1>1, <1>5 DEF Confirm, Raise, Goto, IInv
  <2>2. Snapshot(versions[seen[c].version]) = Snapshot(seen[c].latest) /\ seen[c].latest.config = c
    BY <1>3, <2>1 DEF Local, PromotionInv, Inspected, Running
  <2> QED
    BY <1>4, <2>1, <2>2 DEF Live, Snapshot
<1>6. CASE pc[c] = "current_latest"
  <2>1. seen[c].alias = alias
    BY <1>1, <1>6 DEF AloneInv, Running
  <2>2. /\ Snapshot(versions[seen[c].alias.version]) = Snapshot(seen[c].latest)
        /\ seen[c].latest.config = c
    BY <1>3, <1>6 DEF PromotionInv, Running
  <2> QED
    BY <1>4, <2>1, <2>2 DEF Live, Snapshot
<1> QED
  BY <1>2, <1>5, <1>6

LEMMA ConfirmedStep ==
  ASSUME Serialized, IInv, SerialInv, [Next]_vars
  PROVE  ConfirmedInv' /\ ConfirmedConfigurationStays'
<1>1. ASSUME NEW c \in Promotions, pc[c] = "done", pc'[c] = "done", latest'.config = c
      PROVE  latest.config = c
  BY <1>1, WhoConfigures
<1>2. ASSUME NEW c \in Promotions, pc'[c] = "done", latest'.config = c, NEW i \in Invocations,
             pc'[i] \in Running \ {"read_previous", "read_applied"}
      PROVE  seen'[i].latest.config = c
  <2>1. /\ pc[i] \in Running
        /\ seen'[i].latest \in {seen[i].latest, latest}
        /\ pc[i] \in {"read_previous", "read_applied"} => seen'[i].latest = latest
    BY <1>2, WhoReads
  <2>2. pc[c] = "done"
    <3> SUFFICES ASSUME pc[c] # "done" PROVE FALSE
      OBVIOUS
    <3>1. c \in Invocations /\ Step(c)
      BY <1>2, WhoMoves DEF Upload, Fault, ExpectConfiguration, Raise, Goto, IInv, Invocations
    <3>2. pc[c] \in Running \/ pc[c] = "queued"
      BY <3>1, Tables
         DEF Step, Start, ReadPrevious, UpdateCode, ReadStaged, Publish, AwaitVersion,
             ReadPublished, CheckAlias, CheckLatest, ReadApplied, ReadLive, FindVersion,
             InspectCandidate, MoveAlias, Confirm, Running
    <3>3. pc[c] # "queued"
      BY <1>2, <3>1, Tables
         DEF Step, Start, ReadPrevious, UpdateCode, ReadStaged, Publish, AwaitVersion,
             ReadPublished, CheckAlias, CheckLatest, ReadApplied, ReadLive, FindVersion,
             InspectCandidate, MoveAlias, Confirm, Goto, IInv
    <3>4. c = i
      BY <2>1, <3>1, <3>2, <3>3 DEF SerialInv, AloneInv
    <3> QED
      BY <1>2, <3>4 DEF Running
  <2>3. latest.config = c
    BY <1>1, <1>2, <2>2
  <2> QED
    BY <2>1, <2>2, <2>3 DEF SerialInv, ConfirmedInv
<1>3. ASSUME NEW c \in Promotions, rollbacks' = 0, pc'[c] = "done", latest'.config = c
      PROVE  Live'.config = c
  <2>1. rollbacks = 0
    BY <1>3, RollbacksCounted
  <2>2. CASE pc[c] # "done"
    BY <1>3, <2>1, <2>2, JustConfirmed DEF SerialInv, Live
  <2>3. CASE pc[c] = "done" /\ UNCHANGED alias
    <3>1. Live.config = c
      BY <1>1, <1>3, <2>1, <2>3 DEF SerialInv, ConfirmedConfigurationStays
    <3>2. Snapshot(versions'[alias.version]) = Snapshot(versions[alias.version])
      BY ServiceStep DEF Grown, VersionsKept, IInv, ServiceInv, Alias
    <3> QED
      BY <2>3, <3>1, <3>2 DEF Live, Snapshot
  <2>4. CASE pc[c] = "done" /\ alias' # alias
    <3>1. PICK j \in Invocations : pc[j] = "move_alias" /\ pc'[j] = "confirm"
      BY <1>3, <2>4, WhoMovesAlias
    <3>2. seen[j].latest.config = c
      BY <1>1, <1>3, <2>4, <3>1 DEF SerialInv, ConfirmedInv, Running
    <3> QED
      BY <3>1, <3>2, MovesTo DEF Snapshot
  <2> QED
    BY <2>2, <2>3, <2>4
<1> QED
  BY <1>2, <1>3 DEF ConfirmedInv, ConfirmedConfigurationStays

\* The configuration an apply was told is live stays live through every later
\* release, because the updater's reserved concurrency of 1 lets no invocation
\* carry an older reading of LATEST past it.
THEOREM ConfirmationsLast ==
  ASSUME Serialized
  PROVE  Spec => []ConfirmedConfigurationStays
<1>1. IInv /\ SerialInv /\ [Next]_vars => SerialInv'
  BY AloneStep, ConfirmedStep DEF SerialInv
<1>2. SerialInv => ConfirmedConfigurationStays
  BY DEF SerialInv
<1> QED
  BY Invariance, InitSerial, <1>1, <1>2, PTL DEF Spec

=============================================================================
