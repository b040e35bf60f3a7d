-------------------------- MODULE AutomationProofs --------------------------
(***************************************************************************)
(* Proofs about the components that run beside the requests: the bootstrap *)
(* cycle, the meta harness, the pareto loop and the trace store, for any   *)
(* number of cycles, edits, deployments, rounds and steps; and the lease,  *)
(* for any number of instances and any time to live, tolerance and bound   *)
(* on the read errors.  Both theorems about the lease are about steps: who *)
(* may be let through by guard_write, and when it may change hands.  They  *)
(* need what holds in the middle of an operation, while an instance holds  *)
(* the file lock or compares a deadline it read before.                    *)
(***************************************************************************)
EXTENDS Bootstrap, TraceStore, MetaHarness, ParetoLoop, Lease, RankProofs, TLAPS

-----------------------------------------------------------------------------
(* The bootstrap cycle *)

Trees == [RepoFile -> Nat]

BootstrapTyped ==
  /\ policyVersion \in Nat /\ repoEdits \in Nat
  /\ work \in Trees /\ index \in Trees /\ head \in Trees /\ remote \in Trees
  /\ quietCycle \in BOOLEAN

\* What is about to be staged passed its verification, unless it is gone.
StagedWasVerified ==
  cyclePc = "stage" => work["generated"] \in verifiedGen \cup {Missing}

\* From its generation on, the file of a quiet cycle is that of the policy.
QuietFixIsFresh ==
  cyclePc \in {"verify", "stage", "commit", "push"} /\ quietCycle =>
    work["generated"] = policyVersion

BootstrapInv ==
  /\ BootstrapTyped
  /\ OnlyVerifiedIsCommitted /\ StagedWasVerified
  /\ QuietFixIsFresh /\ QuietCycleLeavesFresh

LEMMA BootstrapInvInit == BootstrapInit => BootstrapInv
<1>1. ASSUME BootstrapInit PROVE BootstrapInv
  <2>1. /\ work = [f \in RepoFile |-> 1] /\ index = work /\ head = work /\ remote = work
        /\ policyVersion = 1 /\ quietCycle = TRUE /\ verifiedGen = {1} /\ cyclePc = "idle"
        /\ repoEdits = 0
    BY <1>1 DEF BootstrapInit
  <2>2. BootstrapTyped
    BY <2>1 DEF BootstrapTyped, Trees
  <2>3. work["generated"] = 1
    BY <2>1 DEF RepoFile
  <2> QED
    BY <2>1, <2>2, <2>3 DEF BootstrapInv, OnlyVerifiedIsCommitted, StagedWasVerified,
       QuietFixIsFresh, QuietCycleLeavesFresh
<1> QED
  BY <1>1

\* A step of the cycle or of the people around it keeps the trees typed.
LEMMA BootstrapTypedStep ==
  ASSUME BootstrapTyped, [BootstrapNext]_bootstrapVars
  PROVE  BootstrapTyped'
<1> USE DEF BootstrapTyped, Trees, repoVars
<1>1. CASE Sense
  BY <1>1 DEF Sense
<1>2. CASE GenerateFix
  BY <1>2 DEF GenerateFix
<1>3. CASE VerifyFix
  BY <1>3 DEF VerifyFix, FixFrame
<1>4. CASE Rollback
  BY <1>4 DEF Rollback, FixFrame
<1>5. CASE Stage
  BY <1>5 DEF Stage, FixFrame
<1>6. CASE Commit
  BY <1>6 DEF Commit
<1>7. CASE Push
  BY <1>7 DEF Push
<1>8. CASE CommandRaises
  BY <1>8 DEF CommandRaises, FixFrame
<1>9. CASE PersistCycle \/ PersistFailure \/ CycleDies \/ UNCHANGED bootstrapVars
  BY <1>9 DEF PersistCycle, PersistFailure, CycleDies, bootstrapVars
<1>10. CASE People
  <2>6. remote' = remote /\ repoEdits' \in Nat
    BY <1>10 DEF People
  <2>1. CASE policyVersion' \in {repoEdits' + 1, Missing} /\ quietCycle' = FALSE
             /\ UNCHANGED <<work, index, head, locked>>
    <3>1. policyVersion' \in Nat
      <4> DEFINE n == repoEdits'
      <4>1. n \in Nat
        BY <2>6
      <4> HIDE DEF n
      <4>2. n + 1 \in Nat
        BY <4>1
      <4>3. Missing \in Nat
        BY DEF Missing
      <4> QED
        BY <2>1, <4>2, <4>3 DEF n
    <3>2. quietCycle' \in BOOLEAN
      BY <2>1
    <3> QED
      BY <2>6, <2>1, <3>1, <3>2
  <2>2. CASE work' = [work EXCEPT !["generated"] = Missing] /\ quietCycle' = FALSE
             /\ UNCHANGED <<policyVersion, index, head, locked>>
    BY <2>6, <2>2 DEF Missing
  <2>3. CASE /\ work' = [work EXCEPT !["other"] = @ + 1]
             /\ index' \in {index, [index EXCEPT !["other"] = work'["other"]]}
             /\ UNCHANGED <<policyVersion, head, locked, quietCycle>>
    <3>1. work' \in [RepoFile -> Nat] /\ work'["other"] \in Nat
      BY <2>3 DEF RepoFile
    <3> QED
      BY <2>6, <2>3, <3>1
  <2>4. CASE head' = index /\ UNCHANGED <<policyVersion, work, index, locked, quietCycle>>
    BY <2>6, <2>4
  <2>5. CASE UNCHANGED <<policyVersion, work, index, head, quietCycle>>
    BY <2>6, <2>5
  <2> QED
    BY <1>10, <2>1, <2>2, <2>3, <2>4, <2>5 DEF People
<1> QED
  BY <1>1, <1>2, <1>3, <1>4, <1>5, <1>6, <1>7, <1>8, <1>9, <1>10 DEF BootstrapNext

\* What a step of the people does to the generated file and to the trees that
\* hold what was staged of it.
LEMMA PeopleLeaveGenerated ==
  ASSUME BootstrapTyped, People
  PROVE  /\ work'["generated"] \in {work["generated"], Missing}
         /\ index'["generated"] = index["generated"]
         /\ head'["generated"] \in {head["generated"], index["generated"]}
         /\ quietCycle' => /\ quietCycle /\ policyVersion' = policyVersion
                           /\ work'["generated"] = work["generated"]
         /\ UNCHANGED <<remote, cyclePc, cycleStatus, verifiedGen>>
<1> USE DEF BootstrapTyped, Trees, RepoFile
<1>1. CASE policyVersion' \in {repoEdits' + 1, Missing} /\ quietCycle' = FALSE
           /\ UNCHANGED <<work, index, head, locked>>
  BY <1>1 DEF People
<1>2. CASE work' = [work EXCEPT !["generated"] = Missing] /\ quietCycle' = FALSE
           /\ UNCHANGED <<policyVersion, index, head, locked>>
  BY <1>2 DEF People
<1>3. CASE /\ work' = [work EXCEPT !["other"] = @ + 1]
           /\ index' \in {index, [index EXCEPT !["other"] = work'["other"]]}
           /\ UNCHANGED <<policyVersion, head, locked, quietCycle>>
  BY <1>3 DEF People
<1>4. CASE head' = index /\ UNCHANGED <<policyVersion, work, index, locked, quietCycle>>
  BY <1>4 DEF People
<1>5. CASE UNCHANGED <<policyVersion, work, index, head, quietCycle>>
  BY <1>5 DEF People
<1> QED
  BY <1>1, <1>2, <1>3, <1>4, <1>5 DEF People

LEMMA CommittedStep ==
  ASSUME BootstrapTyped, OnlyVerifiedIsCommitted, StagedWasVerified,
         [BootstrapNext]_bootstrapVars
  PROVE  OnlyVerifiedIsCommitted' /\ StagedWasVerified'
<1> USE DEF OnlyVerifiedIsCommitted, StagedWasVerified, EndWith, repoVars
<1>1. CASE Sense
  BY <1>1 DEF Sense
<1>2. CASE GenerateFix
  BY <1>2 DEF GenerateFix
<1>3. CASE VerifyFix
  BY <1>3 DEF VerifyFix, FixFrame, FixGoto
<1>4. CASE Rollback
  BY <1>4 DEF Rollback, FixFrame
<1>5. CASE Stage
  <2>1. index'["generated"] \in {index["generated"], work["generated"]}
    BY <1>5 DEF Stage, BootstrapTyped, Trees, RepoFile
  <2>2. /\ cyclePc = "stage" /\ cyclePc' = "commit"
        /\ UNCHANGED <<work, head, remote, verifiedGen>>
    BY <1>5 DEF Stage, FixGoto, FixFrame
  <2> QED
    BY <2>1, <2>2
<1>6. CASE Commit
  BY <1>6 DEF Commit
<1>7. CASE Push
  BY <1>7 DEF Push
<1>8. CASE CommandRaises
  BY <1>8 DEF CommandRaises, FixFrame
<1>9. CASE PersistCycle \/ PersistFailure \/ CycleDies \/ UNCHANGED bootstrapVars
  BY <1>9 DEF PersistCycle, PersistFailure, CycleDies, bootstrapVars
<1>10. CASE People
  BY <1>10, PeopleLeaveGenerated
<1> QED
  BY <1>1, <1>2, <1>3, <1>4, <1>5, <1>6, <1>7, <1>8, <1>9, <1>10 DEF BootstrapNext

LEMMA QuietStep ==
  ASSUME BootstrapTyped, QuietFixIsFresh, QuietCycleLeavesFresh,
         [BootstrapNext]_bootstrapVars
  PROVE  QuietFixIsFresh' /\ QuietCycleLeavesFresh'
<1> USE DEF QuietFixIsFresh, QuietCycleLeavesFresh, EndWith, repoVars
<1>1. CASE Sense
  <2>1. PICK dryRun \in BOOLEAN, slowGit \in BOOLEAN :
          /\ quietCycle' = ~(dryRun /\ CodegenDrift)
          /\ IF SensorFails \/ slowGit THEN EndWith("FAILED") /\ cycleReview' = {}
             ELSE /\ cycleReview' = Diagnosed(CodegenDrift)
                  /\ IF CodegenDrift /\ ~dryRun
                     THEN cyclePc' = "generate" /\ cycleStatus' = "NOOP"
                     ELSE EndWith("NOOP")
    BY <1>1 DEF Sense
  <2>2. UNCHANGED <<work, policyVersion>>
    BY <1>1 DEF Sense
  <2>3. CodegenDrift \in BOOLEAN
    BY DEF CodegenDrift
  <2>4. CASE SensorFails \/ slowGit
    BY <2>1, <2>4
  <2>5. CASE ~(SensorFails \/ slowGit) /\ CodegenDrift /\ ~dryRun
    BY <2>1, <2>5
  <2>6. CASE ~(SensorFails \/ slowGit) /\ CodegenDrift /\ dryRun
    BY <2>1, <2>6
  <2>7. CASE ~(SensorFails \/ slowGit) /\ ~CodegenDrift
    <3>1. policyVersion \in {work["generated"], Missing}
      BY <2>7 DEF CodegenDrift
    <3> QED
      BY <2>1, <2>2, <2>7, <3>1
  <2> QED
    BY <2>3, <2>4, <2>5, <2>6, <2>7
<1>2. CASE GenerateFix
  BY <1>2 DEF GenerateFix, BootstrapTyped, Trees, RepoFile
<1>3. CASE VerifyFix
  BY <1>3 DEF VerifyFix, FixFrame, FixGoto
<1>4. CASE Rollback
  BY <1>4 DEF Rollback, FixFrame
<1>5. CASE Stage
  BY <1>5 DEF Stage, FixGoto, FixFrame
<1>6. CASE Commit
  BY <1>6 DEF Commit
<1>7. CASE Push
  BY <1>7 DEF Push
<1>8. CASE CommandRaises
  BY <1>8 DEF CommandRaises, FixFrame
<1>9. CASE PersistCycle \/ PersistFailure \/ CycleDies \/ UNCHANGED bootstrapVars
  BY <1>9 DEF PersistCycle, PersistFailure, CycleDies, bootstrapVars
<1>10. CASE People
  BY <1>10, PeopleLeaveGenerated
<1> QED
  BY <1>1, <1>2, <1>3, <1>4, <1>5, <1>6, <1>7, <1>8, <1>9, <1>10 DEF BootstrapNext

\* What the cycle keeps at each of its steps, whatever people do to the
\* repository meanwhile.
THEOREM BootstrapInvariant == BootstrapSpec => []BootstrapInv
<1>1. BootstrapInv /\ [BootstrapNext]_bootstrapVars => BootstrapInv'
  BY BootstrapTypedStep, CommittedStep, QuietStep DEF BootstrapInv
<1> QED
  BY <1>1, BootstrapInvInit, PTL DEF BootstrapSpec

\* commit_fix and push_fix: the index, HEAD and the remote never hold a
\* generated file that no verification passed.
THEOREM BootstrapCommitsVerified == BootstrapSpec => []OnlyVerifiedIsCommitted
<1>1. BootstrapInv => OnlyVerifiedIsCommitted
  BY DEF BootstrapInv
<1> QED
  BY <1>1, BootstrapInvariant, PTL

\* run_cycle: an undisturbed cycle that reports neither failure nor rollback
\* leaves the matchers of the current policy.
THEOREM BootstrapQuietCycle == BootstrapSpec => []QuietCycleLeavesFresh
<1>1. BootstrapInv => QuietCycleLeavesFresh
  BY DEF BootstrapInv
<1> QED
  BY <1>1, BootstrapInvariant, PTL

-----------------------------------------------------------------------------
(* The meta harness *)

HarnessTyped ==
  /\ second \in Nat
  /\ deployPc \in {"idle", "backup", "truncate", "write"}
  /\ lateEdit \in BOOLEAN /\ overlaid \in BOOLEAN

InBackup == \E s \in DOMAIN backups : backups[s] = lastWhole

\* The file is its last whole content, or torn; from the backup on, to the write
\* that ends the deployment or to its death, a backup has that content.
BackupInv ==
  /\ policies \in {lastWhole, TornFile}
  /\ ~lateEdit /\ ~overlaid =>
       /\ policies = lastWhole \/ InBackup
       /\ deployPc \in {"truncate", "write"} => InBackup

HarnessInv == HarnessTyped /\ BackupInv

LEMMA HarnessInvInit == HarnessInit => HarnessInv
<1>1. ASSUME HarnessInit PROVE HarnessInv
  <2>1. /\ second = 0 /\ deployPc = "idle" /\ lastWhole = policies
        /\ lateEdit = FALSE /\ overlaid = FALSE
    BY <1>1 DEF HarnessInit
  <2> QED
    BY <2>1 DEF HarnessInv, HarnessTyped, BackupInv
<1> QED
  BY <1>1

\* A backup of the whole file has its content; one of a torn file leaves the
\* others as they are, unless it is laid over one of the same second.
LEMMA BackUpKeeps ==
  ASSUME BackupInv, NEW content, BackUp(content), UNCHANGED <<policies, lastWhole, lateEdit>>,
         content \in {policies, TornFile},
         ~lateEdit', ~overlaid'
  PROVE  /\ policies' = lastWhole' \/ InBackup'
         /\ content = policies => InBackup'
<1>1. /\ DOMAIN backups' = DOMAIN backups \cup {second}
      /\ backups'[second] = content
      /\ \A s \in DOMAIN backups : s # second => backups'[s] = backups[s]
  BY DEF BackUp
<1>2. ~lateEdit /\ ~overlaid /\ (policies = TornFile => second \notin DOMAIN backups)
  BY DEF BackUp
<1>3. ASSUME policies = TornFile, InBackup PROVE InBackup'
  <2>1. PICK s \in DOMAIN backups : backups[s] = lastWhole
    BY <1>3 DEF InBackup
  <2> QED
    BY <1>1, <1>2, <1>3, <2>1 DEF InBackup
<1>4. ASSUME content = lastWhole PROVE InBackup'
  BY <1>1, <1>4 DEF InBackup
<1>5. CASE policies = lastWhole
  BY <1>4, <1>5
<1>6. CASE policies # lastWhole
  BY <1>2, <1>3, <1>6 DEF BackupInv
<1> QED
  BY <1>5, <1>6

LEMMA HarnessTypedStep ==
  ASSUME HarnessTyped, [HarnessNext]_harnessVars
  PROVE  HarnessTyped'
<1> USE DEF HarnessTyped
<1>1. CASE \E e \in Endpoint : Deny(e) \/ WindowPasses(e)
  BY <1>1 DEF Deny, WindowPasses
<1>2. CASE Scan \/ Propose \/ EvaluateCandidate
  BY <1>2 DEF Scan, Propose, EvaluateCandidate
<1>3. CASE DeployRead \/ DeployTruncate \/ DeployWrite
  BY <1>3 DEF DeployRead, DeployTruncate, DeployWrite
<1>4. CASE DeployBackup
  BY <1>4 DEF DeployBackup, BackUp
<1>5. CASE DeployDies
  BY <1>5 DEF DeployDies, BackUp
<1>6. CASE SecondPasses
  BY <1>6 DEF SecondPasses
<1>7. CASE EditPolicies \/ UNCHANGED harnessVars
  BY <1>7 DEF EditPolicies, harnessVars
<1> QED
  BY <1>1, <1>2, <1>3, <1>4, <1>5, <1>6, <1>7 DEF HarnessNext

LEMMA BackupStep ==
  ASSUME BackupInv, [HarnessNext]_harnessVars
  PROVE  BackupInv'
<1>1. CASE UNCHANGED <<policies, backups, deployPc, lastWhole, lateEdit, overlaid>>
  BY <1>1 DEF BackupInv, InBackup
<1>2. CASE DeployRead
  BY <1>2 DEF DeployRead, BackupInv, InBackup
<1>3. CASE DeployBackup
  <2>1. /\ BackUp(policies) /\ UNCHANGED <<policies, lastWhole, lateEdit>>
    BY <1>3 DEF DeployBackup
  <2>2. ~lateEdit' /\ ~overlaid' => InBackup'
    BY <2>1, BackUpKeeps
  <2> QED
    BY <2>1, <2>2 DEF BackupInv
<1>4. CASE DeployTruncate
  BY <1>4 DEF DeployTruncate, BackupInv, InBackup
<1>5. CASE DeployWrite
  BY <1>5 DEF DeployWrite, BackupInv, InBackup
<1>6. CASE DeployDies
  <2>1. UNCHANGED <<policies, lastWhole, lateEdit>> /\ deployPc' = "idle"
    BY <1>6 DEF DeployDies
  <2>2. CASE UNCHANGED <<backups, overlaid>>
    BY <2>1, <2>2 DEF BackupInv, InBackup
  <2>3. CASE BackUp(TornFile)
    <3>1. ~lateEdit' /\ ~overlaid' => policies' = lastWhole' \/ InBackup'
      BY <2>1, <2>3, BackUpKeeps
    <3> QED
      BY <2>1, <3>1 DEF BackupInv
  <2> QED
    BY <1>6, <2>2, <2>3 DEF DeployDies
<1>7. CASE SecondPasses
  BY <1>1, <1>7 DEF SecondPasses
<1>8. CASE EditPolicies
  BY <1>8 DEF EditPolicies, BackupInv, InBackup
<1>9. CASE \E e \in Endpoint : Deny(e) \/ WindowPasses(e)
  BY <1>1, <1>9 DEF Deny, WindowPasses
<1>10. CASE Scan \/ Propose \/ EvaluateCandidate \/ UNCHANGED harnessVars
  BY <1>1, <1>10 DEF Scan, Propose, EvaluateCandidate, harnessVars
<1> QED
  BY <1>2, <1>3, <1>4, <1>5, <1>6, <1>7, <1>8, <1>9, <1>10 DEF HarnessNext

\* What deployments, their deaths and other people's edits keep of the policy
\* file and its backups.
THEOREM HarnessInvariant == HarnessSpec => []HarnessInv
<1>1. HarnessInv /\ [HarnessNext]_harnessVars => HarnessInv'
  BY HarnessTypedStep, BackupStep DEF HarnessInv
<1> QED
  BY <1>1, HarnessInvInit, PTL DEF HarnessSpec

\* deploy_candidate with backup: the last whole content of the policy file is
\* the file or one of its backups, wherever deployments die, whenever they are
\* run again and whoever edits the file, unless an edit came after the backup
\* was read or a torn file was backed up over a backup of the same second.
THEOREM HarnessContentSurvives == HarnessSpec => []LastContentSurvives
<1>1. HarnessInv => LastContentSurvives
  BY DEF HarnessInv, BackupInv, InBackup, LastContentSurvives, Copies
<1> QED
  BY <1>1, HarnessInvariant, PTL

\* Rules that the engine loads, and a file of such, whole or torn.
Fine(rules) == IsRuleList(rules) /\ LoadsAll(rules)
FineFile(file) == IsRuleList(file) /\ LoadsAll(Rules(file))

\* What a verdict was given for still loads when it is deployed, into whatever
\* the file is by then.
FilesInv ==
  /\ FineFile(policies) /\ \A s \in DOMAIN backups : FineFile(backups[s])
  /\ \A c \in pending : IsRuleList(c)
  /\ \A c \in deployable : Fine(c)
  /\ Fine(deploying) /\ Fine(existing)

LEMMA FineLists ==
  /\ Fine(<<>>) /\ FineFile(TornFile)
  /\ \A rules : Fine(rules) => FineFile(rules)
  /\ \A file : FineFile(file) => Fine(Rules(file))
<1>1. Fine(<<>>)
  BY DEF Fine, IsRuleList, LoadsAll
<1>2. IsRuleList(TornFile)
  <2> DEFINE torn == TornFile[1]
  <2>1. TornFile = <<torn>>
    BY DEF TornFile
  <2> HIDE DEF torn
  <2>2. <<torn>> \in Seq({<<torn>>[i] : i \in DOMAIN <<torn>>})
    OBVIOUS
  <2> QED
    BY <2>1, <2>2 DEF IsRuleList
<1>3. FineFile(TornFile)
  BY <1>1, <1>2 DEF Fine, FineFile, Rules
<1>4. ASSUME NEW rules, Fine(rules) PROVE FineFile(rules)
  BY <1>1, <1>4 DEF Fine, FineFile, Rules
<1>5. ASSUME NEW file, FineFile(file) PROVE Fine(Rules(file))
  BY <1>1, <1>5 DEF Fine, FineFile, Rules
<1> QED
  BY <1>1, <1>3, <1>4, <1>5

\* _load_candidate and the merge: lists of rules put together.
LEMMA Joined ==
  ASSUME NEW a, NEW b, IsRuleList(a), IsRuleList(b)
  PROVE  /\ IsRuleList(a \o b)
         /\ LoadsAll(a \o b) <=> LoadsAll(a) /\ LoadsAll(b)
<1> DEFINE S == {a[i] : i \in DOMAIN a} \cup {b[i] : i \in DOMAIN b}
           j == a \o b
<1>1. a \in Seq(S) /\ b \in Seq(S)
  <2>1. \A i \in 1..Len(a) : a[i] \in S
    BY DEF IsRuleList
  <2>2. \A i \in 1..Len(b) : b[i] \in S
    BY DEF IsRuleList
  <2> QED
    BY <2>1, <2>2 DEF IsRuleList
<1> HIDE DEF S
<1>2. /\ j \in Seq(S) /\ Len(j) = Len(a) + Len(b)
      /\ \A i \in 1..Len(a) : j[i] = a[i]
      /\ \A i \in 1..Len(b) : j[Len(a) + i] = b[i]
      /\ \A i \in 1..Len(j) : i \in 1..Len(a) \/ i - Len(a) \in 1..Len(b)
      /\ \A i \in 1..Len(j) : j[i] = IF i <= Len(a) THEN a[i] ELSE b[i - Len(a)]
  BY <1>1
<1>3. Len(a) \in Nat /\ Len(b) \in Nat /\ DOMAIN a = 1..Len(a) /\ DOMAIN b = 1..Len(b) /\ DOMAIN j = 1..Len(j)
  BY <1>1, <1>2
<1> HIDE DEF j
<1>4. j \in Seq({j[i] : i \in DOMAIN j})
  BY <1>2, <1>3
<1>5. ASSUME LoadsAll(j) PROVE LoadsAll(a) /\ LoadsAll(b)
  <2>1. \A i \in 1..Len(a) : i \in 1..Len(j)
    BY <1>2, <1>3
  <2>2. \A i \in 1..Len(b) : Len(a) + i \in 1..Len(j)
    BY <1>2, <1>3
  <2> QED
    BY <1>2, <1>3, <1>5, <2>1, <2>2 DEF LoadsAll
<1>6. ASSUME LoadsAll(a), LoadsAll(b) PROVE LoadsAll(j)
  <2>1. ASSUME NEW i \in 1..Len(j) PROVE j[i].action # Bad
    <3>1. CASE i \in 1..Len(a)
      BY <1>2, <1>3, <1>6, <3>1 DEF LoadsAll
    <3>2. CASE i - Len(a) \in 1..Len(b)
      <4>1. j[i] = b[i - Len(a)]
        BY <1>2, <1>3, <3>2
      <4> QED
        BY <1>3, <1>6, <3>2, <4>1 DEF LoadsAll
    <3> QED
      BY <1>2, <3>1, <3>2
  <2> QED
    BY <1>3, <2>1 DEF LoadsAll
<1> QED
  BY <1>4, <1>5, <1>6 DEF j, IsRuleList

\* The merge: what is kept and what is added of lists that load.
LEMMA PickedIsFine ==
  ASSUME NEW list, Fine(list), NEW places \in SUBSET DOMAIN list
  PROVE  Fine(Picked(list, places))
<1> DEFINE R == {e \in places \X places : e[1] < e[2]}
           N == Cardinality(places)
           p == [n \in 1..N |-> list[AtRank(places, R, n)]]
<1>1. Len(list) \in Nat /\ DOMAIN list = 1..Len(list)
  BY DEF Fine, IsRuleList
<1>2. places \in SUBSET (1..Len(list)) /\ places \in SUBSET Int
  BY <1>1
<1>3. IsFiniteSet(places) /\ N \in Nat
  BY <1>1, <1>2, IntervalSize, FS_Subset, FS_CardinalityType
<1>4. \A x, y \in places : <<x, y>> \in R <=> x < y
  OBVIOUS
<1> HIDE DEF R, N
<1>5. /\ \A x \in places : <<x, x>> \notin R
      /\ \A x, y, z \in places : <<x, y>> \in R /\ <<y, z>> \in R => <<x, z>> \in R
      /\ \A x, y \in places : x # y => <<x, y>> \in R \/ <<y, x>> \in R
  BY <1>2, <1>4
<1>6. \A n \in 1..N : AtRank(places, R, n) \in places
  BY <1>3, <1>5, Ranking DEF N
<1>7. \A n \in 1..N : p[n].action # Bad
  BY <1>6 DEF Fine, LoadsAll
<1>8. DOMAIN p = 1..N
  OBVIOUS
<1> HIDE DEF p
<1>9. p \in [1..N -> {p[i] : i \in DOMAIN p}]
  BY <1>8 DEF p
<1>10. p \in Seq({p[i] : i \in DOMAIN p})
  BY <1>3, <1>9
<1>11. Fine(p)
  BY <1>7, <1>8, <1>10 DEF Fine, IsRuleList, LoadsAll
<1> QED
  BY <1>11 DEF p, Picked, R, N

LEMMA FilesStep ==
  ASSUME FilesInv, [HarnessNext]_harnessVars
  PROVE  FilesInv'
<1>1. CASE UNCHANGED <<policies, backups, pending, deployable, deploying, existing>>
  BY <1>1 DEF FilesInv
<1>2. CASE Scan
  <2>1. \A c \in Suggested : IsRuleList(c)
    <3>1. ASSUME NEW r PROVE <<r>> \in Seq({<<r>>[i] : i \in DOMAIN <<r>>})
      OBVIOUS
    <3> QED
      BY <3>1 DEF Suggested, IsRuleList
  <2> QED
    BY <1>2, <2>1 DEF Scan, FilesInv
<1>3. CASE Propose
  BY <1>3, HarnessAssumption DEF Propose, FilesInv
<1>4. CASE EvaluateCandidate
  <2>1. PICK c \in pending : Validates(c, policies) /\ deployable' = deployable \cup {c}
    BY <1>4 DEF EvaluateCandidate
  <2>2. LoadsAll(policies \o c) /\ IsRuleList(c) /\ IsRuleList(policies)
    BY <2>1 DEF Validates, FilesInv, FineFile
  <2>3. Fine(c)
    BY <2>2, Joined DEF Fine
  <2> QED
    BY <1>4, <2>1, <2>3 DEF EvaluateCandidate, FilesInv
<1>5. CASE DeployRead
  BY <1>5, FineLists DEF DeployRead, FilesInv
<1>6. ASSUME NEW content, FineFile(content), BackUp(content),
             UNCHANGED <<policies, pending, deployable, deploying, existing>>
      PROVE  FilesInv'
  <2>1. ASSUME NEW s \in DOMAIN backups' PROVE FineFile(backups'[s])
    BY <1>6 DEF BackUp, FilesInv
  <2> QED
    BY <1>6, <2>1 DEF FilesInv
<1>7. CASE DeployBackup
  BY <1>6, <1>7 DEF DeployBackup, FilesInv
<1>8. CASE DeployTruncate
  BY <1>8, FineLists DEF DeployTruncate, FilesInv
<1>9. CASE DeployWrite
  <2>1. Fine(Kept) /\ Fine(Added)
    <3>1. Stays \in SUBSET DOMAIN existing /\ Outlasts \in SUBSET DOMAIN deploying
      BY DEF Stays, Outlasts
    <3> QED
      BY <3>1, PickedIsFine DEF Kept, Added, FilesInv
  <2>2. Fine(Kept \o Added)
    BY <2>1, Joined DEF Fine
  <2> QED
    BY <1>9, <2>2, FineLists DEF DeployWrite, FilesInv
<1>10. CASE DeployDies
  <2>1. CASE UNCHANGED backups
    BY <1>1, <1>10, <2>1 DEF DeployDies
  <2>2. CASE BackUp(TornFile)
    BY <1>6, <1>10, <2>2, FineLists DEF DeployDies
  <2> QED
    BY <1>10, <2>1, <2>2 DEF DeployDies
<1>11. CASE EditPolicies
  <2>1. \A file \in BaseFile : FineFile(file)
    BY HarnessAssumption, FineLists DEF Fine
  <2> QED
    BY <1>11, <2>1 DEF EditPolicies, FilesInv
<1>12. CASE SecondPasses \/ UNCHANGED harnessVars
  BY <1>1, <1>12 DEF SecondPasses, harnessVars
<1>13. CASE \E e \in Endpoint : Deny(e) \/ WindowPasses(e)
  BY <1>1, <1>13 DEF Deny, WindowPasses
<1> QED
  BY <1>2, <1>3, <1>4, <1>5, <1>7, <1>8, <1>9, <1>10, <1>11, <1>12, <1>13 DEF HarnessNext

\* deploy_candidate, which merges without validating again: given people who write
\* loadable files, the engine loads every rule of what a deployment leaves, however
\* stale its verdict is and whichever rules replace each other.
THEOREM HarnessFileLoads == HarnessSpec => []DeployedFileLoads
<1>1. HarnessInit => FilesInv
  BY HarnessAssumption, FineLists DEF HarnessInit, FilesInv, Fine
<1>2. FilesInv /\ [HarnessNext]_harnessVars => FilesInv'
  BY FilesStep
<1>3. FilesInv => DeployedFileLoads
  BY DEF FilesInv, FineFile, DeployedFileLoads
<1> QED
  BY <1>1, <1>2, <1>3, PTL DEF HarnessSpec

-----------------------------------------------------------------------------
(* The pareto loop *)

LEMMA DominatesIrreflexive ==
  ASSUME NEW a \in Scores
  PROVE  ~Dominates(a, a)
<1>1. a.quality \in Int /\ a.cost \in Int
  BY ParetoAssumption DEF Scores
<1> QED
  BY <1>1 DEF Dominates

LEMMA DominatesTransitive ==
  ASSUME NEW a \in Scores, NEW b \in Scores, NEW c \in Scores,
         Dominates(a, b), Dominates(b, c)
  PROVE  Dominates(a, c)
<1>1. /\ a.quality \in Int /\ b.quality \in Int /\ c.quality \in Int
      /\ a.cost \in Int /\ b.cost \in Int /\ c.cost \in Int
  BY ParetoAssumption DEF Scores
<1> QED
  BY <1>1 DEF Dominates

\* The frontier holds scores that were given.
FrontierIsScored ==
  /\ scoredBy \subseteq Candidates \X Scores
  /\ \A p \in DOMAIN frontier : <<p, frontier[p]>> \in scoredBy

\* No point of the frontier beats another one.
Antichain == \A p, q \in DOMAIN frontier : ~Dominates(frontier[p], frontier[q])

\* What is not on the frontier is beaten by a point that is.
ScoredOnce == \A a, b \in scoredBy : a[1] = b[1] => a = b
OnFrontier(a) == a[1] \in DOMAIN frontier /\ frontier[a[1]] = a[2]
Beaten(a) == \E p \in DOMAIN frontier : Dominates(frontier[p], a[2])
FrontierCovers == ScoredOnce => \A a \in scoredBy : OnFrontier(a) \/ Beaten(a)

ParetoInv == FrontierIsScored /\ Antichain /\ FrontierCovers

\* An accepted point beats what it removes and is beaten by nothing that stays.
LEMMA InsertStep ==
  ASSUME ParetoInv, NEW id \in Candidates, NEW s \in Scores, Accepts(frontier, id, s),
         frontier' = Inserted(frontier, id, s), scoredBy' = scoredBy \cup {<<id, s>>}
  PROVE  ParetoInv'
<1> DEFINE kept == {p \in DOMAIN frontier : ~Dominates(s, frontier[p])}
<1>1. /\ DOMAIN frontier' = kept \cup {id}
      /\ frontier'[id] = s
      /\ \A p \in kept : p # id => frontier'[p] = frontier[p]
  BY DEF Inserted
<1>2. \A p \in kept : p \in DOMAIN frontier /\ ~Dominates(s, frontier[p])
  OBVIOUS
<1>3. \A p \in DOMAIN frontier : p \notin kept => Dominates(s, frontier[p])
  OBVIOUS
<1>4. \A p \in DOMAIN frontier : ~Dominates(frontier[p], s) /\ frontier[p] \in Scores
  BY DEF Accepts, ParetoInv, FrontierIsScored
<1> HIDE DEF kept
<1>5. FrontierIsScored'
  BY <1>1, <1>2 DEF ParetoInv, FrontierIsScored
<1>6. Antichain'
  <2> SUFFICES ASSUME NEW p \in kept \cup {id}, NEW q \in kept \cup {id}
               PROVE  ~Dominates(frontier'[p], frontier'[q])
    BY <1>1 DEF Antichain
  <2>1. CASE p = id /\ q = id
    BY <1>1, <2>1, DominatesIrreflexive
  <2>2. CASE p = id /\ q # id
    BY <1>1, <1>2, <2>2
  <2>3. CASE p # id /\ q = id
    BY <1>1, <1>2, <1>4, <2>3
  <2>4. CASE p # id /\ q # id
    BY <1>1, <1>2, <2>4 DEF ParetoInv, Antichain
  <2> QED
    BY <2>1, <2>2, <2>3, <2>4
<1>7. FrontierCovers'
  <2> SUFFICES ASSUME ScoredOnce', NEW a \in scoredBy'
               PROVE  OnFrontier(a)' \/ Beaten(a)'
    BY DEF FrontierCovers
  <2>1. <<id, s>> \in scoredBy' /\ ScoredOnce
    BY DEF ScoredOnce
  <2>2. CASE a = <<id, s>>
    BY <1>1, <2>2 DEF OnFrontier
  <2>3. CASE a \in scoredBy /\ a # <<id, s>>
    <3>1. a[1] # id /\ a[2] \in Scores
      BY <2>1, <2>3 DEF ScoredOnce, ParetoInv, FrontierIsScored
    <3>2. CASE OnFrontier(a)
      <4>1. a[1] \in DOMAIN frontier /\ frontier[a[1]] = a[2]
        BY <3>2 DEF OnFrontier
      <4>2. CASE a[1] \in kept
        BY <1>1, <3>1, <4>1, <4>2 DEF OnFrontier
      <4>3. CASE a[1] \notin kept
        BY <1>1, <1>3, <4>1, <4>3 DEF Beaten
      <4> QED
        BY <4>2, <4>3
    <3>3. CASE Beaten(a)
      <4>1. PICK p \in DOMAIN frontier : Dominates(frontier[p], a[2])
        BY <3>3 DEF Beaten
      <4>2. CASE p = id
        <5>1. <<p, frontier[p]>> \in scoredBy'
          BY <4>1 DEF ParetoInv, FrontierIsScored
        <5>2. frontier[p] = s
          BY <2>1, <4>2, <5>1 DEF ScoredOnce
        <5> QED
          BY <1>1, <4>1, <5>2 DEF Beaten
      <4>3. CASE p # id /\ p \in kept
        BY <1>1, <4>1, <4>3 DEF Beaten
      <4>4. CASE p \notin kept
        <5>1. Dominates(s, a[2])
          BY <1>3, <1>4, <3>1, <4>1, <4>4, DominatesTransitive
        <5> QED
          BY <1>1, <5>1 DEF Beaten
      <4> QED
        BY <4>2, <4>3, <4>4
    <3> QED
      BY <2>1, <2>3, <3>2, <3>3 DEF ParetoInv, FrontierCovers
  <2> QED
    BY <2>2, <2>3
<1> QED
  BY <1>5, <1>6, <1>7 DEF ParetoInv

\* A point the frontier refuses is on it already or beaten by it.
LEMMA RefuseStep ==
  ASSUME ParetoInv, NEW id \in Candidates, NEW s \in Scores, ~Accepts(frontier, id, s),
         frontier' = frontier, scoredBy' = scoredBy \cup {<<id, s>>}
  PROVE  ParetoInv'
<1>1. FrontierIsScored' /\ Antichain'
  BY DEF ParetoInv, FrontierIsScored, Antichain
<1>2. ASSUME ScoredOnce', NEW a \in scoredBy' PROVE OnFrontier(a)' \/ Beaten(a)'
  <2>1. ScoredOnce
    BY <1>2 DEF ScoredOnce
  <2>2. CASE a \in scoredBy
    BY <2>1, <2>2 DEF ParetoInv, FrontierCovers, OnFrontier, Beaten
  <2>3. CASE a = <<id, s>>
    BY <2>3 DEF Accepts, OnFrontier, Beaten
  <2> QED
    BY <1>2, <2>2, <2>3
<1> QED
  BY <1>1, <1>2 DEF ParetoInv, FrontierCovers

LEMMA ParetoInvInit == ParetoInit => ParetoInv
<1>1. ASSUME ParetoInit PROVE ParetoInv
  <2>1. scoredBy = {} /\ DOMAIN frontier = {}
    BY <1>1 DEF ParetoInit
  <2> QED
    BY <2>1 DEF ParetoInv, FrontierIsScored, Antichain, FrontierCovers
<1> QED
  BY <1>1

LEMMA ParetoInvStep == ParetoInv /\ [ParetoNext]_paretoVars => ParetoInv'
<1> SUFFICES ASSUME ParetoInv, [ParetoNext]_paretoVars PROVE ParetoInv'
  OBVIOUS
<1>1. CASE UNCHANGED <<frontier, scoredBy>>
  BY <1>1 DEF ParetoInv, FrontierIsScored, Antichain, FrontierCovers, ScoredOnce, OnFrontier,
     Beaten
<1>2. CASE Judge
  <2>1. PICK id \in Candidates, s \in Scores :
          /\ frontier' = IF Accepts(frontier, id, s) THEN Inserted(frontier, id, s) ELSE frontier
          /\ scoredBy' = scoredBy \cup {<<id, s>>}
    BY <1>2 DEF Judge
  <2> QED
    BY <2>1, InsertStep, RefuseStep
<1>3. CASE NoCandidate \/ ScoringFails \/ ProposerRaises \/ RunAgain \/ UNCHANGED paretoVars
  BY <1>1, <1>3 DEF NoCandidate, ScoringFails, ProposerRaises, RunAgain, paretoVars
<1> QED
  BY <1>2, <1>3 DEF ParetoNext

\* The three parts of the invariant make the frontier the Pareto set.
LEMMA ParetoInvIsParetoSet == ParetoInv => FrontierIsParetoSet
<1> SUFFICES ASSUME ParetoInv, ScoredOnce
             PROVE  {<<id, frontier[id]>> : id \in DOMAIN frontier}
                      = {a \in scoredBy : \A b \in scoredBy : ~Dominates(b[2], a[2])}
  BY DEF FrontierIsParetoSet, ScoredOnce
<1>1. ASSUME NEW p \in DOMAIN frontier, NEW b \in scoredBy PROVE ~Dominates(b[2], frontier[p])
  <2>1. frontier[p] \in Scores /\ b[2] \in Scores
    BY DEF ParetoInv, FrontierIsScored
  <2>2. CASE OnFrontier(b)
    BY <2>2 DEF OnFrontier, ParetoInv, Antichain
  <2>3. CASE Beaten(b)
    <3>1. PICK q \in DOMAIN frontier : Dominates(frontier[q], b[2])
      BY <2>3 DEF Beaten
    <3>2. frontier[q] \in Scores /\ ~Dominates(frontier[q], frontier[p])
      BY DEF ParetoInv, FrontierIsScored, Antichain
    <3> QED
      BY <2>1, <3>1, <3>2, DominatesTransitive
  <2> QED
    BY <2>2, <2>3 DEF ParetoInv, FrontierCovers
<1>2. ASSUME NEW a \in scoredBy, \A b \in scoredBy : ~Dominates(b[2], a[2])
      PROVE  a \in {<<id, frontier[id]>> : id \in DOMAIN frontier}
  <2>1. ~Beaten(a)
    BY <1>2 DEF Beaten, ParetoInv, FrontierIsScored
  <2>2. a[1] \in DOMAIN frontier /\ frontier[a[1]] = a[2]
    BY <2>1 DEF ParetoInv, FrontierCovers, OnFrontier
  <2>3. a = <<a[1], a[2]>>
    BY DEF ParetoInv, FrontierIsScored
  <2> QED
    BY <2>2, <2>3
<1>3. ASSUME NEW p \in DOMAIN frontier
      PROVE  <<p, frontier[p]>> \in {a \in scoredBy : \A b \in scoredBy : ~Dominates(b[2], a[2])}
  BY <1>1 DEF ParetoInv, FrontierIsScored
<1> QED
  BY <1>2, <1>3

\* insert, round after round and run after run.
THEOREM ParetoInvariant == ParetoSpec => []ParetoInv
BY ParetoInvInit, ParetoInvStep, PTL DEF ParetoSpec

\* ParetoFrontier.insert against its docstring: the points kept step by step are
\* the non-dominated ones of all that was scored, in whatever order it came.
THEOREM ParetoFrontier == ParetoSpec => []FrontierIsParetoSet
BY ParetoInvariant, ParetoInvIsParetoSet, PTL

-----------------------------------------------------------------------------
(* The trace store *)

\* A step recorded by fail(), written or about to be, has left the mark.
FailIsMarked ==
  tracePc = "failstep" \/ (\E f \in DOMAIN stepFiles : stepFiles[f].status = "failed") =>
    forcedStatus = "failed"

\* A trace is ok in memory only unmarked, and once its with block is left.
OkIsUnmarked ==
  memStatus = "ok" =>
    forcedStatus # "failed" /\ tracePc \in {"finalize", "finalizing", "done", "dead"}

\* The manifest does not run ahead of the memory.
ManifestFollows == manifest.status = "ok" => memStatus = "ok"

MarkInv == FailIsMarked /\ OkIsUnmarked /\ ManifestFollows

\* What the three writers of the manifest do to the control state.
LEMMA RewriteTable ==
  /\ DOMAIN Rewrite = {"create", "refresh", "finalize"}
  /\ Rewrite["create"] = "body" /\ Rewrite["refresh"] = "body" /\ Rewrite["finalize"] = "done"
  /\ Writing["create"] = "creating" /\ Writing["refresh"] = "refreshing"
  /\ Writing["finalize"] = "finalizing"
BY DEF Rewrite, Writing

LEMMA MarkInvInit == TraceInit => MarkInv
<1>1. ASSUME TraceInit PROVE MarkInv
  <2>1. /\ DOMAIN stepFiles = {} /\ tracePc = "create" /\ memStatus = "running"
        /\ manifest.status = "none"
    BY <1>1 DEF TraceInit, NoManifest
  <2> QED
    BY <2>1 DEF MarkInv, FailIsMarked, OkIsUnmarked, ManifestFollows
<1> QED
  BY <1>1

\* Opening the file of a step makes no step failed.
LEMMA AppendMark ==
  ASSUME MarkInv, AppendStep
  PROVE  MarkInv'
<1> DEFINE file == StepFile(Len(memSteps'))
<1>1. /\ stepFiles' = [f \in DOMAIN stepFiles \cup {file} |->
                         IF f = file THEN Torn ELSE stepFiles[f]]
      /\ tracePc = "body" /\ UNCHANGED <<memStatus, manifest>>
      /\ \/ tracePc' = "step" /\ forcedStatus' = forcedStatus
         \/ tracePc' = "failstep" /\ forcedStatus' = "failed"
  BY DEF AppendStep, TraceGoto
<1> HIDE DEF file
<1>2. Torn.status = "torn"
  BY DEF Torn
<1>3. \A f \in DOMAIN stepFiles' :
        stepFiles'[f].status = "failed" =>
          f \in DOMAIN stepFiles /\ stepFiles[f].status = "failed"
  BY <1>1, <1>2
<1>4. FailIsMarked'
  BY <1>1, <1>3 DEF MarkInv, FailIsMarked
<1>5. OkIsUnmarked' /\ ManifestFollows'
  BY <1>1 DEF MarkInv, OkIsUnmarked, ManifestFollows
<1> QED
  BY <1>4, <1>5 DEF MarkInv

\* Writing it makes failed only the step whose mark was left.
LEMMA StepWriteMark ==
  ASSUME MarkInv, StepWrite
  PROVE  MarkInv'
<1> DEFINE file == StepFile(Len(memSteps))
           written == [step |-> Len(memSteps),
                       status |-> IF tracePc = "step" THEN "ok" ELSE "failed"]
<1>1. /\ stepFiles' = [stepFiles EXCEPT ![file] = written]
      /\ tracePc \in {"step", "failstep"} /\ tracePc' = "refresh"
      /\ UNCHANGED <<memStatus, forcedStatus, manifest>>
  BY DEF StepWrite, TraceGoto
<1>2. written.status = "failed" => tracePc # "step"
  OBVIOUS
<1> HIDE DEF file, written
<1>3. \A f \in DOMAIN stepFiles' :
        stepFiles'[f].status = "failed" =>
          \/ f \in DOMAIN stepFiles /\ stepFiles[f].status = "failed"
          \/ tracePc = "failstep"
  BY <1>1, <1>2
<1>4. FailIsMarked'
  BY <1>1, <1>3 DEF MarkInv, FailIsMarked
<1>5. OkIsUnmarked' /\ ManifestFollows'
  BY <1>1 DEF MarkInv, OkIsUnmarked, ManifestFollows
<1> QED
  BY <1>4, <1>5 DEF MarkInv

LEMMA MarkInvStep == MarkInv /\ [TraceNext]_traceVars => MarkInv'
<1> SUFFICES ASSUME MarkInv, [TraceNext]_traceVars PROVE MarkInv'
  OBVIOUS
<1> USE DEF MarkInv, FailIsMarked, OkIsUnmarked, ManifestFollows, TraceGoto
<1>1. CASE ManifestTruncate
  <2>1. PICK op \in DOMAIN Rewrite :
          /\ tracePc = op /\ tracePc' = Writing[op] /\ manifest' = TornManifest
          /\ UNCHANGED <<memStatus, forcedStatus, stepFiles>>
    BY <1>1 DEF ManifestTruncate
  <2>2. manifest'.status = "torn"
    BY <2>1 DEF TornManifest
  <2> QED
    BY <2>1, <2>2, RewriteTable
<1>2. CASE ManifestWrite
  <2>1. PICK op \in DOMAIN Rewrite :
          /\ tracePc = Writing[op] /\ tracePc' = Rewrite[op]
          /\ manifest' = [status |-> memStatus, steps |-> Len(memSteps)]
          /\ UNCHANGED <<memStatus, forcedStatus, stepFiles>>
    BY <1>2 DEF ManifestWrite
  <2>2. manifest'.status = memStatus
    BY <2>1
  <2> QED
    BY <2>1, <2>2, RewriteTable
<1>3. CASE AddArtifact
  BY <1>3 DEF AddArtifact
<1>4. CASE AppendStep
  BY <1>4, AppendMark
<1>5. CASE StepWrite
  BY <1>5, StepWriteMark
<1>6. CASE Leave
  BY <1>6 DEF Leave
<1>7. CASE DiskRefuses
  BY <1>7, RewriteTable DEF DiskRefuses
<1>8. CASE RecorderDies \/ UNCHANGED traceVars
  BY <1>8 DEF RecorderDies, traceVars
<1> QED
  BY <1>1, <1>2, <1>3, <1>4, <1>5, <1>6, <1>7, <1>8 DEF TraceNext

\* fail(), __exit__ and finalize: how the mark of a failed step travels.
THEOREM TraceInvariant == TraceSpec => []MarkInv
BY MarkInvInit, MarkInvStep, PTL DEF TraceSpec

\* TraceCapture.fail: a trace whose manifest says ok holds no failed step, for
\* any number of steps, wherever the disk refuses or the recorder dies.
THEOREM TraceFailedIsNotOk == TraceSpec => []FailedTraceIsNotOk
<1>1. MarkInv => FailedTraceIsNotOk
  BY DEF MarkInv, FailIsMarked, OkIsUnmarked, ManifestFollows, FailedTraceIsNotOk
<1> QED
  BY <1>1, TraceInvariant, PTL

\* What load returns: the numbers of the steps and how their files are named.

\* The powers of the base are what their definition says.
LEMMA PowerIs ==
  Power = [k \in Nat |-> IF k = 0 THEN 1 ELSE Radix * Power[k - 1]]
<1> DEFINE Next(n, last) == IF n = 0 THEN 1 ELSE Radix * last
           Fits(m, g) == g = [n \in 0..m |-> Next(n, g[n - 1])]
           table(m) == CHOOSE g : Fits(m, g)
           power == [k \in Nat |-> table(k)[k]]
<1>1. \A from, to : Next(0, from) = Next(0, to)
  OBVIOUS
<1> HIDE DEF Next
<1>2. ASSUME NEW m \in Nat
      PROVE  \E g : Fits(m, g)
  <2> DEFINE S == {l \in 0..m : \E g : Fits(l, g)}
  <2>1. 0 \in S
    <3> DEFINE g == [n \in 0..0 |-> Next(0, {})]
    <3>1. g = [n \in 0..0 |-> Next(n, g[n - 1])]
      BY <1>1
    <3> QED
      BY <3>1
  <2>2. ASSUME NEW l \in 0..(m - 1), l \in S
        PROVE  l + 1 \in S
    <3>1. PICK g : g = [n \in 0..l |-> Next(n, g[n - 1])]
      BY <2>2
    <3> DEFINE h == [n \in 0..(l + 1) |-> IF n <= l THEN g[n] ELSE Next(n, g[l])]
    <3>2. \A n \in 0..(l + 1) : h[n] = Next(n, h[n - 1])
      <4> SUFFICES ASSUME NEW n \in 0..(l + 1) PROVE h[n] = Next(n, h[n - 1])
        OBVIOUS
      <4>1. CASE n = 0
        <5>1. h[0] = g[0] /\ g[0] = Next(0, g[0 - 1])
          BY <3>1
        <5> QED
          BY <1>1, <4>1, <5>1
      <4>2. CASE n \in 1..l
        <5>1. h[n] = g[n] /\ h[n - 1] = g[n - 1]
          BY <4>2
        <5>2. g[n] = Next(n, g[n - 1])
          BY <3>1, <4>2
        <5> QED
          BY <5>1, <5>2
      <4>3. CASE n = l + 1
        <5>1. h[n] = Next(n, g[l]) /\ h[l] = g[l]
          BY <4>3
        <5> QED
          BY <4>3, <5>1
      <4> QED
        BY <4>1, <4>2, <4>3
    <3>3. h = [n \in 0..(l + 1) |-> Next(n, h[n - 1])]
      BY <3>2
    <3> HIDE DEF h
    <3>4. Fits(l + 1, h) /\ l + 1 \in 0..m
      BY <3>3
    <3> HIDE DEF Fits
    <3> QED
      BY <3>4
  <2>3. m \in 0..m
    OBVIOUS
  <2> HIDE DEF S
  <2>4. 0..m \subseteq S
    BY <2>1, <2>2, CountingUp
  <2> QED
    BY <2>3, <2>4 DEF S
<1>3. ASSUME NEW m \in Nat
      PROVE  \A n \in 0..m : table(m)[n] = Next(n, table(m)[n - 1])
  <2> DEFINE g == table(m)
  <2>1. Fits(m, g)
    BY <1>2
  <2> HIDE DEF g
  <2>2. g = [n \in 0..m |-> Next(n, g[n - 1])]
    BY <2>1
  <2>3. \A n \in 0..m : g[n] = Next(n, g[n - 1])
    BY <2>2
  <2> QED
    BY <2>3 DEF g
<1> HIDE DEF table
<1>4. ASSUME NEW m \in Nat
      PROVE  table(m)[m] = table(m + 1)[m]
  <2> DEFINE S == {n \in 0..m : table(m)[n] = table(m + 1)[n]}
             a == table(m)
             b == table(m + 1)
  <2>1. /\ \A n \in 0..m : a[n] = Next(n, a[n - 1])
        /\ \A n \in 0..(m + 1) : b[n] = Next(n, b[n - 1])
    BY <1>3
  <2> HIDE DEF a, b
  <2>2. \A n \in 0..m : a[n] = Next(n, a[n - 1]) /\ b[n] = Next(n, b[n - 1])
    BY <2>1
  <2>3. a[0] = b[0]
    BY <1>1, <2>2
  <2>4. \A n \in 0..(m - 1) : a[n] = b[n] => a[n + 1] = b[n + 1]
    <3> SUFFICES ASSUME NEW n \in 0..(m - 1), a[n] = b[n] PROVE a[n + 1] = b[n + 1]
      OBVIOUS
    <3>1. n + 1 \in 0..m /\ (n + 1) - 1 = n
      OBVIOUS
    <3>2. a[n + 1] = Next(n + 1, a[n]) /\ b[n + 1] = Next(n + 1, b[n])
      BY <2>2, <3>1
    <3> QED
      BY <3>2
  <2>5. S = {n \in 0..m : a[n] = b[n]}
    BY DEF a, b
  <2>6. 0 \in S /\ \A n \in 0..(m - 1) : n \in S => n + 1 \in S
    BY <2>3, <2>4, <2>5
  <2> HIDE DEF S
  <2>7. 0..m \subseteq S
    BY <2>6, CountingUp
  <2>8. m \in 0..m
    OBVIOUS
  <2> QED
    BY <2>7, <2>8 DEF S
<1>5. \A k \in Nat : power[k] = Next(k, power[k - 1])
  <2> SUFFICES ASSUME NEW k \in Nat PROVE power[k] = Next(k, power[k - 1])
    OBVIOUS
  <2>1. power[k] = Next(k, table(k)[k - 1])
    BY <1>3
  <2>2. CASE k = 0
    BY <1>1, <2>1, <2>2
  <2>3. CASE k # 0
    <3>1. k - 1 \in Nat /\ (k - 1) + 1 = k
      BY <2>3
    <3>2. power[k - 1] = table(k)[k - 1]
      BY <1>4, <3>1
    <3> QED
      BY <2>1, <3>2
  <2> QED
    BY <2>2, <2>3
<1>6. power = [k \in Nat |-> Next(k, power[k - 1])]
  BY <1>5
<1> HIDE DEF power
<1>7. \E g : g = [k \in Nat |-> Next(k, g[k - 1])]
  BY <1>6
<1> QED
  BY <1>7, Zenon DEF Power, Next

\* Each is the base times the one before.
LEMMA PowerGrows ==
  /\ Power[0] = 1
  /\ \A k \in Nat : Power[k + 1] = Radix * Power[k]
<1> DEFINE p == Power
<1>1. p = [k \in Nat |-> IF k = 0 THEN 1 ELSE Radix * p[k - 1]]
  BY PowerIs
<1> HIDE DEF p
<1>2. p[0] = 1
  BY <1>1
<1>3. ASSUME NEW k \in Nat PROVE p[k + 1] = Radix * p[k]
  <2>1. k + 1 \in Nat /\ k + 1 # 0 /\ (k + 1) - 1 = k
    OBVIOUS
  <2>2. p[k + 1] = Radix * p[(k + 1) - 1]
    BY <1>1, <2>1
  <2> QED
    BY <2>1, <2>2
<1> QED
  BY <1>2, <1>3 DEF p

\* They are positive numbers.
LEMMA PowerPositive ==
  ASSUME NEW m \in Nat
  PROVE  Power[m] \in Nat \ {0}
<1> DEFINE p == Power
           S == {k \in 0..m : p[k] \in Nat \ {0}}
<1>1. Radix \in Nat \ {0}
  BY TraceAssumption
<1>2. p[0] = 1 /\ \A k \in Nat : p[k + 1] = Radix * p[k]
  BY PowerGrows
<1> HIDE DEF p
<1>3. 0 \in S
  BY <1>2
<1>4. ASSUME NEW k \in 0..(m - 1), k \in S
      PROVE  k + 1 \in S
  <2> DEFINE q == p[k]
  <2>1. q \in Nat \ {0} /\ p[k + 1] = Radix * q
    BY <1>2, <1>4
  <2> HIDE DEF q
  <2>2. Radix * q \in Nat \ {0}
    BY <1>1, <2>1
  <2> QED
    BY <2>1, <2>2
<1> HIDE DEF S
<1>5. 0..m \subseteq S
  BY <1>3, <1>4, CountingUp
<1>6. m \in 0..m
  OBVIOUS
<1> QED
  BY <1>5, <1>6 DEF S, p

\* The numbers that StepDigits digits can tell.
Fitting == {n \in Nat : n < Power[StepDigits]}

\* The digit of a number at a place, counted from the left.
DigitOf(n, i) == (n \div Power[StepDigits - i]) % Radix

\* The file of a number that fits has all its digits and no more.
LEMMA StepFileIs ==
  ASSUME NEW n \in Fitting
  PROVE  StepFile(n) = [i \in 1..(StepDigits + 1) |->
                          IF i <= StepDigits THEN DigitOf(n, i) ELSE Underscore]
<1> DEFINE W == {v \in StepDigits..(StepDigits + n) : n < Power[v]}
           width == Min(W)
<1>1. StepDigits \in Nat /\ n \in Nat /\ StepDigits \in W
  BY TraceAssumption DEF Fitting
<1>2. W \in SUBSET Nat /\ \A v \in W : StepDigits <= v
  BY <1>1
<1>3. IsFiniteSet(W)
  <2>1. IsFiniteSet(StepDigits..(StepDigits + n))
    BY <1>1, FS_Interval
  <2>2. W \in SUBSET (StepDigits..(StepDigits + n))
    OBVIOUS
  <2> HIDE DEF W
  <2> QED
    BY <2>1, <2>2, FS_Subset
<1>4. width = StepDigits
  <2> HIDE DEF W
  <2>1. Min(W) \in W /\ \A v \in W : Min(W) <= v
    BY <1>1, <1>2, <1>3, LeastIndex
  <2>2. width \in W /\ width <= StepDigits
    BY <1>1, <2>1
  <2> HIDE DEF width
  <2> QED
    BY <1>1, <1>2, <2>2
<1>5. StepFile(n) = [i \in 1..(width + 1) |->
                       IF i <= width THEN (n \div Power[width - i]) % Radix ELSE Underscore]
  BY DEF StepFile, FileName
<1> HIDE DEF width
<1> QED
  BY <1>4, <1>5 DEF DigitOf

\* What is left of a number when its last digits are taken away one by one.
FrontOf(n, i) == n \div Power[StepDigits - i]

\* The digits build the number up again.
LEMMA Fronts ==
  ASSUME NEW n \in Fitting
  PROVE  /\ FrontOf(n, 0) = 0
         /\ FrontOf(n, StepDigits) = n
         /\ \A i \in 0..StepDigits : FrontOf(n, i) \in Nat
         /\ \A i \in 1..StepDigits :
              /\ FrontOf(n, i) = Radix * FrontOf(n, i - 1) + DigitOf(n, i)
              /\ DigitOf(n, i) = FrontOf(n, i) % Radix
              /\ DigitOf(n, i) \in 0..(Radix - 1)
<1>1. StepDigits \in Nat /\ Radix \in Nat \ {0} /\ n \in Nat
  BY TraceAssumption DEF Fitting
<1>2. FrontOf(n, 0) = 0
  <2> DEFINE b == Power[StepDigits]
  <2>1. b \in Nat \ {0} /\ n < b
    BY <1>1, PowerPositive DEF Fitting
  <2> HIDE DEF b
  <2>2. n \div b = 0
    BY <1>1, <2>1, DividingSmall
  <2>3. StepDigits - 0 = StepDigits
    BY <1>1
  <2> QED
    BY <2>2, <2>3 DEF b, FrontOf
<1>3. FrontOf(n, StepDigits) = n
  <2>1. StepDigits - StepDigits = 0
    BY <1>1
  <2>2. Power[0] = 1
    BY PowerGrows
  <2>3. n \div 1 = n
    BY <1>1
  <2> QED
    BY <2>1, <2>2, <2>3 DEF FrontOf
<1>4. ASSUME NEW i \in 0..StepDigits
      PROVE  FrontOf(n, i) \in Nat
  <2> DEFINE b == Power[StepDigits - i]
  <2>1. StepDigits - i \in Nat
    BY <1>1
  <2>2. b \in Nat \ {0}
    BY <2>1, PowerPositive
  <2> HIDE DEF b
  <2>3. n \div b \in Nat
    BY <1>1, <2>2, Dividing
  <2> QED
    BY <2>3 DEF b, FrontOf
<1>5. ASSUME NEW i \in 1..StepDigits
      PROVE  /\ FrontOf(n, i) = Radix * FrontOf(n, i - 1) + DigitOf(n, i)
             /\ DigitOf(n, i) = FrontOf(n, i) % Radix
             /\ DigitOf(n, i) \in 0..(Radix - 1)
  <2> DEFINE b == Power[StepDigits - i]
             c == Power[StepDigits - (i - 1)]
  <2>1. StepDigits - i \in Nat /\ StepDigits - (i - 1) = (StepDigits - i) + 1
    BY <1>1
  <2>2. b \in Nat \ {0} /\ c = Radix * b
    BY <2>1, PowerPositive, PowerGrows
  <2>3. FrontOf(n, i) = n \div b /\ FrontOf(n, i - 1) = n \div c /\ DigitOf(n, i) = (n \div b) % Radix
    BY DEF FrontOf, DigitOf
  <2> HIDE DEF b, c
  <2>4. n \div b = Radix * (n \div (Radix * b)) + ((n \div b) % Radix)
    BY <1>1, <2>2, DividingTwice
  <2>5. n \div b \in Nat
    BY <1>1, <2>2, Dividing
  <2>6. (n \div b) % Radix \in 0..(Radix - 1)
    <3> DEFINE q == n \div b
    <3> HIDE DEF q
    <3>1. q \in Nat
      BY <2>5 DEF q
    <3>2. q % Radix \in 0..(Radix - 1)
      BY <1>1, <3>1, Dividing
    <3> QED
      BY <3>2 DEF q
  <2>7. n \div b = Radix * (n \div c) + ((n \div b) % Radix)
    BY <2>2, <2>4
  <2> QED
    BY <2>3, <2>6, <2>7
<1> QED
  BY <1>2, <1>3, <1>4, <1>5

\* The larger of two numbers that fit has the larger digit where their digits
\* first differ.
LEMMA FirstDifference ==
  ASSUME NEW m \in Fitting, NEW n \in Fitting, m < n
  PROVE  \E i \in 1..StepDigits :
           /\ DigitOf(m, i) < DigitOf(n, i)
           /\ \A j \in 1..(i - 1) : DigitOf(m, j) = DigitOf(n, j)
<1> DEFINE D == {i \in 1..StepDigits : FrontOf(m, i) # FrontOf(n, i)}
           i == Min(D)
<1>1. StepDigits \in Nat \ {0} /\ Radix \in Nat \ {0} /\ m \in Nat /\ n \in Nat
  BY TraceAssumption DEF Fitting
<1>2. StepDigits \in D
  <2>1. FrontOf(m, StepDigits) = m /\ FrontOf(n, StepDigits) = n
    BY Fronts
  <2> QED
    BY <1>1, <2>1
<1>3. IsFiniteSet(D)
  <2>1. D \in SUBSET (1..StepDigits)
    OBVIOUS
  <2> HIDE DEF D
  <2> QED
    BY <1>1, <2>1, IntervalSize, FS_Subset
<1>4. D \in SUBSET Nat
  BY <1>1
<1>5. i \in D /\ \A j \in D : i <= j
  <2> HIDE DEF D
  <2>1. Min(D) \in D /\ \A j \in D : Min(D) <= j
    BY <1>2, <1>3, <1>4, LeastIndex
  <2> QED
    BY <2>1
<1> HIDE DEF i
<1>6. i \in 1..StepDigits /\ FrontOf(m, i) # FrontOf(n, i) /\ i - 1 \in 0..StepDigits
  BY <1>1, <1>5
<1>7. \A j \in 0..(i - 1) : FrontOf(m, j) = FrontOf(n, j)
  <2> SUFFICES ASSUME NEW j \in 0..(i - 1) PROVE FrontOf(m, j) = FrontOf(n, j)
    OBVIOUS
  <2>1. CASE j = 0
    BY <2>1, Fronts
  <2>2. CASE j # 0
    <3>1. j \in 1..StepDigits /\ ~(i <= j)
      BY <1>1, <1>6, <2>2
    <3> QED
      BY <1>5, <3>1
  <2> QED
    BY <2>1, <2>2
<1>8. \A j \in 1..(i - 1) : DigitOf(m, j) = DigitOf(n, j)
  <2> SUFFICES ASSUME NEW j \in 1..(i - 1) PROVE DigitOf(m, j) = DigitOf(n, j)
    OBVIOUS
  <2>1. j \in 1..StepDigits /\ j \in 0..(i - 1)
    BY <1>1, <1>6
  <2>2. DigitOf(m, j) = FrontOf(m, j) % Radix /\ DigitOf(n, j) = FrontOf(n, j) % Radix
    BY <2>1, Fronts
  <2> QED
    BY <1>7, <2>1, <2>2
<1>9. DigitOf(m, i) < DigitOf(n, i)
  <2> DEFINE q == Radix * FrontOf(m, i - 1)
             d == DigitOf(m, i)
             e == DigitOf(n, i)
             f == FrontOf(m, i)
             g == FrontOf(n, i)
  <2>1. f = q + d /\ d \in 0..(Radix - 1)
    BY <1>6, Fronts
  <2>2. g = q + e /\ e \in 0..(Radix - 1)
    <3>1. FrontOf(m, i - 1) = FrontOf(n, i - 1)
      BY <1>6, <1>7
    <3>2. g = Radix * FrontOf(n, i - 1) + e /\ e \in 0..(Radix - 1)
      BY <1>6, Fronts
    <3> QED
      BY <3>1, <3>2
  <2>3. FrontOf(m, i - 1) \in Nat
    BY <1>6, Fronts
  <2>4. q \in Nat
    BY <1>1, <2>3
  <2>5. f <= g
    <3> DEFINE b == Power[StepDigits - i]
    <3>1. StepDigits - i \in Nat
      BY <1>1, <1>6
    <3>2. b \in Nat \ {0}
      BY <3>1, PowerPositive
    <3>3. f = m \div b /\ g = n \div b
      BY DEF FrontOf
    <3> HIDE DEF b, f, g
    <3>4. m <= n
      BY <1>1
    <3>5. m \div b <= n \div b
      BY <1>1, <3>2, <3>4, DividingGrows
    <3> QED
      BY <3>3, <3>5
  <2>6. f # g
    BY <1>6
  <2> HIDE DEF q, d, e, f, g
  <2>7. d < e
    BY <1>1, <2>1, <2>2, <2>4, <2>5, <2>6
  <2> QED
    BY <2>7 DEF d, e
<1> QED
  BY <1>6, <1>8, <1>9

\* Names in StepDigits digits sort as their numbers do.
LEMMA NamesSortAsNumbers ==
  ASSUME NEW m \in Fitting, NEW n \in Fitting
  PROVE  Before(StepFile(m), StepFile(n)) <=> m < n
<1> DEFINE name(l) == StepFile(l)
           N == StepDigits + 1
<1>1. StepDigits \in Nat \ {0} /\ Radix \in Nat \ {0}
  BY TraceAssumption
<1>2. ASSUME NEW l \in Fitting
      PROVE  /\ Len(name(l)) = N
             /\ \A i \in 1..N : name(l)[i] \in Nat
             /\ \A i \in 1..StepDigits : name(l)[i] = DigitOf(l, i)
  <2> DEFINE f == StepFile(l)
  <2>1. f = [i \in 1..N |-> IF i <= StepDigits THEN DigitOf(l, i) ELSE Underscore]
    BY StepFileIs
  <2> HIDE DEF f
  <2>2. \A i \in 1..StepDigits : DigitOf(l, i) \in Nat
    BY Fronts, <1>1
  <2>3. Underscore \in Nat /\ N \in Nat
    BY <1>1 DEF Underscore
  <2>4. \A i \in 1..N : f[i] \in Nat
    <3> SUFFICES ASSUME NEW i \in 1..N PROVE f[i] \in Nat
      OBVIOUS
    <3>1. CASE i <= StepDigits
      BY <1>1, <2>1, <2>2, <3>1
    <3>2. CASE ~(i <= StepDigits)
      BY <1>1, <2>1, <2>3, <3>2
    <3> QED
      BY <3>1, <3>2
  <2>5. \A i \in 1..StepDigits : f[i] = DigitOf(l, i)
    BY <1>1, <2>1
  <2>6. f \in Seq(Nat) /\ Len(f) = N
    <3>1. f \in [1..N -> Nat]
      BY <2>1, <2>4
    <3> HIDE DEF N
    <3> QED
      BY <2>3, <3>1
  <2> QED
    BY <2>4, <2>5, <2>6 DEF f
<1>3. ASSUME NEW k \in Fitting, NEW l \in Fitting, k < l
      PROVE  Before(name(k), name(l))
  <2>1. PICK i \in 1..StepDigits :
          /\ DigitOf(k, i) < DigitOf(l, i)
          /\ \A j \in 1..(i - 1) : DigitOf(k, j) = DigitOf(l, j)
    BY <1>3, FirstDifference
  <2>2. i \in 1..N /\ i <= N /\ \A j \in 1..(i - 1) : j \in 1..StepDigits
    BY <1>1
  <2>3. name(k)[i] < name(l)[i] /\ \A j \in 1..(i - 1) : name(k)[j] = name(l)[j]
    BY <1>2, <2>1, <2>2
  <2>4. Len(name(k)) = N /\ Len(name(l)) = N
    BY <1>2
  <2> HIDE DEF name, N
  <2> QED
    BY <2>2, <2>3, <2>4 DEF Before
<1>4. ASSUME NEW k \in Fitting, NEW l \in Fitting, Before(name(k), name(l)), Before(name(l), name(k))
      PROVE  FALSE
  <2>1. Len(name(k)) = N /\ Len(name(l)) = N
    BY <1>2
  <2>2. \A i \in 1..N : name(k)[i] \in Nat /\ name(l)[i] \in Nat
    BY <1>2
  <2>3. N \in Nat
    BY <1>1
  <2> HIDE DEF name, N
  <2>4. PICK i \in 1..N : name(k)[i] < name(l)[i] /\ \A j \in 1..(i - 1) : name(k)[j] = name(l)[j]
    BY <1>4, <2>1 DEF Before
  <2>5. PICK p \in 1..N : name(l)[p] < name(k)[p] /\ \A j \in 1..(p - 1) : name(l)[j] = name(k)[j]
    BY <1>4, <2>1 DEF Before
  <2>6. CASE i < p
    <3>1. i \in 1..(p - 1)
      BY <2>3, <2>6
    <3>2. name(l)[i] = name(k)[i]
      BY <2>5, <3>1
    <3> QED
      BY <2>2, <2>4, <3>2
  <2>7. CASE p < i
    <3>1. p \in 1..(i - 1)
      BY <2>3, <2>7
    <3>2. name(k)[p] = name(l)[p]
      BY <2>4, <3>1
    <3> QED
      BY <2>2, <2>5, <3>2
  <2>8. CASE i = p
    BY <2>2, <2>4, <2>5, <2>8
  <2> QED
    BY <2>3, <2>6, <2>7, <2>8
<1>5. m \in Nat /\ n \in Nat
  BY DEF Fitting
<1> HIDE DEF name
<1>6. Before(name(m), name(n)) <=> m < n
  <2>1. CASE m < n
    BY <1>3, <2>1
  <2>2. CASE n < m
    <3>1. Before(name(n), name(m))
      BY <1>3, <2>2
    <3> QED
      BY <1>4, <1>5, <2>2, <3>1
  <2>3. CASE m = n
    <3>1. ~Before(name(m), name(m))
      BY <1>4
    <3> QED
      BY <1>5, <2>3, <3>1
  <2> QED
    BY <1>5, <2>1, <2>2, <2>3
<1> QED
  BY <1>6 DEF name

\* The numbers of the first n steps.
Numbers(n) == [i \in 1..n |-> i]

\* They are a sequence, and each is its own place.
LEMMA NumbersIs ==
  ASSUME NEW n \in Nat
  PROVE  /\ Numbers(n) \in Seq(Nat) /\ Len(Numbers(n)) = n
         /\ \A i \in 1..n : Numbers(n)[i] = i
<1> DEFINE f == Numbers(n)
<1>1. f \in [1..n -> Nat] /\ \A i \in 1..n : f[i] = i
  BY DEF Numbers
<1> HIDE DEF f
<1>2. f \in Seq(Nat) /\ Len(f) = n
  BY <1>1
<1> QED
  BY <1>1, <1>2 DEF f

\* One step more.
LEMMA NumbersNext ==
  ASSUME NEW n \in Nat
  PROVE  Append(Numbers(n), n + 1) = Numbers(n + 1)
<1> DEFINE f == Numbers(n)
           g == Append(f, n + 1)
           h == Numbers(n + 1)
<1>1. f \in Seq(Nat) /\ Len(f) = n /\ \A i \in 1..n : f[i] = i
  BY NumbersIs
<1>2. h \in Seq(Nat) /\ Len(h) = n + 1 /\ \A i \in 1..(n + 1) : h[i] = i
  BY NumbersIs
<1> HIDE DEF f, h
<1>3. /\ g \in Seq(Nat) /\ Len(g) = n + 1
      /\ \A i \in 1..n : g[i] = f[i]
      /\ g[n + 1] = n + 1
  BY <1>1, AppendProperties
<1> HIDE DEF g
<1>4. \A i \in 1..(n + 1) : g[i] = h[i]
  BY <1>1, <1>2, <1>3
<1>5. g = h
  BY <1>2, <1>3, <1>4, SeqEqual
<1> QED
  BY <1>5 DEF f, g, h

\* The steps in memory are numbered in order; append_step returns for each before
\* the next is begun.
StepsInOrder ==
  /\ Len(memSteps) \in Nat /\ memSteps = Numbers(Len(memSteps))
  /\ Len(returnedSteps) \in Nat /\ returnedSteps = Numbers(Len(returnedSteps))
  /\ Len(memSteps) \in {Len(returnedSteps), Len(returnedSteps) + 1}
  /\ tracePc \in {"create", "creating", "body"} => Len(returnedSteps) = Len(memSteps)

\* Each has its file, torn or with its number, while their numbers fit.
FilesOfSteps ==
  Len(memSteps) \in Fitting =>
    /\ DOMAIN stepFiles = {StepFile(k) : k \in 1..Len(memSteps)}
    /\ \A k \in 1..Len(memSteps) :
         stepFiles[StepFile(k)] = Torn \/ stepFiles[StepFile(k)].step = k

RecordInv == StepsInOrder /\ FilesOfSteps

\* Numbers that fit have different names.
LEMMA NamesDiffer ==
  ASSUME NEW m \in Fitting, NEW n \in Fitting, StepFile(m) = StepFile(n)
  PROVE  m = n
<1>1. m \in Nat /\ n \in Nat
  BY DEF Fitting
<1>2. (m < n <=> n < n) /\ (n < m <=> n < n)
  BY NamesSortAsNumbers
<1> QED
  BY <1>1, <1>2

\* What is below a number that fits fits.
LEMMA FittingBelow ==
  ASSUME NEW n \in Fitting, NEW k \in 0..n
  PROVE  k \in Fitting
<1> DEFINE b == Power[StepDigits]
<1>1. StepDigits \in Nat
  BY TraceAssumption
<1>2. b \in Nat \ {0} /\ n \in Nat /\ n < b
  BY <1>1, PowerPositive DEF Fitting
<1> HIDE DEF b
<1>3. k \in Nat /\ k < b
  BY <1>2
<1> QED
  BY <1>3 DEF b, Fitting

\* Nothing is recorded at the start.
LEMMA RecordInvInit == TraceInit => RecordInv
<1> SUFFICES ASSUME TraceInit PROVE RecordInv
  OBVIOUS
<1>1. memSteps = <<>> /\ returnedSteps = <<>> /\ stepFiles = <<>>
  BY DEF TraceInit
<1>2. Len(<<>>) = 0 /\ DOMAIN <<>> = {} /\ 1..0 = {}
  OBVIOUS
<1>3. Numbers(0) = <<>>
  BY DEF Numbers
<1>4. StepsInOrder
  BY <1>1, <1>2, <1>3 DEF StepsInOrder
<1>5. FilesOfSteps
  BY <1>1, <1>2 DEF FilesOfSteps
<1> QED
  BY <1>4, <1>5 DEF RecordInv

\* append_step: one step more in memory, and its file.
LEMMA AppendKeepsRecord ==
  ASSUME RecordInv, AppendStep
  PROVE  RecordInv'
<1> DEFINE n == Len(memSteps)
           file == StepFile(n + 1)
<1>1. n \in Nat /\ memSteps = Numbers(n) /\ Len(returnedSteps) = n /\ returnedSteps = Numbers(n)
  BY DEF RecordInv, StepsInOrder, AppendStep
<1>2. memSteps' = Numbers(n + 1)
  BY <1>1, NumbersNext DEF AppendStep
<1>3. Len(memSteps') = n + 1
  BY <1>1, <1>2, NumbersIs
<1>4. /\ stepFiles' = [f \in DOMAIN stepFiles \cup {file} |-> IF f = file THEN Torn ELSE stepFiles[f]]
      /\ tracePc' \in {"step", "failstep"} /\ returnedSteps' = returnedSteps
  BY <1>3 DEF AppendStep, TraceGoto
<1>5. StepsInOrder'
  <2>1. Len(memSteps)' = n + 1 /\ memSteps' = Numbers(n + 1)
        /\ Len(returnedSteps)' = n /\ returnedSteps' = Numbers(n)
    BY <1>1, <1>2, <1>3, <1>4
  <2>2. memSteps' = Numbers(Len(memSteps)') /\ returnedSteps' = Numbers(Len(returnedSteps)')
    BY <2>1
  <2> HIDE DEF n
  <2>3. Len(memSteps)' \in {Len(returnedSteps)', Len(returnedSteps)' + 1}
    BY <2>1
  <2>4. Len(memSteps)' \in Nat /\ Len(returnedSteps)' \in Nat
    BY <1>1, <2>1
  <2> QED
    BY <1>4, <2>2, <2>3, <2>4 DEF StepsInOrder
<1>6. FilesOfSteps'
  <2> SUFFICES ASSUME n + 1 \in Fitting
               PROVE  /\ DOMAIN stepFiles' = {StepFile(k) : k \in 1..(n + 1)}
                      /\ \A k \in 1..(n + 1) :
                           stepFiles'[StepFile(k)] = Torn \/ stepFiles'[StepFile(k)].step = k
    BY <1>3 DEF FilesOfSteps, Fitting
  <2>1. \A k \in 1..(n + 1) : k \in Fitting
    <3> HIDE DEF n
    <3>1. \A k \in 1..(n + 1) : k \in 0..(n + 1)
      BY <1>1
    <3> QED
      BY <3>1, FittingBelow
  <2>2. n \in Fitting
    <3> HIDE DEF n
    <3>1. n \in 0..(n + 1)
      BY <1>1
    <3> QED
      BY <3>1, FittingBelow
  <2>3. /\ DOMAIN stepFiles = {StepFile(k) : k \in 1..n}
        /\ \A k \in 1..n : stepFiles[StepFile(k)] = Torn \/ stepFiles[StepFile(k)].step = k
    BY <2>2 DEF RecordInv, FilesOfSteps
  <2>4. 1..(n + 1) = 1..n \cup {n + 1} /\ \A k \in 1..n : k # n + 1
    <3> HIDE DEF n
    <3> QED
      BY <1>1
  <2>5. \A k \in 1..n : StepFile(k) # file
    BY <2>1, <2>4, NamesDiffer
  <2> HIDE DEF n
  <2>6. DOMAIN stepFiles' = {StepFile(k) : k \in 1..(n + 1)}
    <3>1. DOMAIN stepFiles' = DOMAIN stepFiles \cup {file}
      BY <1>4
    <3> QED
      BY <2>3, <2>4, <3>1
  <2>7. \A k \in 1..n : stepFiles'[StepFile(k)] = stepFiles[StepFile(k)]
    BY <1>4, <2>3, <2>5
  <2>8. stepFiles'[file] = Torn
    BY <1>4
  <2> QED
    BY <2>3, <2>4, <2>6, <2>7, <2>8
<1> QED
  BY <1>5, <1>6 DEF RecordInv

\* The write fills the file of the last step, and no other.
LEMMA StepWriteKeepsRecord ==
  ASSUME RecordInv, StepWrite
  PROVE  RecordInv'
<1> DEFINE n == Len(memSteps)
           file == StepFile(n)
           written == [step |-> n, status |-> IF tracePc = "step" THEN "ok" ELSE "failed"]
<1>1. /\ stepFiles' = [stepFiles EXCEPT ![file] = written]
      /\ memSteps' = memSteps /\ returnedSteps' = returnedSteps /\ tracePc' = "refresh"
  BY DEF StepWrite, TraceGoto
<1>2. StepsInOrder'
  BY <1>1 DEF RecordInv, StepsInOrder
<1>3. FilesOfSteps'
  <2> SUFFICES ASSUME n \in Fitting
               PROVE  /\ DOMAIN stepFiles' = {StepFile(k) : k \in 1..n}
                      /\ \A k \in 1..n :
                           stepFiles'[StepFile(k)] = Torn \/ stepFiles'[StepFile(k)].step = k
    BY <1>1 DEF FilesOfSteps, Fitting
  <2>1. \A k \in 1..n : k \in Fitting
    <3> HIDE DEF n
    <3>1. n \in Nat
      BY DEF Fitting
    <3>2. \A k \in 1..n : k \in 0..n
      BY <3>1
    <3> QED
      BY <3>2, FittingBelow
  <2>2. /\ DOMAIN stepFiles = {StepFile(k) : k \in 1..n}
        /\ \A k \in 1..n : stepFiles[StepFile(k)] = Torn \/ stepFiles[StepFile(k)].step = k
    BY DEF RecordInv, FilesOfSteps
  <2>3. written.step = n
    OBVIOUS
  <2>4. \A k \in 1..n : StepFile(k) = file => k = n
    BY <2>1, NamesDiffer
  <2> HIDE DEF n, written, file
  <2>5. DOMAIN stepFiles' = DOMAIN stepFiles
    BY <1>1
  <2>6. \A k \in 1..n : stepFiles'[StepFile(k)] = stepFiles[StepFile(k)]
                        \/ stepFiles'[StepFile(k)].step = k
    <3> SUFFICES ASSUME NEW k \in 1..n
                 PROVE  stepFiles'[StepFile(k)] = stepFiles[StepFile(k)]
                        \/ stepFiles'[StepFile(k)].step = k
      OBVIOUS
    <3>1. StepFile(k) \in DOMAIN stepFiles
      BY <2>2
    <3>2. CASE StepFile(k) = file
      <4>1. stepFiles'[StepFile(k)] = written
        BY <1>1, <3>1, <3>2
      <4> QED
        BY <2>3, <2>4, <3>2, <4>1
    <3>3. CASE StepFile(k) # file
      BY <1>1, <3>1, <3>3
    <3> QED
      BY <3>2, <3>3
  <2> QED
    BY <2>2, <2>5, <2>6
<1> QED
  BY <1>2, <1>3 DEF RecordInv

\* The other actions leave the steps and their files.
LEMMA RecordInvStep == RecordInv /\ [TraceNext]_traceVars => RecordInv'
<1> SUFFICES ASSUME RecordInv, [TraceNext]_traceVars PROVE RecordInv'
  OBVIOUS
<1>1. ASSUME UNCHANGED <<memSteps, stepFiles>>
      PROVE  FilesOfSteps'
  BY <1>1 DEF RecordInv, FilesOfSteps, Fitting
<1>2. ASSUME UNCHANGED <<memSteps, stepFiles, returnedSteps>>,
             tracePc' \in {"create", "creating", "body"} => tracePc \in {"create", "creating", "body"}
      PROVE  RecordInv'
  BY <1>1, <1>2 DEF RecordInv, StepsInOrder
<1>3. CASE ManifestTruncate
  <2>1. PICK op \in DOMAIN Rewrite :
          /\ tracePc = op /\ tracePc' = Writing[op]
          /\ UNCHANGED <<memSteps, stepFiles, returnedSteps>>
    BY <1>3 DEF ManifestTruncate, TraceGoto
  <2> QED
    BY <1>2, <2>1, RewriteTable
<1>4. CASE ManifestWrite
  <2>1. PICK op \in DOMAIN Rewrite :
          /\ tracePc = Writing[op] /\ tracePc' = Rewrite[op]
          /\ returnedSteps' = IF op = "refresh" THEN memSteps ELSE returnedSteps
          /\ UNCHANGED <<memSteps, stepFiles>>
    BY <1>4 DEF ManifestWrite, TraceGoto
  <2>2. CASE op = "refresh"
    <3>1. returnedSteps' = memSteps /\ memSteps' = memSteps
      BY <2>1, <2>2
    <3>2. StepsInOrder'
      BY <3>1 DEF RecordInv, StepsInOrder
    <3> QED
      BY <1>1, <2>1, <3>2 DEF RecordInv
  <2>3. CASE op # "refresh"
    BY <1>2, <2>1, <2>3, RewriteTable
  <2> QED
    BY <2>2, <2>3
<1>5. CASE AddArtifact
  BY <1>2, <1>5 DEF AddArtifact, TraceGoto
<1>6. CASE AppendStep
  BY <1>6, AppendKeepsRecord
<1>7. CASE StepWrite
  BY <1>7, StepWriteKeepsRecord
<1>8. CASE Leave
  BY <1>2, <1>8 DEF Leave, TraceGoto
<1>9. CASE DiskRefuses
  BY <1>2, <1>9 DEF DiskRefuses, TraceGoto
<1>10. CASE RecorderDies \/ UNCHANGED traceVars
  BY <1>2, <1>10 DEF RecorderDies, traceVars, TraceGoto
<1> QED
  BY <1>3, <1>4, <1>5, <1>6, <1>7, <1>8, <1>9, <1>10 DEF TraceNext

\* What load finds is what is in memory.
LEMMA LoadedIsMemory ==
  ASSUME RecordInv, TraceLoadable, Len(memSteps) \in Fitting
  PROVE  Loaded = memSteps
<1> DEFINE n == Len(memSteps)
           names == DOMAIN stepFiles
           before == {e \in names \X names : Before(e[1], e[2])}
           list == [k \in 1..n |-> StepFile(k)]
<1>1. n \in Nat /\ memSteps = Numbers(n)
  BY DEF RecordInv, StepsInOrder
<1>2. /\ names = {StepFile(k) : k \in 1..n}
      /\ \A k \in 1..n : stepFiles[StepFile(k)] = Torn \/ stepFiles[StepFile(k)].step = k
  BY DEF RecordInv, FilesOfSteps
<1>3. \A k \in 1..n : stepFiles[StepFile(k)].step = k
  BY <1>2 DEF TraceLoadable
<1>4. n \in Fitting
  OBVIOUS
<1> HIDE DEF n, names
<1>5. \A k \in 1..n : k \in Fitting
  <2>1. \A k \in 1..n : k \in 0..n
    BY <1>1
  <2> QED
    BY <1>4, <2>1, FittingBelow
<1>6. \A x, y \in names : <<x, y>> \in before <=> Before(x, y)
  OBVIOUS
<1> HIDE DEF before
<1>7. list \in [1..n -> names] /\ \A k \in 1..n : list[k] = StepFile(k)
  BY <1>2
<1> HIDE DEF list
<1>8. \A x \in names : \E k \in 1..n : list[k] = x
  BY <1>2, <1>7
<1>9. \A k, l \in 1..n : <<list[k], list[l]>> \in before <=> k < l
  BY <1>5, <1>6, <1>7, NamesSortAsNumbers
<1>10. [k \in 1..Cardinality(names) |-> AtRank(names, before, k)] = list
  <2>1. list \in [1..n -> names]
    BY <1>7
  <2>2. PICK S, R, N, f : S = names /\ R = before /\ N = n /\ f = list
    OBVIOUS
  <2>3. N \in Nat /\ f \in [1..N -> S]
    BY <1>1, <2>1, <2>2
  <2>4. \A x \in S : \E m \in 1..N : f[m] = x
    BY <1>8, <2>2
  <2>5. \A l, m \in 1..N : <<f[l], f[m]>> \in R <=> l < m
    BY <1>9, <2>2
  <2>6. [k \in 1..Cardinality(S) |-> AtRank(S, R, k)] = f
    BY <2>3, <2>4, <2>5, RankOfList
  <2> QED
    BY <2>2, <2>6, Zenon
<1>11. StepGlob = [k \in 1..Cardinality(names) |-> AtRank(names, before, k)]
  BY DEF StepGlob, names, before
<1>12. StepGlob = list
  BY <1>10, <1>11
<1>13. Len(StepGlob) = n
  <2>1. list \in Seq(names) /\ Len(list) = n
    BY <1>1, <1>7
  <2> QED
    BY <1>12, <2>1
<1>14. Loaded = [k \in 1..n |-> stepFiles[StepGlob[k]].step]
  BY <1>13 DEF Loaded
<1>15. \A k \in 1..n : stepFiles[StepGlob[k]].step = k
  BY <1>3, <1>7, <1>12
<1>16. Loaded = Numbers(n)
  BY <1>14, <1>15 DEF Numbers
<1> QED
  BY <1>1, <1>16

\* append_step, load and glob's order: how memory, files and returned steps agree.
THEOREM TraceRecordInvariant == TraceSpec => []RecordInv
BY RecordInvInit, RecordInvStep, PTL DEF TraceSpec

\* TraceStore.load: what it returns is every step whose append_step returned, in
\* order, and at most one more - for any number of digits, any base and any
\* number of steps that the digits can tell, wherever the recorder dies.
THEOREM TraceLoadReturns == TraceSpec => []LoadReturnsRecorded
<1>1. RecordInv => LoadReturnsRecorded
  <2> SUFFICES ASSUME RecordInv, TraceLoadable, Len(memSteps) < Power[StepDigits]
               PROVE  IsPrefix(returnedSteps, Loaded) /\ Len(Loaded) <= Len(returnedSteps) + 1
    BY DEF LoadReturnsRecorded
  <2> DEFINE n == Len(memSteps)
             r == Len(returnedSteps)
             a == Numbers(n)
             b == Numbers(r)
  <2>1. n \in Nat /\ memSteps = a /\ r \in Nat /\ returnedSteps = b /\ n \in {r, r + 1}
    BY DEF RecordInv, StepsInOrder
  <2>2. Loaded = a
    BY <2>1, LoadedIsMemory DEF Fitting
  <2> HIDE DEF n, r
  <2>3. /\ a \in Seq(Nat) /\ Len(a) = n /\ \A i \in 1..n : a[i] = i
        /\ b \in Seq(Nat) /\ Len(b) = r /\ \A i \in 1..r : b[i] = i
    BY <2>1, NumbersIs
  <2> HIDE DEF a, b
  <2>4. r \in 0..n /\ \A i \in 1..r : i \in 1..n
    BY <2>1
  <2> DEFINE c == SubSeq(a, 1, r)
  <2>5. c \in Seq(Nat) /\ Len(c) = r /\ \A i \in 1..r : c[i] = a[i]
    BY <2>3, <2>4, Beginning
  <2>6. SubSeq(b, 1, r) = b
    BY <2>3, SubSeqFull
  <2> HIDE DEF c
  <2>7. c = b
    <3>1. \A i \in 1..r : c[i] = b[i]
      BY <2>3, <2>4, <2>5
    <3> QED
      BY <2>3, <2>5, <3>1, SeqEqual
  <2>8. IsPrefix(b, a)
    BY <2>1, <2>3, <2>6, <2>7 DEF IsPrefix, c
  <2>9. Len(a) <= Len(b) + 1
    BY <2>1, <2>3
  <2>10. Len(Loaded) <= Len(returnedSteps) + 1
    BY <2>1, <2>2, <2>9
  <2> QED
    BY <2>1, <2>2, <2>8, <2>10
<1> QED
  BY <1>1, TraceRecordInvariant, PTL

-----------------------------------------------------------------------------
(* The lease *)

Phase == {"idle", "lock", "read", "write", "compare", "guarded"}

LeaseTyped ==
  /\ leaseOwner \in Instance \cup {NoInstance}
  /\ leaseLeft \in Int
  /\ ha \in [Instance -> [pc : Phase, op : Operation, left : Int]]
  /\ overlap \in 0 .. Tolerance + 1
  /\ misread \in BOOLEAN

\* Who reads or writes the lease file has the file lock.
HolderOK(p) == ha[p].pc \in {"read", "write"} => leaseLock = p

\* Who is about to write has the lease, or found it free or expired; nobody
\* else can have changed that since.
WriterOK(p) ==
  ha[p].pc = "write" => misread \/ leaseOwner \in {p, NoInstance} \/ leaseLeft <= 0

\* A deadline that guard_write has read is that of the lease, or the lease has
\* been lost since and the deadline was past by then.
GuardOK(p) ==
  ha[p].pc = "compare" /\ ha[p].op = "guard" =>
    \/ misread
    \/ leaseOwner = p /\ ha[p].left = leaseLeft
    \/ leaseOwner # p /\ ha[p].left + overlap <= 0

LeaseInv == LeaseTyped /\ \A p \in Instance : HolderOK(p) /\ WriterOK(p) /\ GuardOK(p)

-----------------------------------------------------------------------------
\* A step of p moves no other instance.
LEMMA OthersStay ==
  ASSUME LeaseTyped, NEW p \in Instance, NEW r \in [pc : Phase, op : Operation, left : Int],
         ha' = [ha EXCEPT ![p] = r]
  PROVE  /\ ha' \in [Instance -> [pc : Phase, op : Operation, left : Int]]
         /\ ha'[p] = r
         /\ \A q \in Instance : q # p => ha'[q] = ha[q]
BY DEF LeaseTyped

LEMMA Moves ==
  ASSUME LeaseTyped, NEW p \in Instance, NEW pc \in Phase, NEW left \in Int, Go(p, pc, left)
  PROVE  /\ ha' \in [Instance -> [pc : Phase, op : Operation, left : Int]]
         /\ ha'[p].pc = pc /\ ha'[p].left = left /\ ha'[p].op = ha[p].op
         /\ \A q \in Instance : q # p => ha'[q] = ha[q]
BY DEF LeaseTyped, Go

LEMMA Returns ==
  ASSUME LeaseTyped, NEW p \in Instance, Return(p)
  PROVE  /\ ha' \in [Instance -> [pc : Phase, op : Operation, left : Int]]
         /\ ha'[p].pc = "idle"
         /\ \A q \in Instance : q # p => ha'[q] = ha[q]
<1>1. Idle \in [pc : Phase, op : Operation, left : Int] /\ Idle.pc = "idle"
  BY DEF Idle, Phase, Operation
<1> QED BY <1>1, OthersStay DEF Return

\* An instance that goes where neither lock nor deadline is held disturbs nothing
\* as long as the lock is free or stays with its holder.
LEMMA LeaseQuietStep ==
  ASSUME LeaseInv, NEW p \in Instance,
         ha' \in [Instance -> [pc : Phase, op : Operation, left : Int]],
         ha'[p].pc \in {"idle", "lock", "guarded"},
         \A q \in Instance : q # p => ha'[q] = ha[q],
         leaseLock' = leaseLock \/ leaseLock = p,
         UNCHANGED <<leaseFile, misread>>
  PROVE  LeaseInv'
<1>1. UNCHANGED <<leaseOwner, leaseLeft, overlap, misread>>
  BY DEF leaseFile
<1>2. LeaseTyped'
  BY <1>1 DEF LeaseInv, LeaseTyped
<1>3. ASSUME NEW q \in Instance PROVE (HolderOK(q) /\ WriterOK(q) /\ GuardOK(q))'
  BY <1>1, <1>3 DEF LeaseInv, HolderOK, WriterOK, GuardOK
<1> QED BY <1>2, <1>3 DEF LeaseInv

LEMMA CallKeeps ==
  ASSUME LeaseInv, NEW p \in Instance, NEW op \in Operation, Call(p, op)
  PROVE  LeaseInv'
<1> DEFINE r == [pc |-> "lock", op |-> op, left |-> 0]
<1>1. r \in [pc : Phase, op : Operation, left : Int] /\ r.pc = "lock"
  BY DEF Phase
<1>2. ha' = [ha EXCEPT ![p] = r] /\ UNCHANGED <<leaseFile, leaseLock, misread>>
  BY DEF Call, errorVars
<1> QED BY <1>1, <1>2, OthersStay, LeaseQuietStep DEF LeaseInv

LEMMA TakeLockKeeps ==
  ASSUME LeaseInv, NEW p \in Instance, TakeLock(p)
  PROVE  LeaseInv'
<1>1. /\ leaseLock = NoInstance /\ leaseLock' = p
      /\ Go(p, "read", 0)
      /\ UNCHANGED <<leaseOwner, leaseLeft, overlap, misread>>
  BY DEF TakeLock, leaseFile, errorVars
<1>2. /\ ha' \in [Instance -> [pc : Phase, op : Operation, left : Int]]
      /\ ha'[p].pc = "read"
      /\ \A q \in Instance : q # p => ha'[q] = ha[q]
  BY <1>1, Moves DEF LeaseInv, Phase
<1>3. LeaseTyped'
  BY <1>1, <1>2 DEF LeaseInv, LeaseTyped
<1>4. ASSUME NEW q \in Instance PROVE (HolderOK(q) /\ WriterOK(q) /\ GuardOK(q))'
  <2>1. ha[q].pc \notin {"read", "write"}
    BY <1>1, LeaseAssumption DEF LeaseInv, HolderOK
  <2> QED BY <1>1, <1>2, <2>1 DEF LeaseInv, HolderOK, WriterOK, GuardOK
<1> QED BY <1>3, <1>4 DEF LeaseInv

\* What an operation does with the lease it read, or took for none.
LEMMA OperationKeeps ==
  ASSUME LeaseInv, NEW p \in Instance, NEW owner, ha[p].pc = "read", OperationStep(p, owner),
         misread' \in BOOLEAN, misread => misread',
         \/ owner = leaseOwner
         \/ owner = NoInstance /\ (ha[p].op = "acquire" /\ leaseLeft > 0 => misread')
  PROVE  LeaseInv'
<1>1. leaseLock = p /\ \A q \in Instance : q # p => ha[q].pc \notin {"read", "write"}
  BY DEF LeaseInv, HolderOK
<1>2. p # NoInstance /\ leaseLeft \in Int /\ Ttl \in Int
  BY LeaseAssumption DEF LeaseInv, LeaseTyped
<1>3. CASE /\ Go(p, "write", Ttl) /\ UNCHANGED <<leaseFile, leaseLock>>
           /\ misread' \/ leaseOwner \in {p, NoInstance} \/ leaseLeft <= 0
  <2>1. /\ ha' \in [Instance -> [pc : Phase, op : Operation, left : Int]]
        /\ ha'[p].pc = "write"
        /\ \A q \in Instance : q # p => ha'[q] = ha[q]
    BY <1>2, <1>3, Moves DEF LeaseInv, Phase
  <2>2. UNCHANGED <<leaseOwner, leaseLeft, overlap, leaseLock>>
    BY <1>3 DEF leaseFile
  <2>3. LeaseTyped'
    BY <2>1, <2>2 DEF LeaseInv, LeaseTyped
  <2>4. ASSUME NEW q \in Instance PROVE (HolderOK(q) /\ WriterOK(q) /\ GuardOK(q))'
    BY <1>1, <1>3, <2>1, <2>2 DEF LeaseInv, HolderOK, WriterOK, GuardOK
  <2> QED BY <2>3, <2>4 DEF LeaseInv
<1>4. CASE /\ Return(p) /\ leaseLock' = NoInstance
           /\ UNCHANGED <<leaseLeft, overlap>>
           /\ leaseOwner' = leaseOwner \/ (leaseOwner = p /\ leaseOwner' = NoInstance)
  <2>1. /\ ha' \in [Instance -> [pc : Phase, op : Operation, left : Int]]
        /\ ha'[p].pc = "idle"
        /\ \A q \in Instance : q # p => ha'[q] = ha[q]
    BY <1>4, Returns DEF LeaseInv
  <2>2. LeaseTyped'
    BY <1>4, <2>1 DEF LeaseInv, LeaseTyped
  <2>3. ASSUME NEW q \in Instance PROVE (HolderOK(q) /\ WriterOK(q) /\ GuardOK(q))'
    <3>1. q # NoInstance
      BY LeaseAssumption
    <3> QED BY <1>1, <1>4, <2>1, <3>1 DEF LeaseInv, HolderOK, WriterOK, GuardOK
  <2> QED BY <2>2, <2>3 DEF LeaseInv
<1>5. CASE /\ Go(p, "compare", leaseLeft) /\ leaseLock' = NoInstance /\ UNCHANGED leaseFile
           /\ ha[p].op = "guard" => leaseOwner = p
  <2>1. /\ ha' \in [Instance -> [pc : Phase, op : Operation, left : Int]]
        /\ ha'[p].pc = "compare" /\ ha'[p].left = leaseLeft /\ ha'[p].op = ha[p].op
        /\ \A q \in Instance : q # p => ha'[q] = ha[q]
    BY <1>2, <1>5, Moves DEF LeaseInv, Phase
  <2>2. UNCHANGED <<leaseOwner, leaseLeft, overlap>>
    BY <1>5 DEF leaseFile
  <2>3. LeaseTyped'
    BY <2>1, <2>2 DEF LeaseInv, LeaseTyped
  <2>4. ASSUME NEW q \in Instance PROVE (HolderOK(q) /\ WriterOK(q) /\ GuardOK(q))'
    BY <1>1, <1>5, <2>1, <2>2 DEF LeaseInv, HolderOK, WriterOK, GuardOK
  <2> QED BY <2>3, <2>4 DEF LeaseInv
<1>6. CASE ha[p].op = "acquire" /\ AcquireStep(p, owner)
  BY <1>2, <1>3, <1>4, <1>6 DEF AcquireStep, WriteOrRefuse, leaseFile
<1>7. CASE ha[p].op = "renew" /\ RenewStep(p, owner)
  BY <1>2, <1>3, <1>4, <1>7 DEF RenewStep, WriteOrRefuse, leaseFile
<1>8. CASE ha[p].op = "release" /\ ReleaseStep(p, owner)
  BY <1>2, <1>4, <1>8 DEF ReleaseStep
<1>9. CASE ha[p].op \in {"guard", "recover"} /\ QueryStep(p, owner)
  BY <1>2, <1>4, <1>5, <1>9 DEF QueryStep, leaseFile
<1> QED BY <1>6, <1>7, <1>8, <1>9 DEF OperationStep

LEMMA ReadLeaseKeeps ==
  ASSUME LeaseInv, NEW p \in Instance, ReadLease(p)
  PROVE  LeaseInv'
<1>1. ha[p].pc = "read" /\ OperationStep(p, leaseOwner) /\ misread' = misread
  BY DEF ReadLease, At, errorVars
<1>2. misread' \in BOOLEAN
  BY <1>1 DEF LeaseInv, LeaseTyped
<1> QED BY <1>1, <1>2, OperationKeeps

LEMMA MisreadLeaseKeeps ==
  ASSUME LeaseInv, NEW p \in Instance, MisreadLease(p)
  PROVE  LeaseInv'
<1>1. ha[p].pc = "read" /\ OperationStep(p, NoInstance)
      /\ misread' = (misread \/ (ha[p].op = "acquire" /\ leaseLeft > 0))
  BY DEF MisreadLease, At
<1>2. misread' \in BOOLEAN /\ (misread => misread')
      /\ (ha[p].op = "acquire" /\ leaseLeft > 0 => misread')
  BY <1>1
<1> QED BY <1>1, <1>2, OperationKeeps

\* An access to the file that fails leaves the lock and the lease as it was.
LEMMA FileFailsKeeps ==
  ASSUME LeaseInv, NEW p \in Instance, FileFails(p)
  PROVE  LeaseInv'
<1>1. /\ ha[p].pc \in {"read", "write"} /\ Return(p)
      /\ leaseLock' = NoInstance
      /\ UNCHANGED <<leaseOwner, leaseLeft, overlap, misread>>
  BY DEF FileFails, At, leaseFile
<1>2. /\ ha' \in [Instance -> [pc : Phase, op : Operation, left : Int]]
      /\ ha'[p].pc = "idle"
      /\ \A q \in Instance : q # p => ha'[q] = ha[q]
  BY <1>1, Returns DEF LeaseInv
<1>3. \A q \in Instance : q # p => ha[q].pc \notin {"read", "write"}
  BY <1>1 DEF LeaseInv, HolderOK
<1>4. LeaseTyped'
  BY <1>1, <1>2 DEF LeaseInv, LeaseTyped
<1>5. ASSUME NEW q \in Instance PROVE (HolderOK(q) /\ WriterOK(q) /\ GuardOK(q))'
  BY <1>1, <1>2, <1>3 DEF LeaseInv, HolderOK, WriterOK, GuardOK
<1> QED BY <1>4, <1>5 DEF LeaseInv

\* The write of a lease, which may take it from somebody.
LEMMA WriteLeaseKeeps ==
  ASSUME LeaseInv, NEW p \in Instance, WriteLease(p)
  PROVE  LeaseInv'
<1>1. /\ ha[p].pc = "write" /\ Return(p)
      /\ overlap' = IF leaseOwner = p THEN overlap ELSE 0
      /\ leaseOwner' = p /\ leaseLeft' = ha[p].left
      /\ leaseLock' = NoInstance /\ misread' = misread
  BY DEF WriteLease, At, errorVars
<1>2. /\ ha' \in [Instance -> [pc : Phase, op : Operation, left : Int]]
      /\ ha'[p].pc = "idle"
      /\ \A q \in Instance : q # p => ha'[q] = ha[q]
  BY <1>1, Returns DEF LeaseInv
<1>3. leaseLock = p /\ \A q \in Instance : q # p => ha[q].pc \notin {"read", "write"}
  BY <1>1 DEF LeaseInv, HolderOK
<1>4. misread \/ leaseOwner \in {p, NoInstance} \/ leaseLeft <= 0
  BY <1>1 DEF LeaseInv, WriterOK
<1>5. LeaseTyped'
  <2>1. overlap' \in 0 .. Tolerance + 1
    BY <1>1, LeaseAssumption DEF LeaseInv, LeaseTyped
  <2>2. ha[p].left \in Int
    BY DEF LeaseInv, LeaseTyped
  <2> QED BY <1>1, <1>2, <2>1, <2>2 DEF LeaseInv, LeaseTyped
<1>6. ASSUME NEW q \in Instance PROVE (HolderOK(q) /\ WriterOK(q) /\ GuardOK(q))'
  <2>1. CASE q = p
    BY <1>2, <2>1 DEF HolderOK, WriterOK, GuardOK
  <2>2. CASE q # p
    <3>1. HolderOK(q)' /\ WriterOK(q)'
      BY <1>2, <1>3, <2>2 DEF HolderOK, WriterOK
    <3>2. ASSUME ha[q].pc = "compare", ha[q].op = "guard", ~misread
          PROVE  ha[q].left + overlap' <= 0
      <4>1. ha[q].left \in Int /\ overlap \in Nat /\ leaseLeft \in Int
        BY LeaseAssumption DEF LeaseInv, LeaseTyped
      <4>2. CASE leaseOwner = q
        <5>1. leaseLeft <= 0 /\ ha[q].left = leaseLeft
          BY <1>4, <2>2, <3>2, <4>2, LeaseAssumption DEF LeaseInv, GuardOK
        <5>2. overlap' = 0
          BY <1>1, <2>2, <4>2
        <5> QED BY <4>1, <5>1, <5>2
      <4>3. CASE leaseOwner # q
        <5>1. ha[q].left + overlap <= 0
          BY <3>2, <4>3 DEF LeaseInv, GuardOK
        <5> QED BY <1>1, <4>1, <5>1
      <4> QED BY <4>2, <4>3
    <3>3. GuardOK(q)'
      BY <1>1, <1>2, <2>2, <3>2 DEF GuardOK
    <3> QED BY <3>1, <3>3
  <2> QED BY <2>1, <2>2
<1> QED BY <1>5, <1>6 DEF LeaseInv

LEMMA CompareKeeps ==
  ASSUME LeaseInv, NEW p \in Instance, Compare(p)
  PROVE  LeaseInv'
<1>1. UNCHANGED <<leaseFile, leaseLock, misread>>
  BY DEF Compare, errorVars
<1>2. CASE Go(p, "guarded", 0)
  BY <1>1, <1>2, Moves, LeaseQuietStep DEF LeaseInv, Phase
<1>3. CASE Return(p)
  BY <1>1, <1>3, Returns, LeaseQuietStep DEF LeaseInv
<1>4. CASE ha' = [ha EXCEPT ![p] = [pc |-> "lock", op |-> "acquire", left |-> 0]]
  <2> DEFINE r == [pc |-> "lock", op |-> "acquire", left |-> 0]
  <2>1. r \in [pc : Phase, op : Operation, left : Int] /\ r.pc = "lock"
    BY DEF Phase, Operation
  <2> QED BY <1>1, <1>4, <2>1, OthersStay, LeaseQuietStep DEF LeaseInv
<1> QED BY <1>2, <1>3, <1>4 DEF Compare, CompareGuard, CompareRecover

\* Time passes for every deadline alike.
LEMMA LeaseTickKeeps ==
  ASSUME LeaseInv, LeaseTick
  PROVE  LeaseInv'
<1>1. /\ leaseLeft' = Later(leaseLeft)
      /\ ha' = [p \in Instance |->
                  IF ha[p].pc \in {"compare", "write"}
                  THEN [ha[p] EXCEPT !.left = Later(@)] ELSE ha[p]]
      /\ overlap' = IF overlap > Tolerance THEN overlap ELSE overlap + 1
      /\ UNCHANGED <<leaseOwner, leaseLock, misread>>
  BY DEF LeaseTick, errorVars
<1>2. \A left \in Int : Later(left) \in Int /\ (left <= 0 => Later(left) <= 0)
  BY LeaseAssumption DEF Later
<1>3. ASSUME NEW p \in Instance
      PROVE  /\ ha'[p] \in [pc : Phase, op : Operation, left : Int]
             /\ ha'[p].pc = ha[p].pc /\ ha'[p].op = ha[p].op
             /\ ha[p].pc = "compare" => ha'[p].left = Later(ha[p].left)
  <2>1. ha[p] \in [pc : Phase, op : Operation, left : Int]
    BY DEF LeaseInv, LeaseTyped
  <2>2. CASE ha[p].pc \in {"compare", "write"}
    <3>1. ha'[p] = [ha[p] EXCEPT !.left = Later(ha[p].left)]
      BY <1>1, <2>2
    <3>2. Later(ha[p].left) \in Int
      BY <1>2, <2>1
    <3> QED BY <2>1, <3>1, <3>2
  <2>3. CASE ha[p].pc \notin {"compare", "write"}
    BY <1>1, <2>1, <2>3
  <2> QED BY <2>2, <2>3
<1>4. LeaseTyped'
  <2>1. overlap' \in 0 .. Tolerance + 1
    BY <1>1, LeaseAssumption DEF LeaseInv, LeaseTyped
  <2>2. leaseLeft' \in Int
    BY <1>1, <1>2 DEF LeaseInv, LeaseTyped
  <2>3. ha' \in [Instance -> [pc : Phase, op : Operation, left : Int]]
    BY <1>1, <1>3
  <2> QED BY <1>1, <2>1, <2>2, <2>3 DEF LeaseInv, LeaseTyped
<1>5. ASSUME NEW q \in Instance PROVE (HolderOK(q) /\ WriterOK(q) /\ GuardOK(q))'
  <2>1. HolderOK(q)'
    BY <1>1, <1>3 DEF LeaseInv, HolderOK
  <2>2. WriterOK(q)'
    BY <1>1, <1>2, <1>3 DEF LeaseInv, LeaseTyped, WriterOK
  <2>3. ASSUME ha[q].left + overlap <= 0 PROVE Later(ha[q].left) + overlap' <= 0
    <3>1. ha[q].left \in Int /\ overlap \in 0 .. Tolerance + 1 /\ Tolerance \in Nat
      BY LeaseAssumption DEF LeaseInv, LeaseTyped
    <3> QED BY <1>1, <2>3, <3>1 DEF Later
  <2>4. GuardOK(q)'
    BY <1>1, <1>3, <2>3 DEF LeaseInv, GuardOK
  <2> QED BY <2>1, <2>2, <2>4
<1> QED BY <1>4, <1>5 DEF LeaseInv

-----------------------------------------------------------------------------
\* The file lock is held by one instance, who writes with the right to; a deadline
\* read under it stays related to the lease after the lock is left.
THEOREM LeaseInvariant == LeaseSpec => []LeaseInv
<1>1. LeaseInit => LeaseInv
  <2> SUFFICES ASSUME LeaseInit PROVE LeaseInv
    OBVIOUS
  <2>1. Idle \in [pc : Phase, op : Operation, left : Int] /\ Idle.pc = "idle"
    BY DEF Idle, Phase, Operation
  <2>2. LeaseTyped
    <3>1. ha \in [Instance -> [pc : Phase, op : Operation, left : Int]]
      <4>1. ha = [p \in Instance |-> Idle]
        BY DEF LeaseInit
      <4> QED BY <2>1, <4>1
    <3>2. overlap = 0 /\ misread = FALSE
      BY DEF LeaseInit
    <3>3. leaseOwner \in Instance \cup {NoInstance} /\ leaseLeft \in Int
      BY DEF LeaseInit
    <3>4. 0 \in 0 .. Tolerance + 1
      BY LeaseAssumption
    <3> QED BY <3>1, <3>2, <3>3, <3>4 DEF LeaseTyped
  <2>3. \A p \in Instance : ha[p].pc = "idle"
    BY <2>1 DEF LeaseInit
  <2> QED BY <2>2, <2>3 DEF LeaseInv, HolderOK, WriterOK, GuardOK
<1>2. LeaseInv /\ [LeaseNext]_leaseVars => LeaseInv'
  <2> SUFFICES ASSUME LeaseInv, [LeaseNext]_leaseVars PROVE LeaseInv'
    OBVIOUS
  <2>1. CASE LeaseTick
    BY <2>1, LeaseTickKeeps
  <2>2. ASSUME NEW p \in Instance, Crash(p) PROVE LeaseInv'
    BY <2>2, Returns, LeaseQuietStep DEF Crash, errorVars, LeaseInv
  <2>3. ASSUME NEW p \in Instance, HaStep(p) PROVE LeaseInv'
    <3>1. CASE TakeLock(p)
      BY <3>1, TakeLockKeeps
    <3>2. CASE LockTimeout(p)
      BY <3>2, Returns, LeaseQuietStep DEF LockTimeout, errorVars, LeaseInv
    <3>3. CASE ReadLease(p)
      BY <3>3, ReadLeaseKeeps
    <3>4. CASE MisreadLease(p)
      BY <3>4, MisreadLeaseKeeps
    <3>5. CASE WriteLease(p)
      BY <3>5, WriteLeaseKeeps
    <3>6. CASE Compare(p)
      BY <3>6, CompareKeeps
    <3>7. CASE StorageWrite(p)
      BY <3>7, Returns, LeaseQuietStep DEF StorageWrite, errorVars, LeaseInv
    <3>8. CASE FileFails(p)
      BY <3>8, FileFailsKeeps
    <3> QED BY <2>3, <3>1, <3>2, <3>3, <3>4, <3>5, <3>6, <3>7, <3>8 DEF HaStep
  <2>4. ASSUME NEW p \in Instance, NEW op \in Operation, Call(p, op) PROVE LeaseInv'
    BY <2>4, CallKeeps
  <2>5. CASE UNCHANGED leaseVars
    BY <2>5 DEF leaseVars, LeaseInv, LeaseTyped, HolderOK, WriterOK, GuardOK
  <2> QED BY <2>1, <2>2, <2>3, <2>4, <2>5 DEF LeaseNext
<1> QED BY <1>1, <1>2, PTL DEF LeaseSpec

-----------------------------------------------------------------------------
\* Only a deadline read under the lock and found not too long past lets a write
\* through.
LEMMA GuardedAfterCompare ==
  ASSUME LeaseInv, LeaseNext, NEW p \in Instance,
         ha[p].pc # "guarded", ha'[p].pc = "guarded"
  PROVE  /\ ha[p].pc = "compare" /\ ha[p].op = "guard"
         /\ ha[p].left >= -Tolerance
<1>1. ASSUME NEW q \in Instance, NEW pc \in {"read", "write", "compare"}, NEW left \in Int,
             Go(q, pc, left)
      PROVE  FALSE
  <2>1. ha'[q].pc = pc /\ \A r \in Instance : r # q => ha'[r] = ha[r]
    BY <1>1, Moves DEF LeaseInv, Phase
  <2> QED BY <2>1
<1>2. ASSUME NEW q \in Instance, Return(q) PROVE FALSE
  <2>1. ha'[q].pc = "idle" /\ \A r \in Instance : r # q => ha'[r] = ha[r]
    BY <1>2, Returns DEF LeaseInv
  <2> QED BY <2>1
<1>3. ASSUME NEW q \in Instance, NEW op \in Operation,
             ha' = [ha EXCEPT ![q] = [pc |-> "lock", op |-> op, left |-> 0]]
      PROVE  FALSE
  <2>1. [pc |-> "lock", op |-> op, left |-> 0] \in [pc : Phase, op : Operation, left : Int]
    BY DEF Phase
  <2>2. ha'[q].pc = "lock" /\ \A r \in Instance : r # q => ha'[r] = ha[r]
    BY <1>3, <2>1, OthersStay DEF LeaseInv
  <2> QED BY <2>2
<1>4. leaseLeft \in Int /\ Ttl \in Int
  BY LeaseAssumption DEF LeaseInv, LeaseTyped
<1>5. ASSUME NEW q \in Instance, NEW owner, OperationStep(q, owner) PROVE FALSE
  BY <1>1, <1>2, <1>4, <1>5
     DEF OperationStep, AcquireStep, RenewStep, ReleaseStep, QueryStep, WriteOrRefuse
<1>6. CASE LeaseTick
  <2>1. ha'[p].pc = ha[p].pc
    <3>1. ha[p] \in [pc : Phase, op : Operation, left : Int]
      BY DEF LeaseInv, LeaseTyped
    <3>2. ha'[p] = IF ha[p].pc \in {"compare", "write"}
                   THEN [ha[p] EXCEPT !.left = Later(@)] ELSE ha[p]
      BY <1>6 DEF LeaseTick
    <3> QED BY <3>1, <3>2
  <2> QED BY <2>1
<1>7. ASSUME NEW q \in Instance, Crash(q) PROVE FALSE
  BY <1>2, <1>7 DEF Crash
<1>8. ASSUME NEW q \in Instance, NEW op \in Operation, Call(q, op) PROVE FALSE
  BY <1>3, <1>8 DEF Call
<1>9. ASSUME NEW q \in Instance, HaStep(q)
      PROVE  /\ ha[p].pc = "compare" /\ ha[p].op = "guard"
             /\ ha[p].left >= -Tolerance
  <2>1. CASE TakeLock(q)
    BY <1>1, <2>1 DEF TakeLock
  <2>2. CASE LockTimeout(q) \/ FileFails(q) \/ WriteLease(q) \/ StorageWrite(q)
    BY <1>2, <2>2 DEF LockTimeout, FileFails, WriteLease, StorageWrite
  <2>3. CASE ReadLease(q)
    BY <1>5, <2>3 DEF ReadLease
  <2>4. CASE MisreadLease(q)
    BY <1>5, <2>4 DEF MisreadLease
  <2>5. CASE Compare(q)
    <3>1. CASE ha[q].op = "guard" /\ CompareGuard(q)
      <4>1. ha[q].left >= -Tolerance /\ Go(q, "guarded", 0)
        BY <1>2, <3>1 DEF CompareGuard
      <4>2. p = q
        BY <4>1, Moves DEF LeaseInv, Phase
      <4> QED BY <2>5, <3>1, <4>1, <4>2 DEF Compare, At
    <3>2. CASE CompareRecover(q)
      BY <1>2, <1>3, <3>2 DEF CompareRecover, Operation
    <3> QED BY <2>5, <3>1, <3>2 DEF Compare
  <2> QED BY <1>9, <2>1, <2>2, <2>3, <2>4, <2>5 DEF HaStep
<1> QED BY <1>6, <1>7, <1>8, <1>9 DEF LeaseNext

\* The tolerance bounds the split: whoever guard_write lets through has the
\* lease, or lost it at most Tolerance ago (unless a read error let somebody
\* take a lease in force), for any number of instances and any delays.
THEOREM LeaseSplitIsBounded == LeaseSpec => SplitIsBounded
<1>1. LeaseInv /\ [LeaseNext]_leaseVars =>
        [\A p \in Instance :
           ha[p].pc # "guarded" /\ ha'[p].pc = "guarded"
             => misread \/ leaseOwner \in {p, NoInstance} \/ overlap <= Tolerance]_leaseVars
  <2> SUFFICES ASSUME LeaseInv, LeaseNext, NEW p \in Instance,
                      ha[p].pc # "guarded", ha'[p].pc = "guarded", ~misread, leaseOwner # p
               PROVE  overlap <= Tolerance
    OBVIOUS
  <2>1. ha[p].left >= -Tolerance /\ ha[p].left + overlap <= 0
    BY GuardedAfterCompare DEF LeaseInv, GuardOK
  <2>2. ha[p].left \in Int /\ overlap \in Int /\ Tolerance \in Int
    BY LeaseAssumption DEF LeaseInv, LeaseTyped
  <2> QED BY <2>1, <2>2
<1> QED BY <1>1, LeaseInvariant, PTL DEF LeaseSpec, SplitIsBounded

\* The lease changes hands only when it has run out or was released: the file
\* lock protects check and write together, whoever times out, dies or waits.
THEOREM LeaseTakenAfterExpiry == LeaseSpec => TakeoverAfterExpiry
<1>1. LeaseInv /\ [LeaseNext]_leaseVars =>
        [NoInstance \notin {leaseOwner, leaseOwner'} /\ leaseOwner' # leaseOwner
           => misread \/ leaseLeft <= 0]_leaseVars
  <2> SUFFICES ASSUME LeaseInv, LeaseNext, leaseOwner # NoInstance, leaseOwner' # NoInstance,
                      leaseOwner' # leaseOwner
               PROVE  misread \/ leaseLeft <= 0
    OBVIOUS
  <2>1. ASSUME NEW p \in Instance, NEW owner, OperationStep(p, owner) PROVE FALSE
    BY <2>1 DEF OperationStep, AcquireStep, RenewStep, ReleaseStep, QueryStep, WriteOrRefuse,
       leaseFile
  <2>2. ASSUME NEW p \in Instance, WriteLease(p) PROVE misread \/ leaseLeft <= 0
    <3>1. ha[p].pc = "write" /\ leaseOwner' = p
      BY <2>2 DEF WriteLease, At
    <3> QED BY <3>1 DEF LeaseInv, WriterOK
  <2>3. ASSUME NEW p \in Instance, HaStep(p) PROVE misread \/ leaseLeft <= 0
    BY <2>1, <2>2, <2>3 DEF HaStep, TakeLock, LockTimeout, ReadLease, MisreadLease, FileFails,
       Compare, StorageWrite, leaseFile
  <2>4. ~LeaseTick /\ \A p \in Instance : ~Crash(p) /\ \A op \in Operation : ~Call(p, op)
    BY DEF LeaseTick, Crash, Call, leaseFile
  <2> QED BY <2>3, <2>4 DEF LeaseNext
<1> QED BY <1>1, LeaseInvariant, PTL DEF LeaseSpec, TakeoverAfterExpiry
=============================================================================
