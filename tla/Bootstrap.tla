----------------------------- MODULE Bootstrap -----------------------------
(***************************************************************************)
(* The self-repair cycle of src/bootstrap: the sensor compares the         *)
(* generated matchers with what the policy file generates, the diagnoser   *)
(* maps the signals to actions, the deployer regenerates, verifies and     *)
(* commits or rolls back, the scheduler records the cycle in its database. *)
(* Around it people edit the policy and other files, stage and commit their*)
(* work, delete the generated file, and hold git's index lock; the process *)
(* may die at any step.                                                    *)
(*                                                                         *)
(* The repository is three trees (working tree, index, HEAD) over two      *)
(* files.  A generated file is the policy version it was generated from.   *)
(***************************************************************************)
EXTENDS Integers, Sequences, FiniteSets

CONSTANTS
  MaxRepoEdits,   \* bound on what people do to the repository
  BrokenPolicy,   \* policy versions the generator refuses (no rules, no name)
  MaxCycles       \* bound on cycles started

VARIABLES
  openItems,      \* which files of Backlog have open items; nobody edits them here
  policyVersion,  \* config/policies.yaml, Missing when it is not there
  work, index, head,
  remote,         \* the upstream branch
  locked,         \* another git process holds .git/index.lock
  cyclePc, cycleStatus, cycleReview,
  cycleLog,       \* table cycles: status and what was left to a human
  cycleFailures,  \* table cycles_failures
  cyclesRun, repoEdits,
  verifiedGen,    \* history: generated contents some verification passed
  quietCycle,     \* history: nobody touched policy or generated file since sensing, and
                  \* no dry run left alone the drift it saw
  sweptFiles      \* history: files changed by commits of the deployer

repoVars == <<openItems, policyVersion, work, index, head, remote, locked, repoEdits>>
bootstrapVars == <<repoVars, cyclePc, cycleStatus, cycleReview, cycleLog, cycleFailures,
                   cyclesRun, verifiedGen, quietCycle, sweptFiles>>

RepoFile == {"generated", "other"}
Missing == 0

\* Files the sensor reads that may have open items: the unticked lines of the
\* critic's report, the debts not marked as closed.
Backlog == {"critic", "debt"}

BootstrapInit ==
  /\ openItems \in SUBSET Backlog
  /\ policyVersion = 1
  /\ work = [f \in RepoFile |-> 1] /\ index = work /\ head = work /\ remote = work
  /\ locked = FALSE
  /\ cyclePc = "idle" /\ cycleStatus = "NOOP" /\ cycleReview = {}
  /\ cycleLog = <<>> /\ cycleFailures = <<>>
  /\ cyclesRun = 0 /\ repoEdits = 0
  /\ verifiedGen = {1} /\ quietCycle = TRUE /\ sweptFiles = {}

---------------------------------------------------------------------------
\* git_status: only modified and untracked files count as changed.
GitChanged == {f \in RepoFile : work[f] # Missing /\ (work[f] # index[f] \/ index[f] # head[f])}

\* Mutant: a missing generated file is no drift.
CodegenDrift_ExistingOnly ==
  work["generated"] # Missing /\ policyVersion \notin {Missing, work["generated"]}

\* Without a policy there is nothing to drift from, once there is a file.
CodegenDrift ==
  \/ work["generated"] = Missing
  \/ policyVersion # Missing /\ work["generated"] # policyVersion

\* The comparison runs the generator, which raises on a broken policy; a
\* missing file is drift before that.
SensorFails ==
  work["generated"] # Missing /\ policyVersion # Missing /\ policyVersion \in BrokenPolicy

\* diagnose and human_review_required: passing tests and fresh matchers are
\* listed as well, they are not fixable.
Diagnosed(drift) ==
  {"tests"} \cup openItems \cup (IF drift THEN {} ELSE {"codegen"})
    \cup (IF GitChanged \ {"generated"} # {} THEN {"git"} ELSE {})

EndWith(status) == cycleStatus' = status /\ cyclePc' = "persist"

\* run_cycle up to the fixes: collect_signals, diagnose, dry_run.  A git status
\* that takes too long raises as the generator does.
Sense ==
  /\ cyclePc = "idle" /\ cyclesRun < MaxCycles
  /\ cyclesRun' = cyclesRun + 1
  /\ \E dryRun, slowGit \in BOOLEAN :
       /\ quietCycle' = ~(dryRun /\ CodegenDrift)
       /\ IF SensorFails \/ slowGit
          THEN EndWith("FAILED") /\ cycleReview' = {}
          ELSE /\ cycleReview' = Diagnosed(CodegenDrift)
               /\ IF CodegenDrift /\ ~dryRun
                  THEN cyclePc' = "generate" /\ cycleStatus' = "NOOP"
                  ELSE EndWith("NOOP")
  /\ UNCHANGED <<repoVars, cycleLog, cycleFailures, verifiedGen, sweptFiles>>

\* generate_fix inside run_fix: the policy is read again and written only if
\* the file differs; it must be there by now.
GenerateFix ==
  /\ cyclePc = "generate"
  /\ IF policyVersion \in BrokenPolicy \cup {Missing}
     THEN EndWith("FAILED") /\ UNCHANGED work
     ELSE IF work["generated"] = policyVersion
     THEN EndWith("NOOP") /\ UNCHANGED work
     ELSE /\ work' = [work EXCEPT !["generated"] = policyVersion]
          /\ cyclePc' = "verify" /\ UNCHANGED cycleStatus
  /\ UNCHANGED <<openItems, policyVersion, index, head, remote, locked, repoEdits, cycleReview,
                 cycleLog, cycleFailures, cyclesRun, verifiedGen, quietCycle, sweptFiles>>

FixGoto(pc) == cyclePc' = pc /\ UNCHANGED cycleStatus
FixFrame == UNCHANGED <<openItems, policyVersion, head, remote, locked, repoEdits, cycleReview,
                        cycleLog, cycleFailures, cyclesRun, quietCycle, sweptFiles>>

\* Mutant: the file is staged before its verification.
VerifyFix_StagesFirst ==
  /\ cyclePc = "verify"
  /\ index' = [index EXCEPT !["generated"] = work["generated"]]
  /\ \/ FixGoto("stage") /\ verifiedGen' = verifiedGen \cup {work["generated"]}
     \/ FixGoto("rollback") /\ UNCHANGED verifiedGen
  /\ UNCHANGED work /\ FixFrame

\* verify_fix: py_compile and the regression tests; both may pass or fail.  A
\* file that has gone missing does not compile.
VerifyFix ==
  /\ cyclePc = "verify"
  /\ \/ /\ work["generated"] # Missing
        /\ FixGoto("stage") /\ verifiedGen' = verifiedGen \cup {work["generated"]}
     \/ FixGoto("rollback") /\ UNCHANGED verifiedGen
  /\ UNCHANGED <<work, index>> /\ FixFrame

\* rollback: git checkout -- <file>, whose failure nobody looks at.
Rollback ==
  /\ cyclePc = "rollback"
  /\ work' = IF locked \/ index["generated"] = Missing THEN work
             ELSE [work EXCEPT !["generated"] = index["generated"]]
  /\ EndWith("ROLLED_BACK")
  /\ UNCHANGED <<index, verifiedGen>> /\ FixFrame

\* commit_fix, first half: git add -- <file>, whose failure nobody looks at.
\* A file deleted since its verification is staged as a deletion.
Stage ==
  /\ cyclePc = "stage"
  /\ index' = IF locked THEN index ELSE [index EXCEPT !["generated"] = work["generated"]]
  /\ FixGoto("commit")
  /\ UNCHANGED <<work, verifiedGen>> /\ FixFrame

\* commit_fix, second half: git commit -m, without a path.  It fails on a lock,
\* on a hook and when the index holds nothing new.
Commit ==
  /\ cyclePc = "commit"
  /\ \/ /\ ~locked /\ index # head
        /\ head' = index
        /\ sweptFiles' = sweptFiles \cup {f \in RepoFile : index[f] # head[f]}
        /\ cyclePc' = "push" /\ cycleStatus' = "DEPLOYED"
     \/ EndWith("NOOP") /\ UNCHANGED <<head, sweptFiles>>
  /\ UNCHANGED <<openItems, policyVersion, work, index, remote, locked, repoEdits, cycleReview, cycleLog,
                 cycleFailures, cyclesRun, verifiedGen, quietCycle>>

\* push_fix: with auto_push, the gate's two environment variables and a willing
\* remote, HEAD goes out; the cycle counts as deployed anyway.
Push ==
  /\ cyclePc = "push"
  /\ remote' \in {remote, head}
  /\ cyclePc' = "persist"
  /\ UNCHANGED <<openItems, policyVersion, work, index, head, locked, repoEdits, cycleStatus, cycleReview,
                 cycleLog, cycleFailures, cyclesRun, verifiedGen, quietCycle, sweptFiles>>

\* A command that takes over a minute, most likely a commit with slow hooks,
\* or an interpreter that cannot be started to compile the file, raises: the
\* cycle fails and nothing is undone.
CommandRaises ==
  /\ cyclePc \in {"verify", "rollback", "stage", "commit", "push"}
  /\ EndWith("FAILED")
  /\ UNCHANGED <<work, index, verifiedGen>> /\ FixFrame

\* _persist_cycle
PersistCycle ==
  /\ cyclePc = "persist"
  /\ cycleLog' = Append(cycleLog, [status |-> cycleStatus, review |-> cycleReview])
  /\ cyclePc' = IF cycleStatus = "FAILED" THEN "failure" ELSE "idle"
  /\ UNCHANGED <<repoVars, cycleStatus, cycleReview, cycleFailures, cyclesRun,
                 verifiedGen, quietCycle, sweptFiles>>

\* _persist_failure: a transaction of its own.
PersistFailure ==
  /\ cyclePc = "failure"
  /\ cycleFailures' = Append(cycleFailures, Len(cycleLog))
  /\ cyclePc' = "idle"
  /\ UNCHANGED <<repoVars, cycleStatus, cycleReview, cycleLog, cyclesRun, verifiedGen,
                 quietCycle, sweptFiles>>

\* The process is killed; the next run starts a new cycle.
CycleDies ==
  /\ cyclePc # "idle"
  /\ cyclePc' = "idle"
  /\ UNCHANGED <<repoVars, cycleStatus, cycleReview, cycleLog, cycleFailures, cyclesRun,
                 verifiedGen, quietCycle, sweptFiles>>

---------------------------------------------------------------------------
\* What people do; none of them writes the generated file by hand.
People ==
  /\ repoEdits < MaxRepoEdits /\ repoEdits' = repoEdits + 1
  /\ \/ /\ policyVersion' \in {repoEdits' + 1, Missing} /\ quietCycle' = FALSE
        /\ UNCHANGED <<work, index, head, locked>>
     \/ /\ work' = [work EXCEPT !["generated"] = Missing] /\ quietCycle' = FALSE
        /\ UNCHANGED <<policyVersion, index, head, locked>>
     \/ /\ ~locked
        /\ work' = [work EXCEPT !["other"] = @ + 1]
        /\ index' \in {index, [index EXCEPT !["other"] = work'["other"]]}
        /\ UNCHANGED <<policyVersion, head, locked, quietCycle>>
     \/ ~locked /\ head' = index /\ UNCHANGED <<policyVersion, work, index, locked, quietCycle>>
     \/ locked' = ~locked /\ UNCHANGED <<policyVersion, work, index, head, quietCycle>>
  /\ UNCHANGED <<openItems, remote, cyclePc, cycleStatus, cycleReview, cycleLog, cycleFailures, cyclesRun,
                 verifiedGen, sweptFiles>>

BootstrapNext ==
  \/ Sense \/ GenerateFix \/ VerifyFix \/ Rollback \/ Stage \/ Commit \/ Push
  \/ CommandRaises
  \/ PersistCycle \/ PersistFailure \/ CycleDies \/ People

BootstrapSpec == BootstrapInit /\ [][BootstrapNext]_bootstrapVars

---------------------------------------------------------------------------
\* Whatever fails, dies or is locked on the way, the index, HEAD and
\* the remote never hold a generated file that no verification passed: what a cycle
\* leaves behind unverified in the working tree is not picked up by a later one.
OnlyVerifiedIsCommitted ==
  {index["generated"], head["generated"], remote["generated"]} \subseteq verifiedGen \cup {Missing}

\* A cycle nobody interfered with ends with the generated file matching the
\* policy, or says FAILED or ROLLED_BACK, unless it was a dry run that met drift
\* or there is no policy.
QuietCycleLeavesFresh ==
  cyclePc = "persist" /\ quietCycle /\ cycleStatus \in {"NOOP", "DEPLOYED"} =>
    policyVersion \in {work["generated"], Missing}
=============================================================================
