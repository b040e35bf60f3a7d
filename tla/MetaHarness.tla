---------------------------- MODULE MetaHarness ----------------------------
(***************************************************************************)
(* The optimisation loop over the policy file (src/meta_harness): the      *)
(* adapter's scan proposes DENY rules for endpoints the gateway keeps      *)
(* denying, an LLM proposes others, each candidate is validated against    *)
(* the current file and checked for conflicts, and what a human accepts is *)
(* merged into the file after a backup.  Somebody else may write the file  *)
(* between evaluation and deployment and while a deployment runs, up to    *)
(* the write_text that truncates and fills it; the deploying process may   *)
(* die between two of its file operations.                                 *)
(*                                                                         *)
(* A rule is a record of name, endpoint (path and method, or AnyEndpoint), *)
(* action and priority; a file is a sequence of rules or TornFile.         *)
(***************************************************************************)
EXTENDS Integers, Sequences, FiniteSets, Ranks

CONSTANTS
  Endpoint, AnyEndpoint,
  BaseFile,       \* policy files to start from
  LlmRules,       \* rule lists an LLM may answer with, loadable or not
  MinCount,       \* DEFAULT_MIN_COUNT
  MaxDeploys      \* bound on deployments started

VARIABLES
  policies,       \* config/policies.yaml
  backups,        \* second -> content of policies.yaml.bak-<second>
  second,
  denied,         \* DENY decisions per endpoint within the window
  pending,        \* candidates: sequences of rules
  deployable,     \* candidates an evaluation found deployable
  deployPc, deploying, existing,
  deploys,
  lastWhole,      \* history: the last whole content of the file
  lateEdit,       \* history: an edit came between a deployment's backup and its
                  \* truncation
  overlaid        \* history: a torn file was backed up over a backup made in the
                  \* same second

harnessVars == <<policies, backups, second, denied, pending, deployable, deployPc, deploying,
                 existing, deploys, lastWhole, lateEdit, overlaid>>

TornFile == <<[name |-> <<"torn">>, at |-> "torn", action |-> "torn", priority |-> 0]>>
Bad == "BAD"               \* an action the policy engine refuses to load

Rules(file) == IF file = TornFile THEN <<>> ELSE file    \* _load_policies
LoadsAll(rules) == \A i \in DOMAIN rules : rules[i].action # Bad

\* People keep the file loadable; an LLM may answer with any list.
IsRuleList(file) == file \in Seq({file[i] : i \in DOMAIN file})
ASSUME HarnessAssumption ==
  /\ \A file \in BaseFile : IsRuleList(file) /\ LoadsAll(file)
  /\ \A rules \in LlmRules : IsRuleList(rules)

\* PolicyEngine.evaluate without a body: priority order, then file order.
Covers(rules, i, e) == rules[i].at \in {e, AnyEndpoint}
First(rules, e) ==
  {i \in DOMAIN rules :
     /\ Covers(rules, i, e)
     /\ \A j \in DOMAIN rules : Covers(rules, j, e) =>
          rules[i].priority < rules[j].priority \/ (rules[i].priority = rules[j].priority /\ i <= j)}

HarnessInit ==
  /\ policies \in BaseFile /\ backups = <<>> /\ second = 0
  /\ denied = [e \in Endpoint |-> 0]
  /\ pending = {} /\ deployable = {}
  /\ deployPc = "idle" /\ deploying = <<>> /\ existing = <<>> /\ deploys = 0
  /\ lastWhole = policies /\ lateEdit = FALSE /\ overlaid = FALSE

\* The gateway denies a request, by a rule or by its heuristics.
Deny(e) ==
  /\ denied[e] < MinCount
  /\ \A i \in First(Rules(policies), e) : Rules(policies)[i].action = "DENY"
  /\ denied' = [denied EXCEPT ![e] = @ + 1]
  /\ UNCHANGED <<policies, backups, second, pending, deployable, deployPc, deploying, existing,
                 deploys, lastWhole, lateEdit, overlaid>>

\* Denials grow older than the window.
WindowPasses(e) ==
  /\ denied[e] > 0
  /\ denied' = [denied EXCEPT ![e] = 0]
  /\ UNCHANGED <<policies, backups, second, pending, deployable, deployPc, deploying, existing,
                 deploys, lastWhole, lateEdit, overlaid>>

CoveringAction == {"DENY", "ESCALATE", "ALLOW_WITH_WARNING", "SUSPEND"}

\* generate_policy_suggestions: without a loadable file nothing counts as covered.
\* The rule's name has the time of the scan (and, with the same rule, a hash of
\* the tool its denials were counted by).
Suggested ==
  {<<[name |-> <<"auto", e, second>>, at |-> e, action |-> "DENY", priority |-> 90]>> :
     e \in {x \in Endpoint :
              /\ denied[x] >= MinCount
              /\ policies # TornFile =>
                   \A i \in First(policies, x) : policies[i].action \notin CoveringAction}}

Scan ==
  /\ Suggested \notin SUBSET pending
  /\ pending' = pending \cup Suggested
  /\ UNCHANGED <<policies, backups, second, denied, deployable, deployPc, deploying, existing,
                 deploys, lastWhole, lateEdit, overlaid>>

\* Mutant: the candidate is judged by the file it would be merged into.
Validates_FileOnly(candidate, file) == file # TornFile /\ LoadsAll(file)

\* validate_candidate: the file's rules and the candidate's load together; an
\* empty file has no rules to merge with and raises.
Validates(candidate, file) ==
  file # TornFile /\ LoadsAll(file \o candidate)

\* LLMProposer.propose: what does not validate is dropped.
Propose ==
  \E candidate \in LlmRules :
    /\ candidate \notin pending
    /\ Validates(candidate, policies)
    /\ pending' = pending \cup {candidate}
    /\ UNCHANGED <<policies, backups, second, denied, deployable, deployPc, deploying, existing,
                   deploys, lastWhole, lateEdit, overlaid>>

Contradict(r, s) == r.at = s.at /\ r.action # s.action

\* check_conflicts, severity HIGH.
Conflicts(candidate, file) ==
  {p \in (DOMAIN candidate) \X (DOMAIN file) : Contradict(candidate[p[1]], file[p[2]])}

\* evaluate_candidate_in_sandbox; its regression tests may fail.
EvaluateCandidate ==
  \E candidate \in pending :
    /\ Validates(candidate, policies)
    /\ Conflicts(candidate, policies) = {}
    /\ candidate \notin deployable
    /\ deployable' = deployable \cup {candidate}
    /\ UNCHANGED <<policies, backups, second, denied, pending, deployPc, deploying, existing,
                   deploys, lastWhole, lateEdit, overlaid>>

\* deploy_candidate, for a candidate some evaluation found deployable: it reads
\* the file,
DeployRead ==
  /\ deployPc = "idle" /\ deploys < MaxDeploys
  /\ deploying' \in deployable
  /\ existing' = Rules(policies)
  /\ deployPc' = "backup" /\ deploys' = deploys + 1
  /\ UNCHANGED <<policies, backups, second, denied, pending, deployable, lastWhole, lateEdit, overlaid>>

\* Mutant: every backup has the same name.
DeployBackup_OneName ==
  /\ deployPc = "backup"
  /\ backups' = [s \in {0} |-> policies]
  /\ overlaid' = (overlaid \/ (policies = TornFile /\ second \in DOMAIN backups))
  /\ deployPc' = "truncate"
  /\ UNCHANGED <<policies, second, denied, pending, deployable, deploying, existing, deploys,
                 lastWhole, lateEdit>>

BackUp(content) ==
  /\ backups' = [s \in DOMAIN backups \cup {second} |-> IF s = second THEN content ELSE backups[s]]
  /\ overlaid' = (overlaid \/ (policies = TornFile /\ second \in DOMAIN backups))

\* copies it, whole or not, to a backup named for the second,
DeployBackup ==
  /\ deployPc = "backup"
  /\ BackUp(policies)
  /\ deployPc' = "truncate"
  /\ UNCHANGED <<policies, second, denied, pending, deployable, deploying, existing, deploys,
                 lastWhole, lateEdit>>

DeployTruncate ==
  /\ deployPc = "truncate"
  /\ policies' = TornFile
  /\ deployPc' = "write"
  /\ UNCHANGED <<backups, second, denied, pending, deployable, deploying, existing, deploys,
                 lastWhole, lateEdit, overlaid>>

\* A candidate's rule goes last and, if the file has rules of its name, replaces
\* all of them, the candidate's own earlier ones too.
Stays ==
  {i \in DOMAIN existing : \A j \in DOMAIN deploying : deploying[j].name # existing[i].name}
Outlasts ==
  {i \in DOMAIN deploying :
     (\E j \in DOMAIN existing : existing[j].name = deploying[i].name) =>
       \A k \in DOMAIN deploying : k > i => deploying[k].name # deploying[i].name}

\* What a list has at these places, in its order.
Picked(list, places) ==
  LET before == {e \in places \X places : e[1] < e[2]}
  IN  [n \in 1..Cardinality(places) |-> list[AtRank(places, before, n)]]
Kept == Picked(existing, Stays)
Added == Picked(deploying, Outlasts)

\* and writes the merged rules.
DeployWrite ==
  /\ deployPc = "write"
  /\ policies' = Kept \o Added /\ lastWhole' = policies'
  /\ deployPc' = "idle"
  /\ UNCHANGED <<backups, second, denied, pending, deployable, deploying, existing, deploys,
                 lateEdit, overlaid>>

\* The process dies, its backup perhaps truncated and not yet filled; it can be
\* started again within the second.
DeployDies ==
  /\ deployPc # "idle"
  /\ deployPc' = "idle"
  /\ \/ UNCHANGED <<backups, overlaid>>
     \/ deployPc = "backup" /\ BackUp(TornFile)
  /\ UNCHANGED <<policies, second, denied, pending, deployable, deploying, existing, deploys,
                 lastWhole, lateEdit>>

SecondPasses ==
  /\ second < MaxDeploys
  /\ second' = second + 1
  /\ UNCHANGED <<policies, backups, denied, pending, deployable, deployPc, deploying, existing,
                 deploys, lastWhole, lateEdit, overlaid>>

\* Somebody edits the file, or puts a backup back.
EditPolicies ==
  /\ deployPc # "write"
  /\ policies' \in (BaseFile \cup {backups[s] : s \in DOMAIN backups}) \ {TornFile, policies}
  /\ lastWhole' = policies'
  /\ lateEdit' = (lateEdit \/ deployPc = "truncate")
  /\ UNCHANGED <<backups, second, denied, pending, deployable, deployPc, deploying, existing,
                 deploys, overlaid>>

HarnessNext ==
  \/ \E e \in Endpoint : Deny(e) \/ WindowPasses(e)
  \/ Scan \/ Propose \/ EvaluateCandidate
  \/ DeployRead \/ DeployBackup \/ DeployTruncate \/ DeployWrite \/ DeployDies
  \/ SecondPasses \/ EditPolicies

HarnessSpec == HarnessInit /\ [][HarnessNext]_harnessVars

---------------------------------------------------------------------------
Copies == {policies} \cup {backups[s] : s \in DOMAIN backups}

\* A deployment can be undone, and survived: the last whole content of the
\* policy file is the file or one of its backups, also after deployments that
\* died anywhere and were run again, and after edits while they ran
\* (deploy_candidate, backup=True).  Two things can lose it, and nothing else:
\* an edit that came after the backup was read, and a torn file backed up over
\* a backup of the same second.
LastContentSurvives == ~lateEdit /\ ~overlaid => lastWhole \in Copies

\* A verdict may be stale, of another file than the one its candidate is merged
\* into, and candidates may replace and outlast each other's rules: given people
\* who write loadable files, what a deployment leaves is a file all of whose
\* rules the engine loads (deploy_candidate does not validate again).
DeployedFileLoads == LoadsAll(Rules(policies))
=============================================================================
