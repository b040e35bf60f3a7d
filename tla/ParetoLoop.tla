----------------------------- MODULE ParetoLoop -----------------------------
(***************************************************************************)
(* The Pareto frontier (src/pareto/frontier.py) and the evolution loop that*)
(* feeds it (src/pareto/loop.py): each round proposes a candidate, or none,*)
(* scores it, which may raise, and merges it if the frontier accepts it or *)
(* the policy is "any".  The proposer may raise, which ends the run, and   *)
(* may propose a candidate of an earlier round again; run may be called    *)
(* again on the same loop.                                                 *)
(***************************************************************************)
EXTENDS Integers, Sequences, FiniteSets

CONSTANTS Candidates, Quality, Cost, MaxRounds, MaxLoopRuns

\* Floating-point numbers in the code, of which only the order matters.
ASSUME ParetoAssumption == Quality \subseteq Int /\ Cost \subseteq Int

VARIABLES
  frontier,       \* _points: candidate -> score
  merged,         \* LoopResult.merged of the current run
  mergePolicy, roundIdx, loopPc, loopRuns,
  roundTrace,     \* status the trace of the last round was left with
  scoredBy        \* history: every score a candidate was given

paretoVars == <<frontier, merged, mergePolicy, roundIdx, loopPc, loopRuns, roundTrace, scoredBy>>

Scores == [quality : Quality, cost : Cost]

Dominates(a, b) ==
  /\ a.quality >= b.quality /\ a.cost <= b.cost
  /\ a.quality > b.quality \/ a.cost < b.cost

\* ParetoFrontier.insert: whether it accepts, and the points it leaves.
Accepts(points, id, s) ==
  /\ ~(id \in DOMAIN points /\ points[id] = s)
  /\ \A p \in DOMAIN points : ~Dominates(points[p], s)

\* Mutant: only the candidate's own older point makes room.
Inserted_KeepsBeaten(points, id, s) ==
  [p \in DOMAIN points \cup {id} |-> IF p = id THEN s ELSE points[p]]

Inserted(points, id, s) ==
  LET kept == {p \in DOMAIN points : ~Dominates(s, points[p])}
  IN  [p \in kept \cup {id} |-> IF p = id THEN s ELSE points[p]]

ParetoInit ==
  /\ frontier = <<>> /\ merged = <<>>
  /\ mergePolicy \in {"strict", "any"}
  /\ roundIdx = 1 /\ loopPc = "round" /\ loopRuns = 1 /\ roundTrace = "none"
  /\ scoredBy = {}

NextRound == /\ roundIdx' = roundIdx + 1
             /\ loopPc' = IF roundIdx = MaxRounds THEN "returned" ELSE "round"

\* No candidate: the round's trace is left in good order.
NoCandidate ==
  /\ loopPc = "round"
  /\ roundTrace' = "ok" /\ NextRound
  /\ UNCHANGED <<frontier, merged, mergePolicy, loopRuns, scoredBy>>

ScoringFails ==
  /\ loopPc = "round"
  /\ roundTrace' = "failed" /\ NextRound
  /\ UNCHANGED <<frontier, merged, mergePolicy, loopRuns, scoredBy>>

\* A candidate is scored, inserted and judged; the branch that should hold
\* the strict policy back does nothing.
Judge ==
  /\ loopPc = "round"
  /\ \E id \in Candidates, s \in Scores :
       LET accepted == Accepts(frontier, id, s)
           merge == accepted \/ mergePolicy = "any"
       IN  /\ frontier' = IF accepted THEN Inserted(frontier, id, s) ELSE frontier
           /\ merged' = IF merge /\ \A i \in DOMAIN merged : merged[i] # id
                        THEN Append(merged, id) ELSE merged
           /\ scoredBy' = scoredBy \cup {<<id, s>>}
  /\ roundTrace' = "ok" /\ NextRound
  /\ UNCHANGED <<mergePolicy, loopRuns>>

\* The proposer's exception leaves run, and what it had merged is lost with it.
ProposerRaises ==
  /\ loopPc = "round"
  /\ loopPc' = "raised" /\ roundTrace' = "failed"
  /\ UNCHANGED <<frontier, merged, mergePolicy, roundIdx, loopRuns, scoredBy>>

\* run again: a new result over the same frontier.
RunAgain ==
  /\ loopPc \in {"returned", "raised"} /\ loopRuns < MaxLoopRuns
  /\ loopRuns' = loopRuns + 1
  /\ merged' = <<>> /\ roundIdx' = 1 /\ loopPc' = "round"
  /\ UNCHANGED <<frontier, mergePolicy, roundTrace, scoredBy>>

ParetoNext == NoCandidate \/ ScoringFails \/ Judge \/ ProposerRaises \/ RunAgain
ParetoSpec == ParetoInit /\ [][ParetoNext]_paretoVars

---------------------------------------------------------------------------
\* While every candidate is scored the same each time, the points kept step by
\* step are the Pareto set of everything scored so far, whatever the order of
\* the rounds (ParetoFrontier.insert against the definition in its docstring).
FrontierIsParetoSet ==
  (\A a, b \in scoredBy : a[1] = b[1] => a = b) =>
    {<<id, frontier[id]>> : id \in DOMAIN frontier}
      = {a \in scoredBy : \A b \in scoredBy : ~Dominates(b[2], a[2])}
=============================================================================
