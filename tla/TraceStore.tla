----------------------------- MODULE TraceStore -----------------------------
(***************************************************************************)
(* One execution trace on disk (src/trace/store.py) and the context manager*)
(* that records it (src/trace/capture.py).  Each step is appended to memory*)
(* and written to a file of its own, then the manifest is rewritten.       *)
(* write_text truncates and then writes, so each file is torn for a moment;*)
(* the process may die then, or any time, and a reader may load any time.  *)
(*                                                                         *)
(* A step file's name is its number in StepDigits digits and the step's    *)
(* name; glob sorts names as strings, where "_" comes after every digit.   *)
(* The model writes numbers in base Radix (10 in the code).                *)
(***************************************************************************)
EXTENDS Integers, Sequences, FiniteSets, Functions, SequencesExt, Ranks

CONSTANTS StepDigits,   \* 3 in the code
          Radix,
          MaxSteps      \* bound on the steps of the trace

ASSUME TraceAssumption == StepDigits \in Nat \ {0} /\ Radix \in Nat \ {0, 1}

VARIABLES
  tracePc,        \* what the recording program is doing
  memSteps,       \* trace.steps in memory
  memStatus,      \* trace.status
  forcedStatus,   \* _forced_status
  stepFiles,      \* steps/: file name -> step or Torn
  manifest,       \* manifest.json: NoManifest, Torn or a record
  returnedSteps,  \* history: steps whose append_step returned
  traceEnd        \* history: how the with block was left

traceVars == <<tracePc, memSteps, memStatus, forcedStatus, stepFiles, manifest,
               returnedSteps, traceEnd>>

Torn == [step |-> 0, status |-> "torn"]
NoManifest == [status |-> "none", steps |-> 0]
TornManifest == [status |-> "torn", steps |-> 0]

Power[k \in Nat] == IF k = 0 THEN 1 ELSE Radix * Power[k - 1]
Underscore == Radix

\* A number padded to w digits, which it may need more of, and what follows it.
FileName(n, w) ==
  LET width == Min({v \in w..(w + n) : n < Power[v]})
  IN  [i \in 1..(width + 1) |-> IF i <= width THEN (n \div Power[width - i]) % Radix ELSE Underscore]

\* Mutant: the number is not padded.
StepFile_Unpadded(n) == FileName(n, 1)

\* _step_path
StepFile(n) == FileName(n, StepDigits)

\* Order of file names as strings.
Before(f, g) ==
  \E i \in 1..Len(f) :
    /\ i <= Len(g) /\ f[i] < g[i]
    /\ \A j \in 1..(i - 1) : f[j] = g[j]

\* glob("*.json"), sorted; names differ before either ends.
StepGlob ==
  LET names == DOMAIN stepFiles
      before == {e \in names \X names : Before(e[1], e[2])}
  IN  [n \in 1..Cardinality(names) |-> AtRank(names, before, n)]

\* load: raises on a missing or torn manifest, and on any torn step.
TraceLoadable ==
  /\ manifest \notin {NoManifest, TornManifest}
  /\ \A f \in DOMAIN stepFiles : stepFiles[f] # Torn
Loaded == [i \in 1..Len(StepGlob) |-> stepFiles[StepGlob[i]].step]

TraceInit ==
  /\ tracePc = "create" /\ memSteps = <<>> /\ memStatus = "running" /\ forcedStatus = "none"
  /\ stepFiles = <<>> /\ manifest = NoManifest
  /\ returnedSteps = <<>> /\ traceEnd = "none"

TraceGoto(pc) == tracePc' = pc

\* create, append_step, add_artifact and finalize all end in _write_manifest.
Rewrite == [create |-> "body", refresh |-> "body", finalize |-> "done"]
Writing == [create |-> "creating", refresh |-> "refreshing", finalize |-> "finalizing"]

\* It truncates the file,
ManifestTruncate ==
  \E op \in DOMAIN Rewrite :
    /\ tracePc = op
    /\ manifest' = TornManifest
    /\ TraceGoto(Writing[op])
    /\ UNCHANGED <<memSteps, memStatus, forcedStatus, stepFiles, returnedSteps, traceEnd>>

\* and writes it.
ManifestWrite ==
  \E op \in DOMAIN Rewrite :
    /\ tracePc = Writing[op]
    /\ manifest' = [status |-> memStatus, steps |-> Len(memSteps)]
    /\ returnedSteps' = IF op = "refresh" THEN memSteps ELSE returnedSteps
    /\ TraceGoto(Rewrite[op])
    /\ UNCHANGED <<memSteps, memStatus, forcedStatus, stepFiles, traceEnd>>

\* add_artifact: its file, then the manifest.
AddArtifact ==
  /\ tracePc = "body" /\ TraceGoto("refresh")
  /\ UNCHANGED <<memSteps, memStatus, forcedStatus, stepFiles, manifest, returnedSteps, traceEnd>>

\* append_step: in memory, and the step's file is opened; fail() appends a step
\* of status failed and marks the capture before it does.
AppendStep ==
  /\ tracePc = "body" /\ Len(memSteps) < MaxSteps
  /\ memSteps' = Append(memSteps, Len(memSteps) + 1)
  /\ stepFiles' = [f \in DOMAIN stepFiles \cup {StepFile(Len(memSteps'))} |->
                     IF f = StepFile(Len(memSteps')) THEN Torn ELSE stepFiles[f]]
  /\ \/ TraceGoto("step") /\ UNCHANGED forcedStatus
     \/ TraceGoto("failstep") /\ forcedStatus' = "failed"
  /\ UNCHANGED <<memStatus, manifest, returnedSteps, traceEnd>>

StepWrite ==
  /\ tracePc \in {"step", "failstep"}
  /\ stepFiles' = [stepFiles EXCEPT ![StepFile(Len(memSteps))] =
                     [step |-> Len(memSteps), status |-> IF tracePc = "step" THEN "ok" ELSE "failed"]]
  /\ TraceGoto("refresh")
  /\ UNCHANGED <<memSteps, memStatus, forcedStatus, manifest, returnedSteps, traceEnd>>

\* Mutant: the exit forgets the explicit mark.
Leave_IgnoresMark ==
  /\ tracePc = "body"
  /\ traceEnd' \in {"returned", "raised"}
  /\ memStatus' = IF traceEnd' = "returned" THEN "ok" ELSE "failed"
  /\ TraceGoto("finalize")
  /\ UNCHANGED <<memSteps, forcedStatus, stepFiles, manifest, returnedSteps>>

\* __exit__: by return or exception, and finalize in memory.
Leave ==
  /\ tracePc = "body"
  /\ traceEnd' \in {"returned", "raised"}
  /\ memStatus' = IF forcedStatus = "failed" \/ traceEnd' = "raised" THEN "failed" ELSE "ok"
  /\ TraceGoto("finalize")
  /\ UNCHANGED <<memSteps, forcedStatus, stepFiles, manifest, returnedSteps>>

\* The disk refuses a write: the exception leaves the with block, whose exit
\* writes the manifest once more.  In create there is no with block yet.
DiskRefuses ==
  /\ \/ /\ tracePc \in {"step", "failstep", Writing["refresh"]}
        /\ TraceGoto("finalize") /\ memStatus' = "failed" /\ traceEnd' = "raised"
     \/ /\ tracePc \in {Writing["create"], Writing["finalize"]}
        /\ TraceGoto("dead") /\ UNCHANGED <<memStatus, traceEnd>>
  /\ UNCHANGED <<memSteps, forcedStatus, stepFiles, manifest, returnedSteps>>

RecorderDies ==
  /\ tracePc \notin {"done", "dead"}
  /\ TraceGoto("dead")
  /\ UNCHANGED <<memSteps, memStatus, forcedStatus, stepFiles, manifest, returnedSteps, traceEnd>>

TraceNext == ManifestTruncate \/ ManifestWrite \/ AddArtifact \/ AppendStep \/ StepWrite \/ Leave
             \/ DiskRefuses \/ RecorderDies
TraceSpec == TraceInit /\ [][TraceNext]_traceVars

---------------------------------------------------------------------------
\* Whenever a trace can be loaded, while it is recorded, after a crash or a full
\* disk, load returns every step whose append_step returned, in order, and at
\* most one that did not return - as long as the numbers fit in their digits.
LoadReturnsRecorded ==
  TraceLoadable /\ Len(memSteps) < Power[StepDigits] =>
    IsPrefix(returnedSteps, Loaded) /\ Len(Loaded) <= Len(returnedSteps) + 1

\* A trace whose manifest says ok holds no step that fail() recorded.
FailedTraceIsNotOk ==
  manifest.status = "ok" => \A f \in DOMAIN stepFiles : stepFiles[f].status # "failed"
=============================================================================
