---------------------------- MODULE PolicyReload ----------------------------
(***************************************************************************)
(* Hot reload of the policy file (PolicyEngine.maybe_reload, reload and    *)
(* _load of src/policy.py) by the worker threads of concurrent requests:   *)
(* main.py awaits asyncio.to_thread(policy_engine.maybe_reload) and then   *)
(* asyncio.to_thread(policy_engine.evaluate, ...), with no lock.           *)
(*                                                                         *)
(* The content of the file is the number of the edit that wrote it; what   *)
(* the rules say is the subject of PolicyMatch.  An edit may be refused by *)
(* the loader (empty file, invalid rule), and sets a modification time     *)
(* never used before, earlier or later than the last one.                  *)
(***************************************************************************)
EXTENDS Integers, FiniteSets

CONSTANTS
  Worker,        \* threads of concurrent requests
  MaxEdits       \* bound on the edits of the file

ASSUME PolicyReloadAssumption == MaxEdits \in Nat

VARIABLES
  policyFile,    \* the file: [body, mtime, state]
  rulesOf,       \* the content PolicyEngine.rules was built from
  indexOf,       \* the content _jp_index was built from; evaluate reads this one
  lastMtime,     \* PolicyEngine._last_mtime
  reloadPc,      \* where each thread is
  parsed,        \* the content a thread parsed in _load
  usedMtimes,    \* modification times given out so far
  unchanged,     \* history: threads whose request saw no edit and no read error
  lateEdit       \* history: an edit fell between a parse and its stamp

policyReloadVars ==
  <<policyFile, rulesOf, indexOf, lastMtime, reloadPc, parsed, usedMtimes, unchanged, lateEdit>>

engineVars == <<rulesOf, indexOf, lastMtime>>
fileVars == <<policyFile, usedMtimes, lateEdit>>

ReloadPhase == {"idle", "load", "rules", "index", "stamp", "evaluate"}

PolicyReloadInit ==
  /\ policyFile = [body |-> 0, mtime |-> 0, state |-> "good"]
  /\ rulesOf = 0 /\ indexOf = 0 /\ lastMtime = 0
  /\ reloadPc = [w \in Worker |-> "idle"]
  /\ parsed = [w \in Worker |-> 0]
  /\ usedMtimes = {0}
  /\ unchanged = {}
  /\ lateEdit = FALSE

Goto(w, phase) == reloadPc' = [reloadPc EXCEPT ![w] = phase]
Loading == {w \in Worker : reloadPc[w] \in {"rules", "index", "stamp"}}

\* Mutant: the stamp is taken by the check, whether or not the load succeeds.
CheckMtime_Stamps(w) ==
  /\ reloadPc[w] = "idle"
  /\ Goto(w, IF policyFile.state # "absent" /\ policyFile.mtime # lastMtime
             THEN "load" ELSE "evaluate")
  /\ lastMtime' = IF policyFile.state # "absent" THEN policyFile.mtime ELSE lastMtime
  /\ unchanged' = unchanged \cup {w}
  /\ UNCHANGED <<rulesOf, indexOf, fileVars, parsed>>

\* maybe_reload: a file that is not there, or has the stamp's time, is left alone.
CheckMtime(w) ==
  /\ reloadPc[w] = "idle"
  /\ Goto(w, IF policyFile.state # "absent" /\ policyFile.mtime # lastMtime
             THEN "load" ELSE "evaluate")
  /\ unchanged' = unchanged \cup {w}
  /\ UNCHANGED <<engineVars, fileVars, parsed>>

\* _load up to the parsed rules; whatever it raises, reload keeps the old ones.
Parse(w) ==
  /\ reloadPc[w] = "load"
  /\ \/ /\ policyFile.state = "good"
        /\ parsed' = [parsed EXCEPT ![w] = policyFile.body]
        /\ Goto(w, "rules")
        /\ UNCHANGED unchanged
     \/ /\ Goto(w, "evaluate")             \* refused, absent or unreadable now
        /\ unchanged' = unchanged \ {w}
        /\ UNCHANGED parsed
  /\ UNCHANGED <<engineVars, fileVars>>

SetRules(w) ==
  /\ reloadPc[w] = "rules"
  /\ rulesOf' = parsed[w]
  /\ Goto(w, "index")
  /\ UNCHANGED <<indexOf, lastMtime, fileVars, parsed, unchanged>>

SetIndex(w) ==
  /\ reloadPc[w] = "index"
  /\ indexOf' = parsed[w]
  /\ Goto(w, "stamp")
  /\ UNCHANGED <<rulesOf, lastMtime, fileVars, parsed, unchanged>>

\* os.path.getmtime after the load, ignored when the file is gone.
SetStamp(w) ==
  /\ reloadPc[w] = "stamp"
  /\ lastMtime' = IF policyFile.state = "absent" THEN lastMtime ELSE policyFile.mtime
  /\ Goto(w, "evaluate")
  /\ UNCHANGED <<rulesOf, indexOf, fileVars, parsed, unchanged>>

\* evaluate walks the index; the request is over.
EvaluateByIndex(w) ==
  /\ reloadPc[w] = "evaluate"
  /\ Goto(w, "idle")
  /\ unchanged' = unchanged \ {w}
  /\ UNCHANGED <<engineVars, fileVars, parsed>>

\* Somebody edits the file, with a good or a bad content, or takes it away.
Edit ==
  /\ Cardinality(usedMtimes) <= MaxEdits
  /\ \E m \in 0..MaxEdits \ usedMtimes, s \in {"good", "bad", "absent"} :
       /\ policyFile' = [body |-> Cardinality(usedMtimes), mtime |-> m, state |-> s]
       /\ usedMtimes' = usedMtimes \cup {m}
  /\ unchanged' = {}
  /\ lateEdit' = (lateEdit \/ Loading # {})
  /\ UNCHANGED <<engineVars, reloadPc, parsed>>

ReloadStep(w) ==
  \/ CheckMtime(w) \/ Parse(w) \/ SetRules(w) \/ SetIndex(w) \/ SetStamp(w)
  \/ EvaluateByIndex(w)

PolicyReloadNext == Edit \/ \E w \in Worker : ReloadStep(w)

PolicyReloadSpec == PolicyReloadInit /\ [][PolicyReloadNext]_policyReloadVars
-----------------------------------------------------------------------------
\* An edit takes effect without a restart: a request that has checked the
\* file, met no read error and seen no edit since is evaluated by what the
\* file says.
EditTakesEffect ==
  \A w \in unchanged :
    reloadPc[w] = "evaluate" /\ policyFile.state = "good" => indexOf = policyFile.body

\* The same as long as no edit falls between a thread's parse and its stamp:
\* threads that reload at once, refused files, unreadable ones and files with
\* an older time than before never leave rules in force that the file no
\* longer has.
QuietEditTakesEffect == lateEdit \/ EditTakesEffect
=============================================================================
