-------------------------- MODULE LethalityReload --------------------------
(***************************************************************************)
(* Hot reload of the lethality weights (src/lethality.py): three module    *)
(* globals set by the worker threads of concurrent requests, main.py       *)
(* awaiting asyncio.to_thread(maybe_reload_lethality) on every request.    *)
(* Unlike the policy file, the stamp is taken BEFORE the load, except at   *)
(* import time.                                                            *)
(*                                                                         *)
(* A content is the number of the edit that wrote it: the validated map    *)
(* from tool names to weights, which lethality_for_tool looks up.          *)
(***************************************************************************)
EXTENDS Integers, FiniteSets

CONSTANTS
  LethWorker,        \* threads of concurrent requests
  LethMaxEdits       \* bound on the edits of the file

ASSUME LethalityAssumption == LethMaxEdits \in Nat

VARIABLES
  weightFile,        \* the file: [body, mtime, state]
  table,             \* content of TOOL_LETHALITY
  lethMtime,         \* _lethality_mtime
  lethPc,            \* where each thread is; all wait for the import
  statted,           \* st_mtime a thread took
  loaded,            \* content a thread loaded
  weightMtimes,      \* modification times given out so far
  undisturbed,       \* history: threads whose request saw no edit and no read error
  mixedInstall       \* history: loads of different contents overlapped, or an
                     \* edit fell into the import

lethVars == <<weightFile, table, lethMtime, lethPc, statted, loaded, weightMtimes,
              undisturbed, mixedInstall>>

tableVars == <<table, lethMtime>>
weightVars == <<weightFile, weightMtimes>>

LethInit ==
  /\ weightFile = [body |-> 0, mtime |-> 0, state |-> "good"]
  /\ table = 0
  /\ lethMtime = -1
  /\ lethPc = [w \in LethWorker |-> "import"]
  /\ statted = [w \in LethWorker |-> 0] /\ loaded = [w \in LethWorker |-> 0]
  /\ weightMtimes = {0}
  /\ undisturbed = {}
  /\ mixedInstall = FALSE

LethGoto(w, phase) == lethPc' = [lethPc EXCEPT ![w] = phase]
Installing == {w \in LethWorker : lethPc[w] \in {"table", "mtime"}}

\* _bootstrap: the table was loaded (a bad file refuses the start), now its
\* time is taken; None when the file is gone.
Import ==
  /\ \A w \in LethWorker : lethPc[w] = "import"
  /\ lethMtime' = IF weightFile.state = "absent" THEN -1 ELSE weightFile.mtime
  /\ lethPc' = [w \in LethWorker |-> "idle"]
  /\ UNCHANGED <<table, weightVars, statted, loaded, undisturbed, mixedInstall>>

\* maybe_reload_lethality
CheckWeights(w) ==
  /\ lethPc[w] = "idle"
  /\ LethGoto(w, IF weightFile.state # "absent" /\ weightFile.mtime # lethMtime
                 THEN "stat" ELSE "use")
  /\ undisturbed' = undisturbed \cup {w}
  /\ UNCHANGED <<tableVars, weightVars, statted, loaded, mixedInstall>>

KeepTable(w) ==
  /\ LethGoto(w, "use")
  /\ undisturbed' = undisturbed \ {w}

\* reload_lethality_table: stat, then load and validate; any error keeps the table.
StatWeights(w) ==
  /\ lethPc[w] = "stat"
  /\ \/ /\ weightFile.state # "absent"
        /\ statted' = [statted EXCEPT ![w] = weightFile.mtime]
        /\ LethGoto(w, "load")
        /\ UNCHANGED undisturbed
     \/ /\ weightFile.state = "absent" /\ KeepTable(w) /\ UNCHANGED statted
  /\ UNCHANGED <<tableVars, weightVars, loaded, mixedInstall>>

LoadWeights(w) ==
  /\ lethPc[w] = "load"
  /\ \/ /\ weightFile.state = "good"
        /\ loaded' = [loaded EXCEPT ![w] = weightFile.body]
        /\ LethGoto(w, "table")
        /\ mixedInstall' = (mixedInstall \/ \E v \in Installing :
                              \/ loaded[v] # weightFile.body
                              \/ statted[v] # statted[w])
        /\ UNCHANGED undisturbed
     \/ KeepTable(w) /\ UNCHANGED <<loaded, mixedInstall>>
  /\ UNCHANGED <<tableVars, weightVars, statted>>

SetTable(w) ==
  /\ lethPc[w] = "table"
  /\ table' = loaded[w]
  /\ LethGoto(w, "mtime")
  /\ UNCHANGED <<lethMtime, weightVars, statted, loaded, undisturbed, mixedInstall>>

\* Mutant: the time is read again after the load, as policy.py does.
SetMtime_Late(w) ==
  /\ lethPc[w] = "mtime"
  /\ lethMtime' = weightFile.mtime
  /\ LethGoto(w, "use")
  /\ UNCHANGED <<table, weightVars, statted, loaded, undisturbed, mixedInstall>>

SetMtime(w) ==
  /\ lethPc[w] = "mtime"
  /\ lethMtime' = statted[w]
  /\ LethGoto(w, "use")
  /\ UNCHANGED <<table, weightVars, statted, loaded, undisturbed, mixedInstall>>

\* lethality_for_tool reads the table for the decision's record.
LookUp(w) ==
  /\ lethPc[w] = "use"
  /\ LethGoto(w, "idle")
  /\ undisturbed' = undisturbed \ {w}
  /\ UNCHANGED <<tableVars, weightVars, statted, loaded, mixedInstall>>

EditWeights ==
  /\ Cardinality(weightMtimes) <= LethMaxEdits
  /\ \E m \in 0..LethMaxEdits \ weightMtimes, s \in {"good", "bad", "absent"} :
       /\ weightFile' = [body |-> Cardinality(weightMtimes), mtime |-> m, state |-> s]
       /\ weightMtimes' = weightMtimes \cup {m}
  /\ undisturbed' = {}
  /\ mixedInstall' = (mixedInstall \/ \E w \in LethWorker : lethPc[w] = "import")
  /\ UNCHANGED <<tableVars, lethPc, statted, loaded>>

LethStep(w) ==
  \/ CheckWeights(w) \/ StatWeights(w) \/ LoadWeights(w) \/ SetTable(w) \/ SetMtime(w)
  \/ LookUp(w)

LethNext == Import \/ EditWeights \/ \E w \in LethWorker : LethStep(w)

LethSpec == LethInit /\ [][LethNext]_lethVars
-----------------------------------------------------------------------------
\* No edit of the weights is ever lost to a load in progress: as long as loads
\* of different contents do not overlap, a request that met no edit and no read
\* error since its check records the weights of the file, edits between another
\* thread's stat and load included.
WeightsCatchUp ==
  mixedInstall \/ \A w \in undisturbed :
    lethPc[w] = "use" /\ weightFile.state = "good" => table = weightFile.body
=============================================================================
