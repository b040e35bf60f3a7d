------------------------------ MODULE Observer ------------------------------
(***************************************************************************)
(* The metacognition observer (src/metacognition/observer.py): a table of  *)
(* decision contexts, each with the trail of what led to the verdict       *)
(* (cot).  record runs in a worker thread, append_drift and append_semantic*)
(* on the event loop; the observer's lock makes each of them one step.     *)
(*                                                                         *)
(* Every call ends in a commit or in an error that is only logged.  Nobody *)
(* rolls back after an error: what the call wrote stays in the connection's*)
(* open transaction, to be seen by the next call and committed with it,    *)
(* unless the database itself gave the transaction up.                     *)
(*                                                                         *)
(* Rows are kept in the order of their timestamps, which are taken inside  *)
(* the lock; their statistics (deviation flag and score) are left out.  A  *)
(* trail is a sequence of steps [kind, says], says being the markers that  *)
(* its JSON holds as a string of its own.  record writes it as one step,   *)
(* "base" if its text ends in a bracket and "cut" if _build_cot (main.py), *)
(* cutting at COT_MAX_CHARS, left it no such end.                          *)
(***************************************************************************)
EXTENDS Integers, Sequences, FiniteSets

CONSTANTS
  MetaId,           \* decision ids
  Mentions,         \* sets of markers that a request or the judge's flags name
  MaxMetaRows,      \* max_meta_rows (at least 10 in the code)
  MaxMetaErrors     \* bound of the model: database errors

EventKind == {"semantic_judge", "context_drift"}

ASSUME ObserverAssumption ==
  /\ MaxMetaRows \in Nat \ {0} /\ MaxMetaErrors \in Nat
  /\ Mentions \subseteq SUBSET EventKind

VARIABLES
  meta,             \* decision_meta as the connection sees it, oldest row first
  metaSaved,        \* decision_meta as last committed
  metaErrors,       \* database errors so far
  inserted,         \* history: decisions whose row was inserted, in order
  recorded          \* history: decisions whose record committed

observerVars == <<meta, metaSaved, metaErrors, inserted, recorded>>

ObserverInit ==
  meta = <<>> /\ metaSaved = <<>> /\ metaErrors = 0 /\ inserted = <<>> /\ recorded = {}

LastRows(rows, n) == SubSeq(rows, IF Len(rows) > n THEN Len(rows) - n + 1 ELSE 1, Len(rows))

MetaError == metaErrors < MaxMetaErrors /\ metaErrors' = metaErrors + 1

\* _trim_locked: the newest rows stay; its error is swallowed, and all stay.
Trims(rows) ==
  \/ meta' = LastRows(rows, MaxMetaRows) /\ UNCHANGED metaErrors
  \/ meta' = rows /\ MetaError

Record(id, cot) ==
  /\ Trims(Append(meta, [id |-> id, cot |-> cot]))
  /\ metaSaved' = meta'
  /\ inserted' = Append(inserted, id)
  /\ recorded' = recorded \cup {id}

\* What an error leaves of the transaction when nothing was written by the call.
Fails == meta' \in {meta, metaSaved} /\ MetaError

\* Fail-soft: the request goes on, with no row or with one that is not committed.
RecordFails(id, cot) ==
  /\ \/ Fails /\ UNCHANGED inserted
     \/ /\ meta' = LastRows(Append(meta, [id |-> id, cot |-> cot]), MaxMetaRows)
        /\ MetaError
        /\ inserted' = Append(inserted, id)
  /\ UNCHANGED <<metaSaved, recorded>>

\* The marker is looked for in the whole text of the trail.
HasStep(cot, kind) == \E i \in DOMAIN cot : cot[i].kind = kind \/ kind \in cot[i].says

\* A text that does not end in a bracket is replaced.
Appended(cot, step) ==
  IF Len(cot) = 1 /\ cot[1].kind = "cut" THEN <<step>> ELSE Append(cot, step)

RowsOf(id) == {r \in DOMAIN meta : meta[r].id = id}

\* A row that is not there (yet, or any more) or has the marker is left alone.
Appends(id, step) == \E r \in RowsOf(id) : ~HasStep(meta[r].cot, step.kind)
WithStep(id, step) ==
  [r \in DOMAIN meta |->
     IF r \in RowsOf(id) THEN [meta[r] EXCEPT !.cot = Appended(@, step)] ELSE meta[r]]

\* _append_event_locked
AppendEvent(id, step) ==
  /\ IF Appends(id, step) THEN meta' = WithStep(id, step) /\ metaSaved' = meta'
     ELSE UNCHANGED <<meta, metaSaved>>
  /\ UNCHANGED <<metaErrors, inserted, recorded>>

AppendFails(id, step) ==
  /\ Fails \/ (Appends(id, step) /\ meta' = WithStep(id, step) /\ MetaError)
  /\ UNCHANGED <<metaSaved, inserted, recorded>>
=============================================================================
