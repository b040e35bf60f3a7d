---------------------------- MODULE DecisionLog ----------------------------
(***************************************************************************)
(* What src/src/storage.py promises of the decisions handed to it: a saved *)
(* decision is in memory until it is somewhere durable (the decisions      *)
(* table or the fallback log), what is durable stays, and a decision can   *)
(* vanish in two ways only: the fallback log cannot be written, or the     *)
(* process ends with the decision still in memory.  No buffer, batch,      *)
(* transaction or retry is visible.  Storage.tla is shown to implement it. *)
(***************************************************************************)
EXTENDS Naturals

VARIABLES
  saved,    \* decisions accepted so far: 1 .. saved, in order of arrival
  held,     \* decisions in the memory of the process
  durable,  \* decisions in the database or in the fallback log
  dropped,  \* decisions the disk refused
  boot      \* how often the process was started again

logVars == <<saved, held, durable, dropped, boot>>

LogInit ==
  /\ saved = 0
  /\ held = {}
  /\ durable = {}
  /\ dropped = {}
  /\ boot = 0

\* Decisions move from memory to durable storage, perhaps leaving a copy in
\* memory; those that leave memory are durable, or the disk refused them (a
\* row of theirs may still turn up).
Settle(inMemory) ==
  /\ held' \subseteq inMemory
  /\ durable \subseteq durable'
  /\ durable' \subseteq durable \cup inMemory \cup dropped
  /\ dropped \subseteq dropped'
  /\ dropped' \subseteq dropped \cup inMemory
  /\ inMemory \ held' \subseteq durable' \cup dropped'

\* Accepting a decision may settle decisions accepted before.
AcceptDecision ==
  /\ saved' = saved + 1
  /\ Settle(held \cup {saved'})
  /\ UNCHANGED boot

SettleDecisions ==
  /\ Settle(held)
  /\ UNCHANGED <<saved, boot>>

EndProcess ==
  /\ held' = {}
  /\ boot' = boot + 1
  /\ UNCHANGED <<saved, durable, dropped>>

LogNext == AcceptDecision \/ SettleDecisions \/ EndProcess

LogSpec == LogInit /\ [][LogNext]_logVars
=============================================================================
