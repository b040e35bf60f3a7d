----------------------------- MODULE MCStorage -----------------------------
(***************************************************************************)
(* Storage as TLC runs it (the .cfg files give the constants), and a       *)
(* sentence of the repository about shutdown that the code does not keep.  *)
(***************************************************************************)
EXTENDS Storage

\* A graceful end of the gateway retries the flush once "so the last
\* decisions are not lost silently" (main.py, _flush_pending_on_shutdown):
\* when the process ends, every pending record that a retry met is in the
\* table, in the fallback log, or was reported as refused by the disk.
ShutdownKeepsDecisions ==
  [][Exit => \A d \in ToSet(pending) :
               tries[d] > 0 => d \in table \cup log \cup dropped]_storageVars
=============================================================================
