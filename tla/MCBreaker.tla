----------------------------- MODULE MCBreaker -----------------------------
(***************************************************************************)
(* Breaker as TLC runs it (the .cfg files give the constants), and what    *)
(* the repository says of a restart, which the code does not keep.         *)
(***************************************************************************)
EXTENDS Breaker

\* create_app: "restart must not reset counters" (main.py, DEBT-0011), for
\* an open window, every save completed, and neither the last of them nor the
\* load that follows failed.
RestartKeepsWindow ==
  [][Restart /\ ~SavesOutstanding /\ ~rowFailed /\ ~rowFailed' /\ clock < tripped
       => tripped' = tripped]_breakerVars
=============================================================================
