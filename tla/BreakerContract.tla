-------------------------- MODULE BreakerContract --------------------------
(***************************************************************************)
(* What the circuit breaker of src/src/main.py promises the rest of the    *)
(* gateway, with no lock, no worker thread and no database: one counter of *)
(* escalations since the last resolution and one deadline, changed         *)
(* atomically.  Breaker.tla is shown to implement it.                      *)
(*                                                                         *)
(* The contract is that of tests/test_circuit_breaker.py: escalations      *)
(* accumulate whatever time passes, the Limit-th one trips the breaker, no *)
(* escalation is granted while the window is open, the window never        *)
(* outlives its Cooldown, and only a resolution or a trip clears the count.*)
(***************************************************************************)
EXTENDS Naturals

CONSTANTS
  Limit,      \* CIRCUIT_BREAKER_LIMIT
  Cooldown    \* CIRCUIT_COOLDOWN_SECONDS, in ticks

VARIABLES
  clock,      \* wall clock
  count,      \* escalations granted since the last resolution or trip
  tripped,    \* the breaker refuses escalations while clock < tripped
  boot        \* how often the process was restarted

contractVars == <<clock, count, tripped, boot>>

Open == clock < tripped

ContractInit ==
  /\ clock \in Nat
  /\ count = 0
  /\ tripped = 0
  /\ boot = 0

\* An escalation is passed on to a human.
GrantEscalation ==
  /\ ~Open
  /\ count + 1 < Limit
  /\ count' = count + 1
  /\ UNCHANGED <<clock, tripped, boot>>

\* The Limit-th escalation in a row opens the window instead.  The contract
\* bounds the window from above only.
OpenWindow ==
  /\ ~Open
  /\ count + 1 = Limit
  /\ count' = 0
  /\ tripped' \in 0 .. clock + Cooldown
  /\ UNCHANGED <<clock, boot>>

\* A resolved request closes the window and forgets the escalations.
CloseWindow ==
  /\ count' = 0
  /\ tripped' = 0
  /\ UNCHANGED <<clock, boot>>

TimePasses ==
  /\ clock' > clock
  /\ clock' \in Nat
  /\ UNCHANGED <<count, tripped, boot>>

\* A restart forgets the escalations; a window found afterwards is still
\* bounded by one Cooldown.
ReloadState ==
  /\ boot' = boot + 1
  /\ count' = 0
  /\ tripped' \in 0 .. clock + Cooldown
  /\ UNCHANGED clock

ContractNext ==
  \/ GrantEscalation
  \/ OpenWindow
  \/ CloseWindow
  \/ TimePasses
  \/ ReloadState

ContractSpec == ContractInit /\ [][ContractNext]_contractVars
=============================================================================
