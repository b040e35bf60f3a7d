------------------------------ MODULE Breaker ------------------------------
(***************************************************************************)
(* The circuit breaker of the gateway: the three module globals of         *)
(* src/src/main.py, the asyncio lock around them, and the breaker_state    *)
(* row that src/src/storage.py keeps for a restart.                        *)
(*                                                                         *)
(* Every request handler is a coroutine on one event loop, so the code     *)
(* between two awaits is one step.  A trip is saved by a worker thread     *)
(* while the handler still owns the lock; a reset is saved by a worker     *)
(* thread after the lock was released.  Those two kinds of save can        *)
(* therefore be outstanding at once, and they reach the database in either *)
(* order.                                                                  *)
(*                                                                         *)
(* last_escalate_time is left out: nothing reads it but the save.          *)
(***************************************************************************)
EXTENDS Naturals, Sequences

CONSTANTS
  Request,    \* handler slots: each serves one request after another
  Limit,      \* CIRCUIT_BREAKER_LIMIT
  Cooldown,   \* CIRCUIT_COOLDOWN_SECONDS, in ticks of clock
  DurableDb,  \* FALSE: Storage() on ":memory:", as create_app builds it
  Horizon,    \* bound: no escalation arrives whose window could end later
  MaxBoots    \* bound: restarts of the process

ASSUME BreakerAssumption ==
  /\ Limit \in Nat \ {0}
  /\ Cooldown \in Nat \ {0}
  /\ DurableDb \in BOOLEAN
  /\ Horizon \in Nat
  /\ MaxBoots \in Nat

VARIABLES
  clock,    \* time.time()
  count,    \* escalate_count_since_resolve
  tripped,  \* breaker_tripped_until
  db,       \* the committed breaker_state row
  queue,    \* _escalate_lock: its owner, then its waiters in FIFO order
  phase,    \* where each handler is in the breaker code
  now,      \* the handler's local "now", sampled before the lock
  arg,      \* arguments of the handler's outstanding save_breaker_state
  boot,     \* history: restarts so far
  rowFailed \* history: the last save or load of the row met an sqlite3.Error

breakerVars ==
  <<clock, count, tripped, db, queue, phase, now, arg, boot, rowFailed>>

State == [count : Nat, tripped : Nat]

\* load_breaker_state of an empty table, and the values of a reset
Cleared == [count |-> 0, tripped |-> 0]

\* "escalate" and "resolve" wait for the lock or have just been handed it,
\* "tripping" awaits the save inside the lock, "resetting" awaits the save
\* with the lock released.
Phase == {"out", "escalate", "resolve", "tripping", "resetting"}

Owner(r) == queue # <<>> /\ Head(queue) = r

\* The handler may run the critical section as a k ("escalate", "resolve"):
\* asyncio.Lock grants a free lock without suspending the coroutine, and
\* hands a released one to the first waiter, behind whom newcomers queue.
MayEnter(r, k) ==
  \/ phase[r] = "out" /\ queue = <<>>
  \/ phase[r] = k /\ Owner(r)

\* The lock as the critical section of r holds it.
Held(r) == IF queue = <<>> THEN <<r>> ELSE queue

Release(r) == queue' = Tail(Held(r))

\* No window opened now would end beyond the bound on the clock.
WithinHorizon == clock + Cooldown <= Horizon

\* "now = time.time()" precedes the "async with": a handler that had to wait
\* uses the time at which it asked.
SampledNow(r) == IF phase[r] = "out" THEN clock ELSE now[r]

\* The handler leaves the breaker code; its locals are gone.
Leave(r) ==
  /\ phase' = [phase EXCEPT ![r] = "out"]
  /\ now' = [now EXCEPT ![r] = 0]
  /\ arg' = [arg EXCEPT ![r] = Cleared]

BreakerInit ==
  /\ clock = 0
  /\ count = 0
  /\ tripped = 0
  /\ db = Cleared
  /\ queue = <<>>
  /\ phase = [r \in Request |-> "out"]
  /\ now = [r \in Request |-> 0]
  /\ arg = [r \in Request |-> Cleared]
  /\ boot = 0
  /\ rowFailed = FALSE

\* An ESCALATE rule matched while the lock is taken: read the clock, wait.
WaitEscalate(r) ==
  /\ phase[r] = "out"
  /\ queue # <<>>
  /\ WithinHorizon
  /\ phase' = [phase EXCEPT ![r] = "escalate"]
  /\ now' = [now EXCEPT ![r] = clock]
  /\ queue' = Append(queue, r)
  /\ UNCHANGED <<clock, count, tripped, db, arg, boot, rowFailed>>

\* An ALLOW, ALLOW_WITH_WARNING or SUSPEND rule matched, the lock is taken.
WaitResolve(r) ==
  /\ phase[r] = "out"
  /\ queue # <<>>
  /\ phase' = [phase EXCEPT ![r] = "resolve"]
  /\ queue' = Append(queue, r)
  /\ UNCHANGED <<clock, count, tripped, db, now, arg, boot, rowFailed>>

\* The critical section of an ESCALATE rule, up to its three outcomes.
EntersEscalate(r) ==
  /\ MayEnter(r, "escalate")
  /\ phase[r] = "out" => WithinHorizon

\* Inside the cooldown window: DENY.
Refuse(r) ==
  /\ EntersEscalate(r)
  /\ SampledNow(r) < tripped
  /\ Release(r)
  /\ Leave(r)
  /\ UNCHANGED <<clock, count, tripped, db, boot, rowFailed>>

\* Variant: the window is not consulted.
Grant_IgnoresWindow(r) ==
  /\ EntersEscalate(r)
  /\ count + 1 < Limit
  /\ count' = count + 1
  /\ Release(r)
  /\ Leave(r)
  /\ UNCHANGED <<clock, tripped, db, boot, rowFailed>>

\* Below the limit: count the escalation and let it through.
Grant(r) ==
  /\ EntersEscalate(r)
  /\ ~(SampledNow(r) < tripped)
  /\ count + 1 < Limit
  /\ count' = count + 1
  /\ Release(r)
  /\ Leave(r)
  /\ UNCHANGED <<clock, tripped, db, boot, rowFailed>>

\* Variants of the trip: the lock is released before the save is awaited; the
\* window is added to the old one; the comparison is off by one.
Trip_As(r, limit, window, lock) ==
  /\ EntersEscalate(r)
  /\ ~(SampledNow(r) < tripped)
  /\ count + 1 >= limit
  /\ tripped' = window
  /\ count' = 0
  /\ queue' = lock
  /\ phase' = [phase EXCEPT ![r] = "tripping"]
  /\ now' = [now EXCEPT ![r] = 0]
  /\ arg' = [arg EXCEPT ![r] = [count |-> count', tripped |-> tripped']]
  /\ UNCHANGED <<clock, db, boot, rowFailed>>

Trip_ReleasesFirst(r) ==
  Trip_As(r, Limit, SampledNow(r) + Cooldown, Tail(Held(r)))

Trip_Prolongs(r) ==
  Trip_As(r, Limit, tripped + SampledNow(r) + Cooldown, Held(r))

Trip_TooEarly(r) ==
  Trip_As(r, Limit - 1, SampledNow(r) + Cooldown, Held(r))

\* At the limit: open the window, clear the count, and hand the new state to
\* a worker thread without releasing the lock.
Trip(r) ==
  /\ EntersEscalate(r)
  /\ ~(SampledNow(r) < tripped)
  /\ count + 1 >= Limit
  /\ tripped' = SampledNow(r) + Cooldown
  /\ count' = 0
  /\ queue' = Held(r)
  /\ phase' = [phase EXCEPT ![r] = "tripping"]
  /\ now' = [now EXCEPT ![r] = 0]
  /\ arg' = [arg EXCEPT ![r] = [count |-> count', tripped |-> tripped']]
  /\ UNCHANGED <<clock, db, boot, rowFailed>>

\* Variant: the window is moved into the past rather than cleared.
Resolve_Backdates(r) ==
  /\ MayEnter(r, "resolve")
  /\ count' = 0
  /\ tripped' = clock - Cooldown
  /\ Release(r)
  /\ phase' = [phase EXCEPT ![r] = "resetting"]
  /\ arg' = [arg EXCEPT ![r] = [count |-> count', tripped |-> tripped']]
  /\ UNCHANGED <<clock, db, now, boot, rowFailed>>

\* Variant: the branch of the resolving rules keeps the lock.
Resolve_KeepsLock(r) ==
  /\ MayEnter(r, "resolve")
  /\ count' = 0
  /\ tripped' = 0
  /\ queue' = Held(r)
  /\ phase' = [phase EXCEPT ![r] = "resetting"]
  /\ arg' = [arg EXCEPT ![r] = [count |-> count', tripped |-> tripped']]
  /\ UNCHANGED <<clock, db, now, boot, rowFailed>>

\* Clear the breaker under the lock; the save is submitted in the same step
\* but runs after the release.
Resolve(r) ==
  /\ MayEnter(r, "resolve")
  /\ count' = 0
  /\ tripped' = 0
  /\ Release(r)
  /\ phase' = [phase EXCEPT ![r] = "resetting"]
  /\ arg' = [arg EXCEPT ![r] = [count |-> count', tripped |-> tripped']]
  /\ UNCHANGED <<clock, db, now, boot, rowFailed>>

\* save_breaker_state: replace the row and commit, or log the error.
SaveState(r) ==
  \/ db' = arg[r] /\ rowFailed' = FALSE
  \/ db' = db /\ rowFailed' = TRUE

SaveTrip(r) ==
  /\ phase[r] = "tripping"
  /\ SaveState(r)
  /\ Release(r)
  /\ Leave(r)
  /\ UNCHANGED <<clock, count, tripped, boot>>

SaveReset(r) ==
  /\ phase[r] = "resetting"
  /\ SaveState(r)
  /\ Leave(r)
  /\ UNCHANGED <<clock, count, tripped, queue, boot>>

Tick ==
  /\ clock < Horizon
  /\ clock' = clock + 1
  /\ UNCHANGED <<count, tripped, db, queue, phase, now, arg, boot, rowFailed>>

\* The process dies and create_app runs again: handlers, lock and submitted
\* saves are gone, and the globals are read back from the database, or start
\* from the defaults when load_breaker_state meets an error, the row unchanged.
LoadState ==
  \/ count' = db'.count /\ tripped' = db'.tripped /\ rowFailed' = FALSE
  \/ count' = 0 /\ tripped' = 0 /\ rowFailed' = TRUE

Restart ==
  /\ boot < MaxBoots
  /\ boot' = boot + 1
  /\ db' = IF DurableDb THEN db ELSE Cleared
  /\ LoadState
  /\ queue' = <<>>
  /\ phase' = [r \in Request |-> "out"]
  /\ now' = [r \in Request |-> 0]
  /\ arg' = [r \in Request |-> Cleared]
  /\ UNCHANGED clock

LockStep(r) == Refuse(r) \/ Grant(r) \/ Trip(r) \/ Resolve(r)
SaveStep(r) == SaveTrip(r) \/ SaveReset(r)

BreakerNext ==
  \/ \E r \in Request :
       \/ WaitEscalate(r)
       \/ WaitResolve(r)
       \/ LockStep(r)
       \/ SaveStep(r)
  \/ Tick
  \/ Restart

BreakerSpec == BreakerInit /\ [][BreakerNext]_breakerVars

\* The event loop runs the coroutine that was handed the lock, the thread
\* pool runs every submitted save, and time passes.  Clients owe nothing.
BreakerFairness ==
  /\ \A r \in Request : WF_breakerVars(phase[r] # "out" /\ LockStep(r))
  /\ \A r \in Request : WF_breakerVars(SaveStep(r))
  /\ WF_breakerVars(Tick)

FairBreakerSpec == BreakerSpec /\ BreakerFairness

-----------------------------------------------------------------------------
\* Every variable has its type.
BreakerTypeOK ==
  /\ clock \in Nat
  /\ count \in Nat
  /\ tripped \in Nat
  /\ db \in State
  /\ queue \in Seq(Request)
  /\ phase \in [Request -> Phase]
  /\ now \in [Request -> Nat]
  /\ arg \in [Request -> State]
  /\ boot \in Nat
  /\ rowFailed \in BOOLEAN

\* _escalate_lock is a mutex: exactly the handlers that wait for it or own it
\* are in its queue, each once, and only the owner may be saving a trip.
LockDiscipline ==
  /\ \A r \in Request :
       (\E i \in 1 .. Len(queue) : queue[i] = r)
         <=> phase[r] \in {"escalate", "resolve", "tripping"}
  /\ \A i, j \in 1 .. Len(queue) : queue[i] = queue[j] => i = j
  /\ \A r \in Request : phase[r] = "tripping" => Owner(r)

\* While a trip is being saved inside the lock (main.py awaits the worker
\* thread there), no other handler changes the globals: what is written is
\* what memory holds.
TripSavedFromMemory ==
  \A r \in Request :
    phase[r] = "tripping" => arg[r] = [count |-> count, tripped |-> tripped]

\* The count stays below the limit, and inside the cooldown window nothing
\* accumulates ("no re-accumulation", tests/test_circuit_breaker.py): a
\* handler that sampled its clock before waiting cannot slip a count in.
NoReaccumulation ==
  /\ count < Limit
  /\ clock < tripped => count = 0

\* A window, in memory, in the database or on its way there, never reaches
\* further than one Cooldown ahead: a restart cannot prolong a lockout.
WindowBounded ==
  /\ tripped <= clock + Cooldown
  /\ db.tripped <= clock + Cooldown
  /\ \A r \in Request : arg[r].tripped <= clock + Cooldown

SavesOutstanding == \E r \in Request : phase[r] \in {"tripping", "resetting"}

\* Once all saves are through and the last exchange with the row went well, a
\* window in the database is the window in memory: saving trips inside the lock
\* means a late trip can never overwrite a later reset, and the first save that
\* succeeds ends what a failed save or load left apart.  (The opposite order is
\* possible, see RestartKeepsWindow.)
PersistedWindowIsCurrent ==
  (~rowFailed /\ ~SavesOutstanding /\ db.tripped # 0) => db.tripped = tripped

\* Whoever enters the breaker code leaves it: the lock is never kept, and
\* FIFO hand-over starves nobody, with saves as slow as they like.
EveryHandlerLeaves ==
  \A r \in Request : phase[r] # "out" ~> phase[r] = "out"

\* The breaker with its lock, threads and row behaves as the atomic breaker
\* of BreakerContract: same counter, same window.
Contract == INSTANCE BreakerContract
ImplementsContract == Contract!ContractSpec
=============================================================================
