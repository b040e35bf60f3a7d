--------------------------- MODULE BreakerProofs ---------------------------
(***************************************************************************)
(* Proofs about Breaker, for any number of handlers, any limit, cooldown   *)
(* and number of restarts, a volatile database or a durable one.           *)
(*                                                                         *)
(* The invariants the runs check are not inductive one by one: that the    *)
(* lock is a mutex is needed for what a trip saves, the sampled clocks for *)
(* what a late escalation may count, the arguments of outstanding saves    *)
(* for what a restart finds.  BreakerInv is their conjunction with what is *)
(* known of a handler's locals.                                            *)
(***************************************************************************)
EXTENDS Breaker, TLAPS

Members(q) == {q[i] : i \in 1 .. Len(q)}

Distinct(q) == \A i, j \in 1 .. Len(q) : q[i] = q[j] => i = j

Queued == {"escalate", "resolve", "tripping"}

\* A handler never holds a clock of the future, persists a count other than
\* 0, or has arguments other than those of a reset unless it is tripping.
LocalsOK ==
  /\ db.count = 0
  /\ \A r \in Request :
       /\ now[r] <= clock
       /\ arg[r].count = 0
       /\ phase[r] # "tripping" => arg[r] = Cleared

BreakerInv ==
  /\ BreakerTypeOK
  /\ LockDiscipline
  /\ TripSavedFromMemory
  /\ NoReaccumulation
  /\ WindowBounded
  /\ PersistedWindowIsCurrent
  /\ LocalsOK

-----------------------------------------------------------------------------
\* A newcomer joins the lock's queue behind the others.
LEMMA AppendMembers ==
  ASSUME NEW S, NEW q \in Seq(S), NEW x \in S,
         Distinct(q), x \notin Members(q)
  PROVE  /\ Append(q, x) \in Seq(S)
         /\ Append(q, x) # <<>>
         /\ Distinct(Append(q, x))
         /\ Members(Append(q, x)) = Members(q) \cup {x}
         /\ q # <<>> => Head(Append(q, x)) = Head(q)
<1> DEFINE p == Append(q, x)
<1>1. /\ p \in Seq(S)
      /\ Len(p) = Len(q) + 1
      /\ p[Len(q) + 1] = x
      /\ \A i \in 1 .. Len(q) : p[i] = q[i]
  OBVIOUS
<1>2. Len(q) \in Nat
  OBVIOUS
<1>3. p # <<>>
  BY <1>1, <1>2
<1>4. Distinct(p)
  BY <1>1, <1>2 DEF Distinct, Members
<1>5. Members(p) = Members(q) \cup {x}
  <2>1. Members(p) \subseteq Members(q) \cup {x}
    BY <1>1, <1>2 DEF Members
  <2>2. Members(q) \subseteq Members(p)
    BY <1>1, <1>2 DEF Members
  <2>3. x \in Members(p)
    BY <1>1, <1>2 DEF Members
  <2> QED BY <2>1, <2>2, <2>3
<1>6. q # <<>> => Head(p) = Head(q)
  BY <1>1, <1>2
<1> QED BY <1>1, <1>3, <1>4, <1>5, <1>6

\* A release removes the owner, and nobody else, from the queue.
LEMMA TailMembers ==
  ASSUME NEW S, NEW q \in Seq(S), q # <<>>, Distinct(q)
  PROVE  /\ Tail(q) \in Seq(S)
         /\ Distinct(Tail(q))
         /\ Members(Tail(q)) = Members(q) \ {Head(q)}
<1> DEFINE p == Tail(q)
<1>1. /\ p \in Seq(S)
      /\ Len(q) \in Nat \ {0}
      /\ Len(p) = Len(q) - 1
      /\ \A i \in 1 .. Len(p) : p[i] = q[i + 1]
      /\ Head(q) = q[1]
  OBVIOUS
<1>2. Distinct(p)
  <2> SUFFICES ASSUME NEW i \in 1 .. Len(p), NEW j \in 1 .. Len(p), p[i] = p[j]
               PROVE  i = j
    BY DEF Distinct
  <2>1. i + 1 \in 1 .. Len(q) /\ j + 1 \in 1 .. Len(q)
    BY <1>1
  <2>2. q[i + 1] = q[j + 1]
    BY <1>1
  <2> QED BY <2>1, <2>2 DEF Distinct
<1>3. Members(p) \subseteq Members(q) \ {Head(q)}
  <2> SUFFICES ASSUME NEW i \in 1 .. Len(p)
               PROVE  p[i] \in Members(q) /\ p[i] # Head(q)
    BY DEF Members
  <2>1. i + 1 \in 1 .. Len(q) /\ 1 \in 1 .. Len(q) /\ i + 1 # 1
    BY <1>1
  <2>2. p[i] = q[i + 1]
    BY <1>1
  <2> QED BY <1>1, <2>1, <2>2 DEF Members, Distinct
<1>4. Members(q) \ {Head(q)} \subseteq Members(p)
  <2> SUFFICES ASSUME NEW i \in 1 .. Len(q), q[i] # Head(q)
               PROVE  q[i] \in Members(p)
    BY DEF Members
  <2>1. i - 1 \in 1 .. Len(p)
    BY <1>1
  <2>2. q[i] = p[i - 1]
    BY <1>1, <2>1
  <2> QED BY <2>1, <2>2 DEF Members
<1> QED BY <1>1, <1>2, <1>3, <1>4

\* LockDiscipline in terms of the lemmas above.
LEMMA LockMembers ==
  LockDiscipline <=> /\ \A r \in Request : r \in Members(queue) <=> phase[r] \in Queued
                     /\ Distinct(queue)
                     /\ \A r \in Request : phase[r] = "tripping" => Owner(r)
BY DEF LockDiscipline, Members, Distinct, Queued

LEMMA LockMembersPrime ==
  LockDiscipline' <=> /\ \A r \in Request :
                           r \in Members(queue') <=> phase'[r] \in Queued
                      /\ Distinct(queue')
                      /\ \A r \in Request : phase'[r] = "tripping" => Owner(r)'
BY DEF LockDiscipline, Members, Distinct, Queued

\* A handler that leaves the critical section without keeping the lock.
LEMMA ReleaseStep ==
  ASSUME BreakerTypeOK, LockDiscipline, NEW r \in Request,
         queue = <<>> \/ Owner(r),
         Release(r),
         NEW k \in {"out", "resetting"},
         phase' = [phase EXCEPT ![r] = k]
  PROVE  /\ queue' \in Seq(Request)
         /\ LockDiscipline'
         /\ \A s \in Request : phase'[s] # "tripping"
<1>1. /\ queue \in Seq(Request)
      /\ phase \in [Request -> Phase]
  BY DEF BreakerTypeOK
<1>2. /\ \A s \in Request : s \in Members(queue) <=> phase[s] \in Queued
      /\ Distinct(queue)
      /\ \A s \in Request : phase[s] = "tripping" => Owner(s)
  BY LockMembers
<1>3. \A s \in Request : phase[s] = "tripping" => s = r
  BY <1>2 DEF Owner
<1>4. \A s \in Request : phase'[s] = IF s = r THEN k ELSE phase[s]
  BY <1>1
<1>5. \A s \in Request : phase'[s] # "tripping"
  BY <1>3, <1>4
<1>6. CASE queue = <<>>
  <2>1. queue' = <<>>
    BY <1>6 DEF Release, Held
  <2>2. Members(queue) = {} /\ Members(queue') = {} /\ Distinct(queue')
    BY <1>6, <2>1 DEF Members, Distinct
  <2>3. \A s \in Request : phase'[s] \notin Queued
    BY <1>2, <1>4, <2>2 DEF Queued
  <2>4. queue' \in Seq(Request)
    BY <2>1
  <2> QED BY <1>5, <2>2, <2>3, <2>4, LockMembersPrime
<1>7. CASE queue # <<>> /\ Owner(r)
  <2>1. queue' = Tail(queue) /\ Head(queue) = r
    BY <1>7 DEF Release, Held, Owner
  <2>2. /\ queue' \in Seq(Request)
        /\ Distinct(queue')
        /\ Members(queue') = Members(queue) \ {r}
    BY <1>1, <1>2, <1>7, <2>1, TailMembers
  <2>3. \A s \in Request : s \in Members(queue') <=> phase'[s] \in Queued
    BY <1>2, <1>4, <2>2 DEF Queued
  <2> QED BY <1>5, <2>2, <2>3, LockMembersPrime
<1> QED BY <1>6, <1>7

\* A handler that joins the queue behind the owner.
LEMMA WaitStep ==
  ASSUME BreakerTypeOK, LockDiscipline, NEW r \in Request,
         phase[r] = "out", queue # <<>>,
         queue' = Append(queue, r),
         NEW k \in {"escalate", "resolve"},
         phase' = [phase EXCEPT ![r] = k]
  PROVE  /\ queue' \in Seq(Request)
         /\ LockDiscipline'
         /\ \A s \in Request : phase'[s] = "tripping" => phase[s] = "tripping"
<1>1. /\ queue \in Seq(Request)
      /\ phase \in [Request -> Phase]
  BY DEF BreakerTypeOK
<1>2. /\ \A s \in Request : s \in Members(queue) <=> phase[s] \in Queued
      /\ Distinct(queue)
      /\ \A s \in Request : phase[s] = "tripping" => Owner(s)
  BY LockMembers
<1>3. r \notin Members(queue)
  BY <1>2 DEF Queued
<1>4. /\ queue' \in Seq(Request)
      /\ queue' # <<>>
      /\ Distinct(queue')
      /\ Members(queue') = Members(queue) \cup {r}
      /\ Head(queue') = Head(queue)
  BY <1>1, <1>2, <1>3, AppendMembers
<1>5. \A s \in Request : phase'[s] = IF s = r THEN k ELSE phase[s]
  BY <1>1
<1>6. \A s \in Request : s \in Members(queue') <=> phase'[s] \in Queued
  BY <1>2, <1>4, <1>5 DEF Queued
<1>7. \A s \in Request : phase'[s] = "tripping" => phase[s] = "tripping"
  BY <1>5
<1>8. \A s \in Request : phase'[s] = "tripping" => Owner(s)'
  BY <1>2, <1>4, <1>7 DEF Owner
<1> QED BY <1>4, <1>6, <1>7, <1>8, LockMembersPrime

\* The owner, or a handler that takes the free lock, starts to trip.
LEMMA HoldStep ==
  ASSUME BreakerTypeOK, LockDiscipline, NEW r \in Request,
         MayEnter(r, "escalate"),
         queue' = Held(r),
         phase' = [phase EXCEPT ![r] = "tripping"]
  PROVE  /\ queue' \in Seq(Request)
         /\ LockDiscipline'
         /\ \A s \in Request : phase'[s] = "tripping" => s = r
<1>1. /\ queue \in Seq(Request)
      /\ phase \in [Request -> Phase]
  BY DEF BreakerTypeOK
<1>2. /\ \A s \in Request : s \in Members(queue) <=> phase[s] \in Queued
      /\ Distinct(queue)
      /\ \A s \in Request : phase[s] = "tripping" => Owner(s)
  BY LockMembers
<1>3. \A s \in Request : phase'[s] = IF s = r THEN "tripping" ELSE phase[s]
  BY <1>1
<1>4. CASE queue = <<>>
  <2>1. queue' = <<r>>
    BY <1>4 DEF Held
  <2>2. /\ queue' \in Seq(Request)
        /\ Len(queue') = 1
        /\ queue'[1] = r
        /\ Head(queue') = r
        /\ queue' # <<>>
    BY <2>1
  <2>3. Members(queue) = {} /\ Members(queue') = {r} /\ Distinct(queue')
    BY <1>4, <2>2 DEF Members, Distinct
  <2>4. \A s \in Request : phase[s] \notin Queued
    BY <1>2, <2>3
  <2>5. \A s \in Request : s \in Members(queue') <=> phase'[s] \in Queued
    BY <1>3, <2>3, <2>4 DEF Queued
  <2>6. \A s \in Request : phase'[s] = "tripping" => s = r
    BY <1>3, <2>4 DEF Queued
  <2>7. Owner(r)'
    BY <2>2 DEF Owner
  <2> QED BY <2>2, <2>3, <2>5, <2>6, <2>7, LockMembersPrime
<1>5. CASE queue # <<>>
  <2>1. queue' = queue /\ Owner(r) /\ phase[r] = "escalate"
    BY <1>5 DEF Held, MayEnter
  <2>2. \A s \in Request : phase'[s] = "tripping" => s = r
    BY <1>2, <1>3, <2>1 DEF Owner
  <2>3. \A s \in Request : s \in Members(queue') <=> phase'[s] \in Queued
    BY <1>2, <1>3, <2>1 DEF Queued
  <2>4. Owner(r)'
    BY <2>1 DEF Owner
  <2> QED BY <1>1, <1>2, <2>1, <2>2, <2>3, <2>4, LockMembersPrime
<1> QED BY <1>4, <1>5

-----------------------------------------------------------------------------
LEMMA InitInv == BreakerInit => BreakerInv
<1> SUFFICES ASSUME BreakerInit PROVE BreakerInv
  OBVIOUS
<1> USE BreakerAssumption DEF BreakerInit
<1>1. BreakerTypeOK
  <2>1. queue \in Seq(Request)
    OBVIOUS
  <2>2. /\ phase \in [Request -> Phase]
        /\ now \in [Request -> Nat]
    BY DEF Phase
  <2>3. Cleared \in State
    BY DEF State, Cleared
  <2>4. /\ db \in State
        /\ arg \in [Request -> State]
    BY <2>3
  <2>5. rowFailed \in BOOLEAN
    OBVIOUS
  <2> QED BY <2>1, <2>2, <2>4, <2>5 DEF BreakerTypeOK
<1>2. LockDiscipline
  BY DEF LockDiscipline
<1>3. TripSavedFromMemory
  BY DEF TripSavedFromMemory
<1>4. NoReaccumulation
  BY DEF NoReaccumulation
<1>5. WindowBounded
  BY DEF WindowBounded, Cleared
<1>6. PersistedWindowIsCurrent
  BY DEF PersistedWindowIsCurrent, Cleared
<1>7. LocalsOK
  BY DEF LocalsOK, Cleared
<1> QED BY <1>1, <1>2, <1>3, <1>4, <1>5, <1>6, <1>7 DEF BreakerInv

\* The time a handler goes by is not in the future, and lies inside the
\* window whenever the present does.
LEMMA SampledInPast ==
  ASSUME BreakerInv, NEW r \in Request
  PROVE  /\ SampledNow(r) \in Nat
         /\ SampledNow(r) <= clock
BY DEF BreakerInv, BreakerTypeOK, LocalsOK, SampledNow

\* Whoever may enter the critical section finds nobody saving a trip there.
LEMMA EntryExcludesTrip ==
  ASSUME BreakerInv, NEW r \in Request, NEW k \in {"escalate", "resolve"},
         MayEnter(r, k)
  PROVE  /\ queue = <<>> \/ Owner(r)
         /\ \A s \in Request : phase[s] # "tripping"
<1>1. /\ \A s \in Request : s \in Members(queue) <=> phase[s] \in Queued
      /\ \A s \in Request : phase[s] = "tripping" => Owner(s)
  BY LockMembers DEF BreakerInv
<1>2. CASE queue = <<>>
  <2>1. Members(queue) = {}
    BY <1>2 DEF Members
  <2> QED BY <1>1, <1>2, <2>1 DEF Queued
<1>3. CASE queue # <<>>
  <2>1. Owner(r) /\ phase[r] = k
    BY <1>3 DEF MayEnter
  <2> QED BY <1>1, <2>1 DEF Owner
<1> QED BY <1>2, <1>3

\* The locals of a handler that has left the breaker code.
LEMMA LeaveLocals ==
  ASSUME BreakerTypeOK, NEW r \in Request, Leave(r)
  PROVE  /\ phase' \in [Request -> Phase]
         /\ now' \in [Request -> Nat]
         /\ arg' \in [Request -> State]
         /\ phase' = [phase EXCEPT ![r] = "out"]
         /\ \A s \in Request :
              /\ phase'[s] = IF s = r THEN "out" ELSE phase[s]
              /\ now'[s] = IF s = r THEN 0 ELSE now[s]
              /\ arg'[s] = IF s = r THEN Cleared ELSE arg[s]
<1>1. Cleared \in State
  BY DEF Cleared, State
<1> QED BY <1>1 DEF BreakerTypeOK, Leave, Phase

LEMMA WaitEscalateInv ==
  ASSUME BreakerInv, NEW r \in Request, WaitEscalate(r)
  PROVE  BreakerInv'
<1> USE DEF BreakerInv
<1>1. /\ queue' \in Seq(Request)
      /\ LockDiscipline'
      /\ \A s \in Request : phase'[s] = "tripping" => phase[s] = "tripping"
  BY WaitStep DEF WaitEscalate
<1>2. \A s \in Request :
        /\ phase'[s] = IF s = r THEN "escalate" ELSE phase[s]
        /\ now'[s] = IF s = r THEN clock ELSE now[s]
  BY DEF WaitEscalate, BreakerTypeOK
<1>3. BreakerTypeOK'
  BY <1>1 DEF BreakerTypeOK, WaitEscalate, Phase
<1>4. TripSavedFromMemory'
  BY <1>1 DEF TripSavedFromMemory, WaitEscalate
<1>5. NoReaccumulation'
  BY DEF NoReaccumulation, WaitEscalate
<1>6. WindowBounded'
  BY DEF WindowBounded, WaitEscalate
<1>7. PersistedWindowIsCurrent'
  BY <1>2 DEF PersistedWindowIsCurrent, SavesOutstanding, WaitEscalate
<1>8. LocalsOK'
  BY <1>2 DEF LocalsOK, WaitEscalate, BreakerTypeOK
<1> QED BY <1>1, <1>3, <1>4, <1>5, <1>6, <1>7, <1>8

LEMMA WaitResolveInv ==
  ASSUME BreakerInv, NEW r \in Request, WaitResolve(r)
  PROVE  BreakerInv'
<1> USE DEF BreakerInv
<1>1. /\ queue' \in Seq(Request)
      /\ LockDiscipline'
      /\ \A s \in Request : phase'[s] = "tripping" => phase[s] = "tripping"
  BY WaitStep DEF WaitResolve
<1>2. \A s \in Request : phase'[s] = IF s = r THEN "resolve" ELSE phase[s]
  BY DEF WaitResolve, BreakerTypeOK
<1>3. BreakerTypeOK'
  BY <1>1 DEF BreakerTypeOK, WaitResolve, Phase
<1>4. TripSavedFromMemory'
  BY <1>1 DEF TripSavedFromMemory, WaitResolve
<1>5. NoReaccumulation'
  BY DEF NoReaccumulation, WaitResolve
<1>6. WindowBounded'
  BY DEF WindowBounded, WaitResolve
<1>7. PersistedWindowIsCurrent'
  BY <1>2 DEF PersistedWindowIsCurrent, SavesOutstanding, WaitResolve
<1>8. LocalsOK'
  BY <1>2 DEF LocalsOK, WaitResolve
<1> QED BY <1>1, <1>3, <1>4, <1>5, <1>6, <1>7, <1>8

LEMMA RefuseInv ==
  ASSUME BreakerInv, NEW r \in Request, Refuse(r)
  PROVE  BreakerInv'
<1> USE DEF BreakerInv
<1>1. /\ queue = <<>> \/ Owner(r)
      /\ \A s \in Request : phase[s] # "tripping"
  BY EntryExcludesTrip DEF Refuse, EntersEscalate
<1>2. /\ phase' \in [Request -> Phase]
      /\ now' \in [Request -> Nat]
      /\ arg' \in [Request -> State]
      /\ phase' = [phase EXCEPT ![r] = "out"]
      /\ \A s \in Request :
           /\ phase'[s] = IF s = r THEN "out" ELSE phase[s]
           /\ now'[s] = IF s = r THEN 0 ELSE now[s]
           /\ arg'[s] = IF s = r THEN Cleared ELSE arg[s]
  BY LeaveLocals DEF Refuse
<1>3. /\ queue' \in Seq(Request)
      /\ LockDiscipline'
      /\ \A s \in Request : phase'[s] # "tripping"
  BY <1>1, <1>2, ReleaseStep DEF Refuse
<1>4. BreakerTypeOK'
  BY <1>2, <1>3 DEF BreakerTypeOK, Refuse
<1>5. TripSavedFromMemory'
  BY <1>3 DEF TripSavedFromMemory
<1>6. NoReaccumulation'
  BY DEF NoReaccumulation, Refuse
<1>7. WindowBounded'
  <2>1. Cleared.tripped = 0 /\ 0 <= clock + Cooldown
    BY BreakerAssumption DEF Cleared, BreakerTypeOK
  <2>2. \A s \in Request : arg'[s].tripped <= clock + Cooldown
    BY <1>2, <2>1 DEF WindowBounded
  <2> QED BY <2>2 DEF WindowBounded, Refuse
<1>8. PersistedWindowIsCurrent'
  <2>1. phase[r] \notin {"tripping", "resetting"}
    BY <1>1 DEF Refuse, EntersEscalate, MayEnter
  <2> QED BY <1>2, <2>1 DEF PersistedWindowIsCurrent, SavesOutstanding, Refuse
<1>9. LocalsOK'
  BY <1>2 DEF LocalsOK, Refuse, Cleared, BreakerTypeOK
<1> QED BY <1>3, <1>4, <1>5, <1>6, <1>7, <1>8, <1>9

LEMMA GrantInv ==
  ASSUME BreakerInv, NEW r \in Request, Grant(r)
  PROVE  BreakerInv'
<1> USE DEF BreakerInv
<1>1. /\ queue = <<>> \/ Owner(r)
      /\ \A s \in Request : phase[s] # "tripping"
  BY EntryExcludesTrip DEF Grant, EntersEscalate
<1>2. /\ phase' \in [Request -> Phase]
      /\ now' \in [Request -> Nat]
      /\ arg' \in [Request -> State]
      /\ phase' = [phase EXCEPT ![r] = "out"]
      /\ \A s \in Request :
           /\ phase'[s] = IF s = r THEN "out" ELSE phase[s]
           /\ now'[s] = IF s = r THEN 0 ELSE now[s]
           /\ arg'[s] = IF s = r THEN Cleared ELSE arg[s]
  BY LeaveLocals DEF Grant
<1>3. /\ queue' \in Seq(Request)
      /\ LockDiscipline'
      /\ \A s \in Request : phase'[s] # "tripping"
  BY <1>1, <1>2, ReleaseStep DEF Grant
<1>4. BreakerTypeOK'
  BY <1>2, <1>3 DEF BreakerTypeOK, Grant
<1>5. TripSavedFromMemory'
  BY <1>3 DEF TripSavedFromMemory
<1>6. NoReaccumulation'
  BY BreakerAssumption, SampledInPast
     DEF NoReaccumulation, Grant, BreakerTypeOK
<1>7. WindowBounded'
  <2>1. Cleared.tripped = 0 /\ 0 <= clock + Cooldown
    BY BreakerAssumption DEF Cleared, BreakerTypeOK
  <2>2. \A s \in Request : arg'[s].tripped <= clock + Cooldown
    BY <1>2, <2>1 DEF WindowBounded
  <2> QED BY <2>2 DEF WindowBounded, Grant
<1>8. PersistedWindowIsCurrent'
  <2>1. phase[r] \notin {"tripping", "resetting"}
    BY <1>1 DEF Grant, EntersEscalate, MayEnter
  <2> QED BY <1>2, <2>1 DEF PersistedWindowIsCurrent, SavesOutstanding, Grant
<1>9. LocalsOK'
  BY <1>2 DEF LocalsOK, Grant, Cleared, BreakerTypeOK
<1> QED BY <1>3, <1>4, <1>5, <1>6, <1>7, <1>8, <1>9

LEMMA TripInv ==
  ASSUME BreakerInv, NEW r \in Request, Trip(r)
  PROVE  BreakerInv'
<1> USE DEF BreakerInv
<1>1. /\ queue' \in Seq(Request)
      /\ LockDiscipline'
      /\ \A s \in Request : phase'[s] = "tripping" => s = r
  BY HoldStep DEF Trip, EntersEscalate
<1>2. /\ SampledNow(r) \in Nat
      /\ SampledNow(r) <= clock
  BY SampledInPast
<1>3. /\ count' = 0
      /\ tripped' \in Nat
      /\ tripped' <= clock + Cooldown
  BY <1>2, BreakerAssumption DEF Trip, BreakerTypeOK
<1> DEFINE saving == [count |-> count', tripped |-> tripped']
<1>4. /\ saving \in State
      /\ saving.count = 0
      /\ saving.tripped = tripped'
  BY <1>3 DEF State
<1>5. \A s \in Request :
        /\ phase'[s] = IF s = r THEN "tripping" ELSE phase[s]
        /\ now'[s] = IF s = r THEN 0 ELSE now[s]
        /\ arg'[s] = IF s = r THEN saving ELSE arg[s]
  BY DEF Trip, BreakerTypeOK
<1>6. BreakerTypeOK'
  <2>1. phase' \in [Request -> Phase] /\ now' \in [Request -> Nat]
    BY DEF Trip, BreakerTypeOK, Phase
  <2>2. arg' \in [Request -> State]
    BY <1>4 DEF Trip, BreakerTypeOK
  <2> QED BY <1>1, <1>3, <2>1, <2>2 DEF Trip, BreakerTypeOK
<1>7. TripSavedFromMemory'
  BY <1>1, <1>5 DEF TripSavedFromMemory
<1>8. NoReaccumulation'
  BY <1>3, BreakerAssumption DEF NoReaccumulation
<1>9. WindowBounded'
  BY <1>3, <1>4, <1>5 DEF WindowBounded, Trip
<1>10. PersistedWindowIsCurrent'
  BY <1>5 DEF PersistedWindowIsCurrent, SavesOutstanding
<1>11. LocalsOK'
  BY <1>4, <1>5 DEF LocalsOK, Trip, BreakerTypeOK
<1> QED BY <1>1, <1>6, <1>7, <1>8, <1>9, <1>10, <1>11

LEMMA ResolveInv ==
  ASSUME BreakerInv, NEW r \in Request, Resolve(r)
  PROVE  BreakerInv'
<1> USE DEF BreakerInv
<1>1. /\ queue = <<>> \/ Owner(r)
      /\ \A s \in Request : phase[s] # "tripping"
  BY EntryExcludesTrip DEF Resolve
<1>2. /\ queue' \in Seq(Request)
      /\ LockDiscipline'
      /\ \A s \in Request : phase'[s] # "tripping"
  BY <1>1, ReleaseStep DEF Resolve
<1>3. /\ arg' = [arg EXCEPT ![r] = Cleared]
      /\ Cleared \in State
      /\ Cleared.count = 0
      /\ Cleared.tripped = 0
  BY DEF Resolve, Cleared, State
<1>4. \A s \in Request :
        /\ phase'[s] = IF s = r THEN "resetting" ELSE phase[s]
        /\ arg'[s] = IF s = r THEN Cleared ELSE arg[s]
  BY <1>3 DEF Resolve, BreakerTypeOK
<1>5. BreakerTypeOK'
  <2>1. phase' \in [Request -> Phase]
    BY DEF Resolve, BreakerTypeOK, Phase
  <2>2. arg' \in [Request -> State]
    BY <1>3 DEF BreakerTypeOK
  <2> QED BY <1>2, <2>1, <2>2 DEF Resolve, BreakerTypeOK
<1>6. TripSavedFromMemory'
  BY <1>2 DEF TripSavedFromMemory
<1>7. NoReaccumulation'
  BY BreakerAssumption DEF NoReaccumulation, Resolve
<1>8. WindowBounded'
  <2>1. 0 <= clock + Cooldown
    BY BreakerAssumption DEF BreakerTypeOK
  <2> QED BY <1>3, <1>4, <2>1 DEF WindowBounded, Resolve
<1>9. PersistedWindowIsCurrent'
  BY <1>4 DEF PersistedWindowIsCurrent, SavesOutstanding
<1>10. LocalsOK'
  BY <1>2, <1>3, <1>4 DEF LocalsOK, Resolve
<1> QED BY <1>2, <1>5, <1>6, <1>7, <1>8, <1>9, <1>10

\* The save of a trip: the window it writes is the one in memory.
LEMMA SaveTripInv ==
  ASSUME BreakerInv, NEW r \in Request, SaveTrip(r)
  PROVE  BreakerInv'
<1> USE DEF BreakerInv
<1>1. Owner(r)
  BY DEF LockDiscipline, SaveTrip
<1>2. /\ phase' \in [Request -> Phase]
      /\ now' \in [Request -> Nat]
      /\ arg' \in [Request -> State]
      /\ phase' = [phase EXCEPT ![r] = "out"]
      /\ \A s \in Request :
           /\ phase'[s] = IF s = r THEN "out" ELSE phase[s]
           /\ now'[s] = IF s = r THEN 0 ELSE now[s]
           /\ arg'[s] = IF s = r THEN Cleared ELSE arg[s]
  BY LeaveLocals DEF SaveTrip
<1>3. /\ queue' \in Seq(Request)
      /\ LockDiscipline'
      /\ \A s \in Request : phase'[s] # "tripping"
  BY <1>1, <1>2, ReleaseStep DEF SaveTrip
<1>4. /\ db' \in State
      /\ rowFailed' \in BOOLEAN
      /\ db'.count = 0
      /\ db'.tripped <= clock + Cooldown
      /\ rowFailed' \/ db'.tripped = tripped
  <2>1. CASE db' = arg[r] /\ rowFailed' = FALSE
    <3>1. db' \in State /\ rowFailed' \in BOOLEAN
      BY <2>1 DEF BreakerTypeOK
    <3>2. db'.count = 0 /\ db'.tripped <= clock + Cooldown
      BY <2>1 DEF LocalsOK, WindowBounded
    <3>3. db'.tripped = tripped
      BY <2>1 DEF TripSavedFromMemory, SaveTrip
    <3> QED BY <3>1, <3>2, <3>3
  <2>2. CASE db' = db /\ rowFailed' = TRUE
    BY <2>2 DEF BreakerTypeOK, LocalsOK, WindowBounded
  <2> QED BY <2>1, <2>2 DEF SaveTrip, SaveState
<1>5. /\ Cleared.count = 0
      /\ Cleared.tripped = 0
      /\ 0 <= clock + Cooldown
  BY BreakerAssumption DEF Cleared, BreakerTypeOK
<1>6. BreakerTypeOK'
  BY <1>2, <1>3, <1>4 DEF BreakerTypeOK, SaveTrip
<1>7. TripSavedFromMemory'
  BY <1>3 DEF TripSavedFromMemory
<1>8. NoReaccumulation'
  BY DEF NoReaccumulation, SaveTrip
<1>9. WindowBounded'
  BY <1>2, <1>4, <1>5 DEF WindowBounded, SaveTrip
<1>10. PersistedWindowIsCurrent'
  BY <1>4 DEF PersistedWindowIsCurrent, SaveTrip
<1>11. LocalsOK'
  BY <1>2, <1>4, <1>5 DEF LocalsOK, SaveTrip, BreakerTypeOK
<1> QED BY <1>3, <1>6, <1>7, <1>8, <1>9, <1>10, <1>11

\* The save of a reset writes a cleared row, however late it comes.
LEMMA SaveResetInv ==
  ASSUME BreakerInv, NEW r \in Request, SaveReset(r)
  PROVE  BreakerInv'
<1> USE DEF BreakerInv
<1>1. /\ phase' \in [Request -> Phase]
      /\ now' \in [Request -> Nat]
      /\ arg' \in [Request -> State]
      /\ phase' = [phase EXCEPT ![r] = "out"]
      /\ \A s \in Request :
           /\ phase'[s] = IF s = r THEN "out" ELSE phase[s]
           /\ now'[s] = IF s = r THEN 0 ELSE now[s]
           /\ arg'[s] = IF s = r THEN Cleared ELSE arg[s]
  BY LeaveLocals DEF SaveReset
<1>2. \A s \in Request : phase'[s] \in Queued <=> phase[s] \in Queued
  BY <1>1 DEF Queued, SaveReset
<1>3. \A s \in Request : phase'[s] = "tripping" => phase[s] = "tripping" /\ s # r
  BY <1>1
<1>4. LockDiscipline'
  <2>1. queue' = queue
    BY DEF SaveReset
  <2> QED BY <1>2, <1>3, <2>1, LockMembers, LockMembersPrime DEF Owner
<1>5. /\ Cleared \in State
      /\ Cleared.count = 0
      /\ Cleared.tripped = 0
      /\ 0 <= clock + Cooldown
  BY BreakerAssumption DEF Cleared, State, BreakerTypeOK
<1>6. /\ db' \in State
      /\ rowFailed' \in BOOLEAN
      /\ db'.count = 0
      /\ db'.tripped <= clock + Cooldown
      /\ rowFailed' \/ db'.tripped = 0
  <2>1. CASE db' = arg[r] /\ rowFailed' = FALSE
    <3>1. db' = Cleared
      BY <2>1 DEF LocalsOK, SaveReset
    <3> QED BY <1>5, <2>1, <3>1
  <2>2. CASE db' = db /\ rowFailed' = TRUE
    BY <2>2 DEF BreakerTypeOK, LocalsOK, WindowBounded
  <2> QED BY <2>1, <2>2 DEF SaveReset, SaveState
<1>7. BreakerTypeOK'
  BY <1>1, <1>6 DEF BreakerTypeOK, SaveReset
<1>8. TripSavedFromMemory'
  BY <1>1, <1>3 DEF TripSavedFromMemory, SaveReset
<1>9. NoReaccumulation'
  BY DEF NoReaccumulation, SaveReset
<1>10. WindowBounded'
  BY <1>1, <1>5, <1>6 DEF WindowBounded, SaveReset
<1>11. PersistedWindowIsCurrent'
  BY <1>6 DEF PersistedWindowIsCurrent
<1>12. LocalsOK'
  BY <1>1, <1>5, <1>6 DEF LocalsOK, SaveReset, BreakerTypeOK
<1> QED BY <1>1, <1>4, <1>7, <1>8, <1>9, <1>10, <1>11, <1>12

LEMMA TickInv ==
  ASSUME BreakerInv, Tick
  PROVE  BreakerInv'
<1> USE DEF BreakerInv, Tick
<1>1. /\ clock' \in Nat
      /\ clock' = clock + 1
  BY DEF BreakerTypeOK
<1>2. BreakerTypeOK'
  BY <1>1 DEF BreakerTypeOK
<1>3. LockDiscipline'
  BY DEF LockDiscipline, Owner
<1>4. TripSavedFromMemory'
  BY DEF TripSavedFromMemory
<1>5. NoReaccumulation'
  BY <1>1 DEF NoReaccumulation, BreakerTypeOK
<1>6. WindowBounded'
  <2>1. /\ tripped \in Nat
        /\ db.tripped \in Nat
        /\ \A s \in Request : arg[s].tripped \in Nat
        /\ clock \in Nat
        /\ Cooldown \in Nat
    BY BreakerAssumption DEF BreakerTypeOK, State
  <2> QED BY <1>1, <2>1 DEF WindowBounded
<1>7. PersistedWindowIsCurrent'
  BY DEF PersistedWindowIsCurrent, SavesOutstanding
<1>8. LocalsOK'
  BY <1>1 DEF LocalsOK, BreakerTypeOK
<1> QED BY <1>2, <1>3, <1>4, <1>5, <1>6, <1>7, <1>8

\* After a restart the globals are what the row says, or cleared if it was not
\* read: its count is 0, its window is bounded, so a restart trips nothing by
\* itself.
LEMMA RestartInv ==
  ASSUME BreakerInv, Restart
  PROVE  BreakerInv'
<1> USE DEF BreakerInv
<1>1. /\ Cleared \in State
      /\ Cleared.count = 0
      /\ Cleared.tripped = 0
      /\ 0 <= clock + Cooldown
  BY BreakerAssumption DEF Cleared, State, BreakerTypeOK
<1>2. /\ db' \in State
      /\ db'.count = 0
      /\ db'.tripped \in Nat
      /\ db'.tripped <= clock + Cooldown
  <2>1. db' = db \/ db' = Cleared
    BY DEF Restart
  <2>2. db \in State /\ db.count = 0 /\ db.tripped <= clock + Cooldown
    BY DEF BreakerTypeOK, LocalsOK, WindowBounded
  <2> QED BY <1>1, <2>1, <2>2 DEF State
<1>3. /\ count' = 0 /\ clock' = clock
      /\ tripped' = db'.tripped \/ (tripped' = 0 /\ rowFailed')
  BY <1>2 DEF Restart, LoadState
<1>4. \A s \in Request :
        phase'[s] = "out" /\ now'[s] = 0 /\ arg'[s] = Cleared
  BY DEF Restart
<1>5. BreakerTypeOK'
  <2>1. queue' \in Seq(Request)
    BY DEF Restart
  <2>2. phase' \in [Request -> Phase] /\ now' \in [Request -> Nat]
    BY DEF Restart, Phase
  <2>3. arg' \in [Request -> State]
    BY <1>1 DEF Restart
  <2>4. boot' \in Nat
    BY DEF Restart, BreakerTypeOK
  <2>5. rowFailed' \in BOOLEAN
    BY DEF Restart, LoadState
  <2>6. clock' \in Nat
    BY <1>3 DEF BreakerTypeOK
  <2> QED BY <1>2, <1>3, <2>1, <2>2, <2>3, <2>4, <2>5, <2>6 DEF BreakerTypeOK
<1>6. LockDiscipline'
  <2>1. queue' = <<>>
    BY DEF Restart
  <2>2. Members(queue') = {} /\ Distinct(queue')
    BY <2>1 DEF Members, Distinct
  <2> QED BY <1>4, <2>2, LockMembersPrime DEF Queued
<1>7. TripSavedFromMemory'
  BY <1>4 DEF TripSavedFromMemory
<1>8. NoReaccumulation'
  BY <1>3, BreakerAssumption DEF NoReaccumulation
<1>9. WindowBounded'
  BY <1>1, <1>2, <1>3, <1>4 DEF WindowBounded
<1>10. PersistedWindowIsCurrent'
  BY <1>3 DEF PersistedWindowIsCurrent
<1>11. LocalsOK'
  BY <1>1, <1>2, <1>3, <1>4 DEF LocalsOK, BreakerTypeOK
<1> QED BY <1>5, <1>6, <1>7, <1>8, <1>9, <1>10, <1>11

LEMMA StutterInv ==
  ASSUME BreakerInv, UNCHANGED breakerVars
  PROVE  BreakerInv'
BY DEF BreakerInv, breakerVars, BreakerTypeOK, LockDiscipline, Owner,
       TripSavedFromMemory, NoReaccumulation, WindowBounded,
       PersistedWindowIsCurrent, SavesOutstanding, LocalsOK

LEMMA StepInv ==
  ASSUME BreakerInv, [BreakerNext]_breakerVars
  PROVE  BreakerInv'
<1>1. ASSUME NEW r \in Request, WaitEscalate(r) PROVE BreakerInv'
  BY <1>1, WaitEscalateInv
<1>2. ASSUME NEW r \in Request, WaitResolve(r) PROVE BreakerInv'
  BY <1>2, WaitResolveInv
<1>3. ASSUME NEW r \in Request, LockStep(r) PROVE BreakerInv'
  BY <1>3, RefuseInv, GrantInv, TripInv, ResolveInv DEF LockStep
<1>4. ASSUME NEW r \in Request, SaveStep(r) PROVE BreakerInv'
  BY <1>4, SaveTripInv, SaveResetInv DEF SaveStep
<1> QED
  BY <1>1, <1>2, <1>3, <1>4, TickInv, RestartInv, StutterInv DEF BreakerNext

-----------------------------------------------------------------------------
\* The inductive invariant holds in every behaviour of the breaker.
THEOREM BreakerInvariant == BreakerSpec => []BreakerInv
BY InitInv, StepInv, PTL DEF BreakerSpec

\* Every variable of the breaker keeps its type.
THEOREM BreakerTyped == BreakerSpec => []BreakerTypeOK
BY BreakerInvariant, PTL DEF BreakerInv

\* _escalate_lock is a mutex with a duplicate-free FIFO queue, and whoever
\* awaits the save of a trip still owns it.
THEOREM BreakerLock == BreakerSpec => []LockDiscipline
BY BreakerInvariant, PTL DEF BreakerInv

\* A trip is saved as memory holds it: nobody changes the globals meanwhile.
THEOREM BreakerTripSaved == BreakerSpec => []TripSavedFromMemory
BY BreakerInvariant, PTL DEF BreakerInv

\* The count stays below the limit, and at 0 while the window is open.
THEOREM BreakerNoReaccumulation == BreakerSpec => []NoReaccumulation
BY BreakerInvariant, PTL DEF BreakerInv

\* No window, in memory, in the row or on its way to it, ends later than one
\* cooldown from now.
THEOREM BreakerWindowBounded == BreakerSpec => []WindowBounded
BY BreakerInvariant, PTL DEF BreakerInv

\* When every save is through, a window in the row is the one in memory.
THEOREM BreakerPersisted == BreakerSpec => []PersistedWindowIsCurrent
BY BreakerInvariant, PTL DEF BreakerInv

-----------------------------------------------------------------------------
LEMMA InitImplements == BreakerInit => Contract!ContractInit
BY DEF BreakerInit, Contract!ContractInit

\* Waiting, being refused and saving are invisible to the contract; each of
\* the other steps is one of its actions.
LEMMA StepImplements ==
  ASSUME BreakerInv, [BreakerNext]_breakerVars
  PROVE  [Contract!ContractNext]_Contract!contractVars
<1> USE DEF Contract!ContractNext, Contract!contractVars
<1>1. ASSUME NEW r \in Request, WaitEscalate(r) \/ WaitResolve(r) \/ Refuse(r)
      PROVE  UNCHANGED Contract!contractVars
  BY <1>1 DEF WaitEscalate, WaitResolve, Refuse
<1>2. ASSUME NEW r \in Request, SaveTrip(r) \/ SaveReset(r)
      PROVE  UNCHANGED Contract!contractVars
  BY <1>2 DEF SaveTrip, SaveReset
<1>3. ASSUME NEW r \in Request, ~(SampledNow(r) < tripped)
      PROVE  ~Contract!Open
  BY <1>3, SampledInPast DEF Contract!Open, BreakerInv, BreakerTypeOK
<1>4. ASSUME NEW r \in Request, Grant(r) PROVE Contract!GrantEscalation
  BY <1>3, <1>4 DEF Grant, Contract!GrantEscalation
<1>5. ASSUME NEW r \in Request, Trip(r) PROVE Contract!OpenWindow
  <2>1. ~Contract!Open
    BY <1>3, <1>5 DEF Trip
  <2>2. count + 1 = Limit
    BY <1>5, BreakerAssumption
       DEF Trip, BreakerInv, BreakerTypeOK, NoReaccumulation
  <2>3. tripped' \in 0 .. clock + Cooldown
    BY <1>5, SampledInPast, BreakerAssumption DEF Trip, BreakerInv, BreakerTypeOK
  <2> QED BY <1>5, <2>1, <2>2, <2>3 DEF Trip, Contract!OpenWindow
<1>6. ASSUME NEW r \in Request, Resolve(r) PROVE Contract!CloseWindow
  BY <1>6 DEF Resolve, Contract!CloseWindow
<1>7. ASSUME Tick PROVE Contract!TimePasses
  BY <1>7 DEF Tick, Contract!TimePasses, BreakerInv, BreakerTypeOK
<1>8. ASSUME Restart PROVE Contract!ReloadState
  <2>1. BreakerInv'
    BY <1>8, RestartInv
  <2>2. count' = 0 /\ clock' = clock /\ boot' = boot + 1
    BY <1>8, <2>1 DEF Restart, LoadState, BreakerInv, LocalsOK
  <2>3. tripped' \in 0 .. clock + Cooldown
    BY <2>1, <2>2, BreakerAssumption
       DEF BreakerInv, BreakerTypeOK, WindowBounded
  <2> QED BY <2>2, <2>3 DEF Contract!ReloadState
<1>9. ASSUME UNCHANGED breakerVars PROVE UNCHANGED Contract!contractVars
  BY <1>9 DEF breakerVars
<1> QED
  BY <1>1, <1>2, <1>4, <1>5, <1>6, <1>7, <1>8, <1>9
     DEF BreakerNext, LockStep, SaveStep

\* The breaker with its lock, threads and row implements the atomic breaker
\* of BreakerContract.
THEOREM BreakerImplements == BreakerSpec => ImplementsContract
<1>1. BreakerSpec => []BreakerInv
  BY BreakerInvariant
<1> QED
  BY <1>1, InitImplements, StepImplements, PTL
     DEF BreakerSpec, ImplementsContract, Contract!ContractSpec
=============================================================================
