------------------------------- MODULE Lease -------------------------------
(***************************************************************************)
(* High availability (src/ha): gateway instances share a lease file that   *)
(* says who is primary, every access under an OS file lock that is given   *)
(* up after a timeout (lease.py, file_lock.py); the coordinator            *)
(* (failover.py) takes over from an expired primary and lets only the      *)
(* primary through guard_write.                                            *)
(*                                                                         *)
(* All instances of a host read one monotonic clock.  Deadlines are kept   *)
(* as the time left until they pass, so that every comparison of           *)
(* expires_at with monotonic() is one of the time left with 0 or with      *)
(* -Tolerance, and the model needs no horizon.                             *)
(***************************************************************************)
EXTENDS Integers, FiniteSets

CONSTANTS
  Instance,        \* gateway processes; each makes up its own owner_id
  NoInstance,
  Ttl,             \* the lease's ttl
  Tolerance,       \* CLOCK_TOLERANCE
  MaxFileErrors    \* bound on the accesses to the lease file that fail

ASSUME LeaseAssumption ==
  /\ Ttl \in Nat \ {0} /\ Tolerance \in Nat /\ NoInstance \notin Instance

VARIABLES
  leaseOwner,    \* owner_id in ha.lease.json, NoInstance without a file
  leaseLeft,     \* its expires_at, minus now
  leaseLock,     \* holder of ha.lease.lock
  ha,            \* each instance's operation: [pc, op, left], left the
                 \* deadline it read or is about to write, minus now
  alive,         \* instances still running
  fileErrors,    \* accesses to the lease file that failed so far
  overlap,       \* history: ticks since the lease last changed hands
  misread        \* history: a lease in force was taken for none by try_acquire

leaseVars == <<leaseOwner, leaseLeft, leaseLock, ha, alive, fileErrors, overlap, misread>>

leaseFile == <<leaseOwner, leaseLeft, overlap>>
errorVars == <<fileErrors, misread>>

Operation == {"acquire", "renew", "release", "guard", "recover"}
Later(left) == IF left > -(Tolerance + 1) THEN left - 1 ELSE left

Idle == [pc |-> "idle", op |-> "renew", left |-> 0]

LeaseInit ==
  /\ leaseOwner = NoInstance /\ leaseLeft = 0
  /\ leaseLock = NoInstance
  /\ ha = [p \in Instance |-> Idle]
  /\ alive = Instance
  /\ overlap = 0
  /\ fileErrors = 0 /\ misread = FALSE

At(p, pc) == p \in alive /\ ha[p].pc = pc
Go(p, pc, left) == ha' = [ha EXCEPT ![p].pc = pc, ![p].left = left]
Return(p) == ha' = [ha EXCEPT ![p] = Idle]

Call(p, op) ==
  /\ At(p, "idle")
  /\ ha' = [ha EXCEPT ![p] = [pc |-> "lock", op |-> op, left |-> 0]]
  /\ UNCHANGED <<leaseFile, leaseLock, alive, errorVars>>

\* FileLock.acquire polls the lock without blocking ...
TakeLock(p) ==
  /\ At(p, "lock") /\ leaseLock = NoInstance
  /\ leaseLock' = p
  /\ Go(p, "read", 0)
  /\ UNCHANGED <<leaseFile, alive, errorVars>>

\* ... until its deadline: every operation then answers no and changes nothing.
LockTimeout(p) ==
  /\ At(p, "lock") /\ leaseLock # NoInstance
  /\ Return(p)
  /\ UNCHANGED <<leaseFile, leaseLock, alive, errorVars>>

\* The caller writes a lease of Ttl from now, or is refused and unlocks.
WriteOrRefuse(p, may) ==
  /\ IF may THEN Go(p, "write", Ttl) /\ UNCHANGED leaseLock
            ELSE Return(p) /\ leaseLock' = NoInstance
  /\ UNCHANGED leaseFile

\* Mutant: renewing takes the lease whoever has it.
RenewStep_AnyOwner(p, owner) == WriteOrRefuse(p, owner # NoInstance)

\* renew checks the owner only: an expired lease nobody took is revived.
RenewStep(p, owner) == WriteOrRefuse(p, owner = p)

\* release unlinks its own lease file.
ReleaseStep(p, owner) ==
  /\ Return(p) /\ leaseLock' = NoInstance
  /\ leaseOwner' = IF owner = p THEN NoInstance ELSE leaseOwner
  /\ UNCHANGED <<leaseLeft, overlap>>

\* try_acquire refuses only what has not expired, without any tolerance.
AcquireStep(p, owner) == WriteOrRefuse(p, ~(owner # NoInstance /\ leaseLeft > 0))

\* is_active and is_expired leave the lock and compare what they read later.
QueryStep(p, owner) ==
  /\ leaseLock' = NoInstance
  /\ IF owner = p \/ (ha[p].op = "recover" /\ owner # NoInstance)
     THEN Go(p, "compare", leaseLeft) ELSE Return(p)
  /\ UNCHANGED leaseFile

OperationStep(p, owner) ==
  \/ ha[p].op = "acquire" /\ AcquireStep(p, owner)
  \/ ha[p].op = "renew"   /\ RenewStep(p, owner)
  \/ ha[p].op = "release" /\ ReleaseStep(p, owner)
  \/ ha[p].op \in {"guard", "recover"} /\ QueryStep(p, owner)

ReadLease(p) ==
  /\ At(p, "read")
  /\ OperationStep(p, leaseOwner)
  /\ UNCHANGED <<alive, errorVars>>

\* A file that cannot be read or parsed counts as no lease.
MisreadLease(p) ==
  /\ At(p, "read") /\ leaseOwner # NoInstance
  /\ fileErrors < MaxFileErrors
  /\ fileErrors' = fileErrors + 1
  /\ OperationStep(p, NoInstance)
  /\ misread' = (misread \/ (ha[p].op = "acquire" /\ leaseLeft > 0))
  /\ UNCHANGED alive

\* A file that parses to no JSON object (.get raises), a write or os.replace that
\* raises, an unlink whose OSError release swallows: the lock is left and the
\* lease stays as it was.
FileFails(p) ==
  /\ At(p, "write") \/ (At(p, "read") /\ leaseOwner # NoInstance)
  /\ fileErrors < MaxFileErrors
  /\ fileErrors' = fileErrors + 1
  /\ leaseLock' = NoInstance
  /\ Return(p)
  /\ UNCHANGED <<leaseFile, alive, misread>>

\* _write_lease_locked: os.replace, then the lock is left.
WriteLease(p) ==
  /\ At(p, "write")
  /\ overlap' = IF leaseOwner = p THEN overlap ELSE 0
  /\ leaseOwner' = p /\ leaseLeft' = ha[p].left
  /\ leaseLock' = NoInstance
  /\ Return(p)
  /\ UNCHANGED <<alive, errorVars>>

\* Mutant: is_active compares the owner only.
CompareGuard_OwnerOnly(p) == Go(p, "guarded", 0)

\* guard_write lets the primary write up to Tolerance past the expiry ...
CompareGuard(p) == IF ha[p].left >= -Tolerance THEN Go(p, "guarded", 0) ELSE Return(p)

\* Mutant: recover takes an unexpired lease for one to be renewed.
CompareRecover_Never(p) == Return(p)

\* ... and recover goes on to try_acquire only later than that.
CompareRecover(p) ==
  IF ha[p].left < -Tolerance
  THEN ha' = [ha EXCEPT ![p] = [pc |-> "lock", op |-> "acquire", left |-> 0]]
  ELSE Return(p)

Compare(p) ==
  /\ At(p, "compare")
  /\ \/ ha[p].op = "guard" /\ CompareGuard(p)
     \/ ha[p].op = "recover" /\ CompareRecover(p)
  /\ UNCHANGED <<leaseFile, leaseLock, alive, errorVars>>

\* The write that guard_write was called for.
StorageWrite(p) ==
  /\ At(p, "guarded")
  /\ Return(p)
  /\ UNCHANGED <<leaseFile, leaseLock, alive, errorVars>>

\* A process dies and the OS drops its lock; one instance is left to live.
Crash(p) ==
  /\ p \in alive /\ Cardinality(alive) > 1
  /\ alive' = alive \ {p}
  /\ leaseLock' = IF leaseLock = p THEN NoInstance ELSE leaseLock
  /\ Return(p)
  /\ UNCHANGED <<leaseFile, errorVars>>

LeaseTick ==
  /\ leaseLeft' = Later(leaseLeft)
  /\ ha' = [p \in Instance |->
              IF ha[p].pc \in {"compare", "write"}
              THEN [ha[p] EXCEPT !.left = Later(@)] ELSE ha[p]]
  /\ overlap' = IF overlap > Tolerance THEN overlap ELSE overlap + 1
  /\ UNCHANGED <<leaseOwner, leaseLock, alive, errorVars>>

HaStep(p) ==
  \/ TakeLock(p) \/ LockTimeout(p) \/ ReadLease(p) \/ MisreadLease(p)
  \/ FileFails(p) \/ WriteLease(p) \/ Compare(p) \/ StorageWrite(p)

LeaseNext ==
  \/ LeaseTick
  \/ \E p \in Instance : Crash(p) \/ HaStep(p) \/ \E op \in Operation : Call(p, op)

\* Time passes, and an operation that was called goes on.  That anybody calls
\* one, or gets the lock in time, is not the code's to promise.
LeaseFairness ==
  /\ WF_leaseVars(LeaseTick)
  /\ \A p \in Instance : WF_leaseVars(HaStep(p))

LeaseSpec == LeaseInit /\ [][LeaseNext]_leaseVars /\ LeaseFairness
-----------------------------------------------------------------------------
\* The tolerance bounds the split: an instance that guard_write lets through
\* although another holds the lease by then, because it read the lease before
\* the takeover or its clock comparison came late, is let through at most
\* Tolerance after that takeover (unless a read error made the takeover early).
SplitIsBounded ==
  [][\A p \in Instance :
       ha[p].pc # "guarded" /\ ha'[p].pc = "guarded"
         => misread \/ leaseOwner \in {p, NoInstance} \/ overlap <= Tolerance]_leaseVars

\* The lease changes hands only after it ran out or was released, whatever the
\* instances were doing when the file lock changed hands.
TakeoverAfterExpiry ==
  [][NoInstance \notin {leaseOwner, leaseOwner'} /\ leaseOwner' # leaseOwner
       => misread \/ leaseLeft <= 0]_leaseVars

\* A crashed primary is replaced as long as one survivor's caller keeps polling
\* recover and, from some time on, its wait for the file lock is not given up:
\* whatever the other survivors do, and whichever of the two locks a recovery
\* takes (the one to see the expiry, the one to acquire) comes to them first.
\* Without the second condition two survivors can time each other out for ever.
CrashedIsReplaced ==
  \A p \in Instance :
    []<><<Call(p, "recover")>>_leaseVars /\ <>[][~LockTimeout(p)]_leaseVars
      => (leaseOwner \notin alive /\ leaseOwner # NoInstance ~> leaseOwner \in alive)
=============================================================================
