--------------------------- MODULE GatewayProofs ---------------------------
(***************************************************************************)
(* Proofs about Gateway: the request handlers use the breaker as Breaker   *)
(* describes it, so what is proved of the breaker alone holds of the       *)
(* breaker inside the gateway, for any number of handlers and traces.      *)
(* What the handlers themselves promise needs what each of them keeps      *)
(* between two steps, while others revoke traces and take the breaker.     *)
(***************************************************************************)
EXTENDS Gateway, BreakerProofs, SequenceTheorems

\* Whatever a handler does in an ESCALATE branch is a step of the breaker.
LEMMA EscalateStepDrives ==
  ASSUME NEW r \in Request, EscalateStep(r)
  PROVE  BreakerNext
BY DEF EscalateStep, BreakerNext, LockStep

LEMMA DecisionDrives ==
  ASSUME NEW r \in Request, Decision(r)
  PROVE  [BreakerNext]_breakerVars
<1>1. CASE Reject(r) \/ DecideDirectly(r) \/ DecideChat(r)
  <2>1. UNCHANGED breakerVars
    BY <1>1 DEF Reject, DecideDirectly, DecideChat
  <2> QED BY <2>1
<1>2. CASE DecideEscalate(r)
  BY <1>2, EscalateStepDrives DEF DecideEscalate
<1>3. CASE DecideResolving(r)
  BY <1>3 DEF DecideResolving, BreakerNext, LockStep
<1> QED BY <1>1, <1>2, <1>3 DEF Decision

LEMMA LeaveBreakerDrives ==
  ASSUME NEW r \in Request, LeaveBreaker(r)
  PROVE  BreakerNext
<1>1. CASE EscalateStep(r)
  BY <1>1, EscalateStepDrives
<1>2. CASE Resolve(r) \/ SaveTrip(r) \/ SaveReset(r)
  BY <1>2 DEF BreakerNext, LockStep, SaveStep
<1> QED BY <1>1, <1>2 DEF LeaveBreaker

LEMMA StepDrives ==
  ASSUME [GatewayNext]_gatewayVars
  PROVE  [BreakerNext]_breakerVars
<1>1. ASSUME NEW r \in Request, NEW endpoint, NEW t, Accept(r, endpoint, t)
      PROVE  UNCHANGED breakerVars
  BY <1>1 DEF Accept
<1>2. ASSUME NEW r \in Request, HandlerStep(r)
      PROVE  [BreakerNext]_breakerVars
  <2>1. CASE Decision(r)
    BY <2>1, DecisionDrives
  <2>2. CASE LeaveBreaker(r)
    BY <2>2, LeaveBreakerDrives
  <2>3. CASE SaveDecision(r) \/ Answer(r)
    <3>1. UNCHANGED breakerVars
      BY <2>3 DEF SaveDecision, Answer
    <3> QED BY <3>1
  <2> QED BY <1>2, <2>1, <2>2, <2>3 DEF HandlerStep
<1>3. ASSUME NEW t \in Trace, FinishAudit(t)
      PROVE  UNCHANGED breakerVars
  BY <1>3 DEF FinishAudit
<1>4. ASSUME GatewayTick \/ GatewayRestart
      PROVE  BreakerNext
  BY <1>4 DEF GatewayTick, GatewayRestart, BreakerNext
<1>5. ASSUME UNCHANGED gatewayVars
      PROVE  UNCHANGED breakerVars
  BY <1>5 DEF gatewayVars
<1> QED BY <1>1, <1>2, <1>3, <1>4, <1>5 DEF GatewayNext

-----------------------------------------------------------------------------
\* Every behaviour of the gateway is one of the breaker: the handlers take
\* its steps or leave its state alone.
LEMMA GatewayDrivesBreaker == GatewaySpec => BreakerSpec
<1>1. GatewayInit => BreakerInit
  BY DEF GatewayInit
<1> QED
  BY <1>1, StepDrives, PTL
     DEF GatewaySpec, BreakerSpec

\* The invariants of the breaker hold in the gateway.
THEOREM GatewayKeepsBreakerInv == GatewaySpec => []BreakerInv
BY GatewayDrivesBreaker, BreakerInvariant, PTL

\* The breaker inside the gateway implements the atomic breaker.
THEOREM GatewayImplementsContract == GatewaySpec => ImplementsContract
BY GatewayDrivesBreaker, BreakerImplements, PTL

-----------------------------------------------------------------------------
\* What the invariants of the handlers rest on beside one another: nothing is
\* decided before a handler saves its decision, a handler that serves a request
\* knows its trace, and a stop that was noted while the request was undecided is
\* still in the registry.
RequestsOK ==
  \A r \in Request :
    /\ pc[r] \in {"idle", "policy"} => verdict[r] = None
    /\ pc[r] # "idle" => trace[r] \in Trace
    /\ pc[r] \in {"policy", "breaker"} /\ stopped[r] => Revoked(trace[r])

HandlersInv ==
  /\ GatewayTypeOK
  /\ HandlerInBreaker
  /\ FailClosed
  /\ InterceptStopsRevoked
  /\ RegistryBounded
  /\ RequestsOK

GatewayInv == BreakerInv /\ HandlersInv

\* Removing one entry keeps the others in their order.
LEMMA RemoveAtEntries ==
  ASSUME NEW S, NEW q \in Seq(S), NEW i \in 1 .. Len(q)
  PROVE  /\ RemoveAt(q, i) \in Seq(S)
         /\ Len(RemoveAt(q, i)) = Len(q) - 1
         /\ \A j \in 1 .. Len(q) - 1 :
              RemoveAt(q, i)[j] = IF j < i THEN q[j] ELSE q[j + 1]
<1> DEFINE a == SubSeq(q, 1, i - 1)
           b == SubSeq(q, i + 1, Len(q))
<1>1. /\ a \in Seq(S)
      /\ Len(a) = i - 1
      /\ \A j \in 1 .. i - 1 : a[j] = q[j]
  OBVIOUS
<1>2. /\ b \in Seq(S)
      /\ Len(b) = Len(q) - i
      /\ \A j \in 1 .. Len(q) - i : b[j] = q[j + i]
  OBVIOUS
<1> HIDE DEF a, b
<1>3. /\ a \o b \in Seq(S)
      /\ Len(a \o b) = Len(a) + Len(b)
      /\ \A j \in 1 .. Len(a) + Len(b) :
           (a \o b)[j] = IF j <= Len(a) THEN a[j] ELSE b[j - Len(a)]
  BY <1>1, <1>2, ConcatProperties
<1>4. Len(q) \in Nat /\ Len(a) + Len(b) = Len(q) - 1
  BY <1>1, <1>2
<1>5. ASSUME NEW j \in 1 .. Len(q) - 1
      PROVE  (a \o b)[j] = IF j < i THEN q[j] ELSE q[j + 1]
  <2>1. CASE j < i
    BY <1>1, <1>3, <1>4, <2>1
  <2>2. CASE ~(j < i)
    <3>1. j - Len(a) \in 1 .. Len(q) - i /\ (j - Len(a)) + i = j + 1
      BY <1>1, <1>4, <2>2
    <3>2. (a \o b)[j] = b[j - Len(a)]
      BY <1>1, <1>3, <1>4, <2>2
    <3> QED BY <1>2, <2>2, <3>1, <3>2
  <2> QED BY <2>1, <2>2
<1>6. RemoveAt(q, i) = a \o b
  BY DEF RemoveAt, a, b
<1> QED BY <1>3, <1>4, <1>5, <1>6

\* Without removes the trace, and nothing but it.
LEMMA WithoutEntries ==
  ASSUME NEW S, NEW q \in Seq(S), Distinct(q), NEW t \in S
  PROVE  /\ Without(q, t) \in Seq(S)
         /\ Distinct(Without(q, t))
         /\ Members(Without(q, t)) = Members(q) \ {t}
         /\ t \in Members(q) => Len(Without(q, t)) = Len(q) - 1
         /\ t \notin Members(q) => Without(q, t) = q
<1>1. /\ Len(q) \in Nat
      /\ DOMAIN q = 1 .. Len(q)
      /\ ToSet(q) = Members(q)
  BY DEF ToSet, Members
<1>2. CASE t \notin Members(q)
  BY <1>1, <1>2 DEF Without
<1>3. CASE t \in Members(q)
  <2> DEFINE i == CHOOSE k \in DOMAIN q : q[k] = t
             p == RemoveAt(q, i)
  <2>1. i \in 1 .. Len(q) /\ q[i] = t
    BY <1>1, <1>3 DEF Members
  <2>2. Without(q, t) = p
    BY <1>1, <1>3 DEF Without
  <2> HIDE DEF i
  <2>3. /\ p \in Seq(S)
        /\ Len(p) = Len(q) - 1
        /\ \A j \in 1 .. Len(q) - 1 : p[j] = IF j < i THEN q[j] ELSE q[j + 1]
    BY <2>1, RemoveAtEntries
  <2> HIDE DEF p
  <2> DEFINE from(j) == IF j < i THEN j ELSE j + 1
  <2>4. \A j \in 1 .. Len(p) :
          from(j) \in 1 .. Len(q) /\ from(j) # i /\ p[j] = q[from(j)]
    BY <1>1, <2>1, <2>3
  <2>5. \A j, k \in 1 .. Len(p) : from(j) = from(k) => j = k
    BY <1>1, <2>1, <2>3
  <2>6. \A k \in 1 .. Len(q) : k # i => \E j \in 1 .. Len(p) : from(j) = k
    <3> SUFFICES ASSUME NEW k \in 1 .. Len(q), k # i
                 PROVE  \E j \in 1 .. Len(p) : from(j) = k
      OBVIOUS
    <3>1. CASE k < i
      BY <1>1, <2>1, <2>3, <3>1
    <3>2. CASE k > i
      <4>1. k - 1 \in 1 .. Len(p) /\ from(k - 1) = k
        BY <1>1, <2>1, <2>3, <3>2
      <4> QED BY <4>1
    <3> QED BY <2>1, <3>1, <3>2
  <2> HIDE DEF from
  <2>7. Distinct(p)
    BY <2>4, <2>5 DEF Distinct
  <2>8. \A k \in 1 .. Len(q) : q[k] = t <=> k = i
    BY <2>1 DEF Distinct
  <2>9. Members(p) = Members(q) \ {t}
    <3>1. Members(p) \subseteq Members(q) \ {t}
      BY <2>4, <2>8 DEF Members
    <3>2. ASSUME NEW k \in 1 .. Len(q), q[k] # t
          PROVE  q[k] \in Members(p)
      BY <2>1, <2>4, <2>6, <3>2 DEF Members
    <3> QED BY <3>1, <3>2 DEF Members
  <2> QED BY <1>3, <2>2, <2>3, <2>7, <2>9
<1> QED BY <1>2, <1>3

\* Revoking keeps the registry free of repetitions and within its capacity, and
\* the trace just revoked is never the one that is evicted.
LEMMA WithRevokedEntries ==
  ASSUME registry \in Seq(Trace), RegistryBounded, NEW t \in Trace
  PROVE  /\ WithRevoked(t) \in Seq(Trace)
         /\ Len(WithRevoked(t)) <= RevokeMax
         /\ Distinct(WithRevoked(t))
         /\ t \in ToSet(WithRevoked(t))
<1> DEFINE kept == Without(registry, t)
           renewed == Append(kept, t)
<1>1. /\ Distinct(registry)
      /\ Len(registry) <= RevokeMax
      /\ Len(registry) \in Nat
      /\ RevokeMax \in Nat \ {0}
  BY GatewayAssumption DEF RegistryBounded, Distinct
<1>2. /\ kept \in Seq(Trace)
      /\ Distinct(kept)
      /\ t \notin Members(kept)
      /\ Len(kept) <= Len(registry)
  <2>1. /\ kept \in Seq(Trace)
        /\ Distinct(kept)
        /\ Members(kept) = Members(registry) \ {t}
        /\ t \in Members(registry) => Len(kept) = Len(registry) - 1
        /\ t \notin Members(registry) => kept = registry
    BY <1>1, WithoutEntries
  <2> QED BY <1>1, <2>1
<1> HIDE DEF kept
<1>3. /\ renewed \in Seq(Trace)
      /\ renewed # <<>>
      /\ Distinct(renewed)
      /\ Len(renewed) = Len(kept) + 1
      /\ Len(kept) \in Nat
      /\ renewed[Len(kept) + 1] = t
  BY <1>2, AppendMembers, AppendProperties
<1> HIDE DEF renewed
<1>4. WithRevoked(t) = IF Len(renewed) > RevokeMax THEN Tail(renewed) ELSE renewed
  BY DEF WithRevoked, renewed, kept
<1>5. CASE Len(renewed) > RevokeMax
  <2> DEFINE rest == Tail(renewed)
  <2>1. /\ rest \in Seq(Trace)
        /\ Distinct(rest)
        /\ Members(rest) = Members(renewed) \ {Head(renewed)}
    BY <1>3, TailMembers
  <2>2. Len(rest) = Len(renewed) - 1
    BY <1>3, HeadTailProperties
  <2>3. Head(renewed) = renewed[1] /\ 1 # Len(kept) + 1
    BY <1>1, <1>3, <1>5
  <2>4. t # Head(renewed) /\ t \in Members(renewed)
    BY <1>3, <2>3 DEF Distinct, Members
  <2>5. t \in ToSet(rest)
    <3> HIDE DEF rest
    <3>1. DOMAIN rest = 1 .. Len(rest)
      BY <2>1
    <3> QED BY <2>1, <2>4, <3>1 DEF Members, ToSet
  <2> QED BY <1>1, <1>2, <1>3, <1>4, <1>5, <2>1, <2>2, <2>5
<1>6. CASE ~(Len(renewed) > RevokeMax)
  <2>1. t \in ToSet(renewed)
    BY <1>3 DEF ToSet
  <2> QED BY <1>1, <1>3, <1>4, <1>6, <2>1
<1> QED BY <1>5, <1>6

-----------------------------------------------------------------------------
\* The invariants of the handlers, for one of them.
HandlerOK(r) ==
  /\ pc[r] = "breaker" <=> phase[r] # "out"
  /\ phase[r] # "out" => entry[r] = "intercept" /\ verdict[r] = None
  /\ phase[r] \in {"escalate", "tripping"} => rule[r] = "ESCALATE"
  /\ phase[r] \in {"resolve", "resetting"} => rule[r] \in Resolving
  /\ Decided(r) =>
       /\ verdict[r] \in Forwarded => rule[r] \in Forwarded \cup {"no_rule"}
       /\ entry[r] = "intercept" /\ rule[r] = "DENY" => verdict[r] = "DENY"
       /\ entry[r] = "intercept" /\ stopped[r] => verdict[r] \in {"SUSPEND", "DENY"}
  /\ pc[r] \in {"idle", "policy"} => verdict[r] = None
  /\ pc[r] # "idle" => trace[r] \in Trace
  /\ pc[r] \in {"policy", "breaker"} /\ stopped[r] => Revoked(trace[r])

LEMMA HandlersApart ==
  HandlersInv <=> /\ GatewayTypeOK
                  /\ RegistryBounded
                  /\ \A r \in Request : HandlerOK(r)
BY DEF HandlersInv, HandlerInBreaker, FailClosed, InterceptStopsRevoked,
       RequestsOK, HandlerOK

LEMMA HandlersApartPrime ==
  HandlersInv' <=> /\ GatewayTypeOK'
                   /\ RegistryBounded'
                   /\ \A r \in Request : HandlerOK(r)'
BY DEF HandlersInv, HandlerInBreaker, FailClosed, InterceptStopsRevoked,
       RequestsOK, HandlerOK

\* Nothing of handler s changes.
Untouched(s) ==
  /\ pc'[s] = pc[s] /\ entry'[s] = entry[s] /\ rule'[s] = rule[s]
  /\ verdict'[s] = verdict[s] /\ trace'[s] = trace[s] /\ stopped'[s] = stopped[s]
  /\ phase'[s] = phase[s]

\* A step of one handler that revokes nothing needs to be looked at for that
\* handler only.
LEMMA OneHandlerMoves ==
  ASSUME HandlersInv, NEW r \in Request, registry' = registry,
         \A s \in Request \ {r} : Untouched(s),
         GatewayTypeOK', HandlerOK(r)'
  PROVE  HandlersInv'
<1>1. RegistryBounded'
  BY HandlersApart DEF RegistryBounded
<1>2. ASSUME NEW s \in Request, s # r PROVE HandlerOK(s)'
  <2>1. HandlerOK(s) /\ Untouched(s)
    BY <1>2, HandlersApart
  <2> QED BY <2>1 DEF HandlerOK, Untouched, Decided, Revoked
<1> QED BY <1>1, <1>2, HandlersApartPrime

\* The revocation check lets no stopped request through.
LEMMA CheckedVerdict ==
  ASSUME NEW r \in Request, HandlerOK(r), pc[r] \in {"policy", "breaker"},
         NEW v \in Verdict
  PROVE  /\ Checked(r, v) \in Verdict
         /\ Checked(r, v) \in {v, "SUSPEND"}
         /\ v = "DENY" => Checked(r, v) = "DENY"
         /\ stopped[r] => Checked(r, v) \in {"SUSPEND", "DENY"}
BY DEF Checked, HandlerOK, Verdict

\* A handler that fixes its verdict, outside the breaker.
LEMMA DecideKeeps ==
  ASSUME HandlersInv, NEW r \in Request, NEW v \in Verdict, NEW a \in Rule,
         pc[r] \in {"policy", "breaker"}, Decide(r, v),
         phase' = [phase EXCEPT ![r] = "out"], phase \in [Request -> Phase],
         rule' = [rule EXCEPT ![r] = a],
         UNCHANGED <<entry, trace, registry, audits, stopped>>,
         v \in Forwarded => a \in Forwarded \cup {"no_rule"},
         entry[r] = "intercept" /\ a = "DENY" => v = "DENY",
         entry[r] = "intercept" /\ stopped[r] => v \in {"SUSPEND", "DENY"}
  PROVE  HandlersInv'
<1>1. GatewayTypeOK /\ HandlerOK(r)
  BY HandlersApart
<1>2. GatewayTypeOK'
  BY <1>1 DEF GatewayTypeOK, Decide
<1>3. \A s \in Request \ {r} : Untouched(s)
  BY <1>1 DEF GatewayTypeOK, Decide, Untouched
<1>4. pc'[r] = "save" /\ verdict'[r] = v /\ phase'[r] = "out" /\ rule'[r] = a
  BY <1>1 DEF GatewayTypeOK, Decide
<1>5. HandlerOK(r)'
  BY <1>1, <1>4 DEF HandlerOK, Decided
<1> QED BY <1>2, <1>3, <1>5, OneHandlerMoves

\* A handler that waits in the breaker, or goes on waiting.
LEMMA StayKeeps ==
  ASSUME HandlersInv, NEW r \in Request, NEW k \in Phase, NEW a \in Rule,
         pc[r] \in {"policy", "breaker"}, Stay(r),
         phase' = [phase EXCEPT ![r] = k], phase \in [Request -> Phase],
         rule' = [rule EXCEPT ![r] = a],
         entry[r] = "intercept",
         UNCHANGED <<entry, trace, registry, audits, stopped>>,
         \/ k \in {"escalate", "tripping"} /\ a = "ESCALATE"
         \/ k \in {"resolve", "resetting"} /\ a \in Resolving
  PROVE  HandlersInv'
<1>1. GatewayTypeOK /\ HandlerOK(r)
  BY HandlersApart
<1>2. GatewayTypeOK'
  BY <1>1 DEF GatewayTypeOK, Stay
<1>3. \A s \in Request \ {r} : Untouched(s)
  BY <1>1 DEF GatewayTypeOK, Stay, Untouched
<1>4. pc'[r] = "breaker" /\ verdict'[r] = verdict[r] /\ phase'[r] = k /\ rule'[r] = a
  BY <1>1 DEF GatewayTypeOK, Stay
<1>5. verdict[r] = None
  BY <1>1 DEF HandlerOK
<1>6. HandlerOK(r)'
  BY <1>1, <1>4, <1>5 DEF HandlerOK, Decided, Revoked
<1> QED BY <1>2, <1>3, <1>6, OneHandlerMoves

-----------------------------------------------------------------------------
LEMMA HandlersInit == GatewayInit => HandlersInv
<1> SUFFICES ASSUME GatewayInit PROVE HandlersInv
  OBVIOUS
<1>1. GatewayTypeOK
  BY DEF GatewayInit, GatewayTypeOK
<1>2. RegistryBounded
  <2>1. registry = <<>> /\ Len(registry) = 0
    BY DEF GatewayInit
  <2> QED BY <2>1, GatewayAssumption DEF RegistryBounded
<1>3. ASSUME NEW r \in Request PROVE HandlerOK(r)
  BY DEF GatewayInit, BreakerInit, HandlerOK, Decided, None
<1> QED BY <1>1, <1>2, <1>3, HandlersApart

LEMMA AcceptKeeps ==
  ASSUME HandlersInv, NEW r \in Request, NEW endpoint \in {"intercept", "chat"},
         NEW t \in Trace, Accept(r, endpoint, t)
  PROVE  HandlersInv'
<1>1. GatewayTypeOK /\ HandlerOK(r)
  BY HandlersApart
<1>2. GatewayTypeOK'
  BY <1>1 DEF GatewayTypeOK, Accept, Revoked
<1>3. phase' = phase
  BY DEF Accept, breakerVars
<1>4. \A s \in Request \ {r} : Untouched(s)
  BY <1>1, <1>3 DEF GatewayTypeOK, Accept, Untouched
<1>5. HandlerOK(r)'
  BY <1>1, <1>3 DEF HandlerOK, Accept, GatewayTypeOK, Decided, Revoked
<1> QED BY <1>2, <1>4, <1>5, OneHandlerMoves DEF Accept

\* The decisions that leave the breaker alone.
LEMMA DirectKeeps ==
  ASSUME BreakerTypeOK, HandlersInv, NEW r \in Request,
         Reject(r) \/ DecideDirectly(r) \/ DecideChat(r)
  PROVE  HandlersInv'
<1>1. GatewayTypeOK /\ HandlerOK(r) /\ pc[r] = "policy" /\ phase[r] = "out"
  BY HandlersApart DEF HandlerOK, Reject, DecideDirectly, DecideChat
<1>2. /\ phase \in [Request -> Phase]
      /\ phase' = [phase EXCEPT ![r] = "out"]
      /\ UNCHANGED <<entry, trace, registry, audits, stopped>>
  BY <1>1 DEF BreakerTypeOK, Reject, DecideDirectly, DecideChat, breakerVars
<1>3. CASE Reject(r)
  BY <1>1, <1>2, <1>3, DecideKeeps
     DEF Reject, Become, Verdict, Rule, Forwarded
<1>4. CASE DecideDirectly(r)
  <2>1. PICK a \in DOMAIN Direct \ (Verdict \ RuleAction) :
          Become(r, a) /\ Decide(r, Checked(r, Direct[a]))
    BY <1>4 DEF DecideDirectly
  <2>2. /\ a \in Rule
        /\ Direct[a] \in Verdict
        /\ Direct[a] \in Forwarded => a = "no_rule"
        /\ a = "DENY" => Direct[a] = "DENY"
    BY DEF Direct, Rule, Verdict, Forwarded
  <2> DEFINE v == Checked(r, Direct[a])
  <2>3. /\ v \in Verdict
        /\ v \in {Direct[a], "SUSPEND"}
        /\ Direct[a] = "DENY" => v = "DENY"
        /\ stopped[r] => v \in {"SUSPEND", "DENY"}
    BY <1>1, <2>2, CheckedVerdict
  <2> HIDE DEF v
  <2>4. v \in Forwarded => a \in Forwarded \cup {"no_rule"}
    BY <2>2, <2>3 DEF Forwarded
  <2>5. Decide(r, v) /\ rule' = [rule EXCEPT ![r] = a]
    BY <2>1 DEF v, Become
  <2> QED BY <1>1, <1>2, <2>2, <2>3, <2>4, <2>5, DecideKeeps
<1>5. CASE DecideChat(r)
  <2>1. PICK a \in RuleAction \cup {"no_rule"} :
          Become(r, a) /\ Decide(r, ChatVerdict(a))
    BY <1>5 DEF DecideChat
  <2>2. /\ a \in Rule
        /\ ChatVerdict(a) \in Verdict
        /\ ChatVerdict(a) \in Forwarded => a \in Forwarded \cup {"no_rule"}
    BY GatewayAssumption DEF ChatVerdict, Rule, Verdict, Forwarded
  <2>3. entry[r] # "intercept"
    BY <1>5 DEF DecideChat
  <2>4. rule' = [rule EXCEPT ![r] = a]
    BY <2>1 DEF Become
  <2> QED BY <1>1, <1>2, <2>1, <2>2, <2>3, <2>4, DecideKeeps
<1> QED BY <1>3, <1>4, <1>5

\* Whatever the breaker says of an escalation, at once or after a wait.
LEMMA EscalateKeeps ==
  ASSUME BreakerTypeOK, HandlersInv, NEW r \in Request, EscalateStep(r),
         pc[r] \in {"policy", "breaker"}, entry[r] = "intercept",
         rule' = [rule EXCEPT ![r] = "ESCALATE"],
         UNCHANGED <<entry, trace, registry, audits, stopped>>
  PROVE  HandlersInv'
<1>1. HandlerOK(r) /\ phase \in [Request -> Phase]
  BY HandlersApart DEF BreakerTypeOK
<1>2. "ESCALATE" \in Rule /\ "ESCALATE" \in Verdict /\ "DENY" \in Verdict
      /\ "ESCALATE" \notin Forwarded /\ "SUSPEND" \notin Forwarded
      /\ "DENY" \notin Forwarded
  BY DEF Rule, Verdict, Forwarded
<1>3. CASE (WaitEscalate(r) \/ Trip(r)) /\ Stay(r)
  <2>1. PICK k \in {"escalate", "tripping"} : phase' = [phase EXCEPT ![r] = k]
    BY <1>3 DEF WaitEscalate, Trip
  <2>2. k \in Phase
    BY DEF Phase
  <2> QED BY <1>1, <1>2, <1>3, <2>1, <2>2, StayKeeps
<1>4. CASE Refuse(r) /\ Decide(r, "DENY")
  <2>1. phase' = [phase EXCEPT ![r] = "out"]
    BY <1>4 DEF Refuse, Leave
  <2> QED BY <1>1, <1>2, <1>4, <2>1, DecideKeeps
<1>5. CASE Grant(r) /\ Decide(r, Checked(r, "ESCALATE"))
  <2> DEFINE v == Checked(r, "ESCALATE")
  <2>1. phase' = [phase EXCEPT ![r] = "out"]
    BY <1>5 DEF Grant, Leave
  <2>2. /\ v \in Verdict
        /\ v \in {"ESCALATE", "SUSPEND"}
        /\ stopped[r] => v \in {"SUSPEND", "DENY"}
    BY <1>1, <1>2, CheckedVerdict
  <2>3. Decide(r, v)
    BY <1>5
  <2> HIDE DEF v
  <2>4. v \notin Forwarded
    BY <1>2, <2>2
  <2> QED BY <1>1, <1>2, <2>1, <2>2, <2>3, <2>4, DecideKeeps
<1> QED BY <1>3, <1>4, <1>5 DEF EscalateStep

LEMMA DecideEscalateKeeps ==
  ASSUME BreakerTypeOK, HandlersInv, NEW r \in Request, DecideEscalate(r)
  PROVE  HandlersInv'
BY EscalateKeeps DEF DecideEscalate, Become

LEMMA DecideResolvingKeeps ==
  ASSUME BreakerTypeOK, HandlersInv, NEW r \in Request, DecideResolving(r)
  PROVE  HandlersInv'
<1>1. PICK a \in Resolving : rule' = [rule EXCEPT ![r] = a]
  BY DEF DecideResolving, Become
<1>2. PICK k \in {"resolve", "resetting"} : phase' = [phase EXCEPT ![r] = k]
  BY DEF DecideResolving, WaitResolve, Resolve
<1>3. a \in Rule /\ k \in Phase
  BY DEF Resolving, Rule, Verdict, Forwarded, Phase
<1> QED
  BY <1>1, <1>2, <1>3, StayKeeps DEF DecideResolving, BreakerTypeOK

LEMMA LeaveBreakerKeeps ==
  ASSUME BreakerTypeOK, HandlersInv, NEW r \in Request, LeaveBreaker(r)
  PROVE  HandlersInv'
<1>1. /\ GatewayTypeOK /\ HandlerOK(r)
      /\ pc[r] = "breaker" /\ phase[r] # "out" /\ entry[r] = "intercept"
      /\ rule[r] \in Rule \cup {None}
      /\ phase \in [Request -> Phase]
      /\ UNCHANGED <<entry, trace, registry, audits, stopped>>
  BY HandlersApart DEF LeaveBreaker, HandlerOK, GatewayTypeOK, BreakerTypeOK
<1>2. rule' = [rule EXCEPT ![r] = rule[r]]
  BY <1>1 DEF LeaveBreaker, GatewayTypeOK
<1>3. CASE EscalateStep(r)
  <2>1. phase[r] = "escalate"
    BY <1>1, <1>3
       DEF EscalateStep, WaitEscalate, Refuse, Grant, Trip, EntersEscalate, MayEnter
  <2>2. rule[r] = "ESCALATE"
    BY <1>1, <2>1 DEF HandlerOK
  <2> QED BY <1>1, <1>2, <1>3, <2>2, EscalateKeeps
<1>4. CASE Resolve(r) /\ Stay(r)
  <2>1. phase[r] = "resolve" /\ phase' = [phase EXCEPT ![r] = "resetting"]
    BY <1>1, <1>4 DEF Resolve, MayEnter
  <2>2. rule[r] \in Resolving
    BY <1>1, <2>1 DEF HandlerOK
  <2>3. rule[r] \in Rule /\ "resetting" \in Phase
    BY <2>2 DEF Resolving, Rule, Verdict, Forwarded, Phase
  <2> QED BY <1>1, <1>2, <1>4, <2>1, <2>2, <2>3, StayKeeps
<1>5. CASE SaveTrip(r) /\ Decide(r, "DENY")
  <2>1. phase[r] = "tripping" /\ phase' = [phase EXCEPT ![r] = "out"]
    BY <1>5 DEF SaveTrip, Leave
  <2>2. rule[r] = "ESCALATE"
    BY <1>1, <2>1 DEF HandlerOK
  <2>3. "ESCALATE" \in Rule /\ "DENY" \in Verdict /\ "DENY" \notin Forwarded
    BY DEF Rule, Verdict, Forwarded
  <2> QED BY <1>1, <1>2, <1>5, <2>1, <2>2, <2>3, DecideKeeps
<1>6. CASE SaveReset(r) /\ Decide(r, Checked(r, rule[r]))
  <2> DEFINE a == rule[r]
             v == Checked(r, a)
  <2>1. phase[r] = "resetting" /\ phase' = [phase EXCEPT ![r] = "out"]
    BY <1>6 DEF SaveReset, Leave
  <2>2. a \in Resolving
    BY <1>1, <2>1 DEF HandlerOK
  <2>3. a \in Rule /\ a \in Verdict /\ a # "DENY"
    BY <2>2 DEF Resolving, Rule, Verdict, Forwarded
  <2>4. /\ v \in Verdict
        /\ v \in {a, "SUSPEND"}
        /\ stopped[r] => v \in {"SUSPEND", "DENY"}
    BY <1>1, <2>3, CheckedVerdict
  <2>5. v \in Forwarded => a \in Forwarded
    BY <2>4 DEF Forwarded
  <2>6. Decide(r, v)
    BY <1>6
  <2>7. rule' = [rule EXCEPT ![r] = a]
    BY <1>2
  <2> HIDE DEF v, a
  <2> QED BY <1>1, <2>1, <2>3, <2>4, <2>5, <2>6, <2>7, DecideKeeps
<1> QED BY <1>3, <1>4, <1>5, <1>6 DEF LeaveBreaker

LEMMA SaveDecisionKeeps ==
  ASSUME HandlersInv, NEW r \in Request, SaveDecision(r)
  PROVE  HandlersInv'
<1>1. GatewayTypeOK /\ HandlerOK(r) /\ phase' = phase
  BY HandlersApart DEF SaveDecision, breakerVars
<1>2. trace[r] \in Trace
  BY <1>1 DEF HandlerOK, SaveDecision
<1>3. audits' \subseteq Trace
  BY <1>1, <1>2 DEF SaveDecision, GatewayTypeOK
<1>4. GatewayTypeOK'
  BY <1>1, <1>3 DEF GatewayTypeOK, SaveDecision
<1>5. \A s \in Request \ {r} : Untouched(s)
  BY <1>1 DEF GatewayTypeOK, SaveDecision, Untouched
<1>6. HandlerOK(r)'
  BY <1>1 DEF HandlerOK, SaveDecision, GatewayTypeOK, Decided, Revoked
<1> QED BY <1>4, <1>5, <1>6, OneHandlerMoves DEF SaveDecision

LEMMA AnswerKeeps ==
  ASSUME HandlersInv, NEW r \in Request, Answer(r)
  PROVE  HandlersInv'
<1>1. GatewayTypeOK /\ HandlerOK(r) /\ phase' = phase
  BY HandlersApart DEF Answer, breakerVars
<1>2. trace[r] \in Trace
  BY <1>1 DEF HandlerOK, Answer
<1>3. audits' \subseteq Trace
  BY <1>1, <1>2 DEF Answer, GatewayTypeOK
<1>4. GatewayTypeOK'
  BY <1>1, <1>3 DEF GatewayTypeOK, Answer
<1>5. \A s \in Request \ {r} : Untouched(s)
  BY <1>1 DEF GatewayTypeOK, Answer, Untouched
<1>6. HandlerOK(r)'
  BY <1>1 DEF HandlerOK, Answer, GatewayTypeOK, Decided, Revoked
<1> QED BY <1>4, <1>5, <1>6, OneHandlerMoves DEF Answer

\* An audit that revokes a trace: the requests of that trace that are still
\* undecided are stopped, those of an evicted trace no longer are.
LEMMA FinishAuditKeeps ==
  ASSUME HandlersInv, NEW t \in Trace, FinishAudit(t)
  PROVE  HandlersInv'
<1>1. GatewayTypeOK /\ RegistryBounded /\ \A r \in Request : HandlerOK(r)
  BY HandlersApart
<1>2. phase' = phase /\ UNCHANGED <<pc, entry, rule, verdict, trace>>
  BY DEF FinishAudit, breakerVars
<1>3. audits' \subseteq Trace
  BY <1>1 DEF FinishAudit, GatewayTypeOK
<1>4. CASE UNCHANGED <<registry, stopped>>
  <2>1. GatewayTypeOK' /\ RegistryBounded'
    BY <1>1, <1>2, <1>3, <1>4 DEF GatewayTypeOK, RegistryBounded
  <2>2. \A r \in Request : HandlerOK(r)'
    BY <1>1, <1>2, <1>4 DEF HandlerOK, Decided, Revoked
  <2> QED BY <2>1, <2>2, HandlersApartPrime
<1>5. CASE /\ registry' = WithRevoked(t)
           /\ stopped' = [r \in Request |->
                \/ stopped[r] /\ trace[r] \in ToSet(registry')
                \/ pc[r] \in {"policy", "breaker"} /\ trace[r] = t]
  <2>1. /\ registry' \in Seq(Trace)
        /\ Len(registry') <= RevokeMax
        /\ Distinct(registry')
        /\ t \in ToSet(registry')
    BY <1>1, <1>5, WithRevokedEntries DEF GatewayTypeOK
  <2>2. RegistryBounded'
    BY <2>1 DEF RegistryBounded, Distinct
  <2>3. stopped' \in [Request -> BOOLEAN]
    BY <1>1, <1>5 DEF GatewayTypeOK
  <2>4. GatewayTypeOK'
    BY <1>1, <1>2, <1>3, <2>1, <2>3 DEF GatewayTypeOK
  <2>5. ASSUME NEW r \in Request, stopped'[r]
        PROVE  /\ trace[r] \in ToSet(registry')
               /\ pc[r] \in {"policy", "breaker"} \/ stopped[r]
    BY <1>5, <2>1, <2>5
  <2>6. \A r \in Request : HandlerOK(r)'
    BY <1>1, <1>2, <2>5 DEF HandlerOK, Decided, Revoked
  <2> QED BY <2>2, <2>4, <2>6, HandlersApartPrime
<1> QED BY <1>4, <1>5 DEF FinishAudit

LEMMA GatewayTickKeeps ==
  ASSUME HandlersInv, GatewayTick \/ UNCHANGED gatewayVars
  PROVE  HandlersInv'
<1>1. phase' = phase /\ UNCHANGED <<handlerVars, registry, audits>>
  BY DEF GatewayTick, Tick, gatewayVars, breakerVars
<1>2. UNCHANGED <<pc, entry, rule, verdict, trace, stopped, registry, audits>>
  BY <1>1 DEF handlerVars
<1> QED
  BY <1>1, <1>2 DEF HandlersInv, GatewayTypeOK, HandlerInBreaker, FailClosed,
     InterceptStopsRevoked, RegistryBounded, RequestsOK, Decided, Revoked

LEMMA GatewayRestartKeeps ==
  ASSUME HandlersInv, GatewayRestart
  PROVE  HandlersInv'
<1>1. GatewayTypeOK'
  BY DEF GatewayRestart, GatewayTypeOK
<1>2. RegistryBounded'
  <2>1. registry' = <<>> /\ Len(registry') = 0
    BY DEF GatewayRestart
  <2> QED BY <2>1, GatewayAssumption DEF RegistryBounded
<1>3. ASSUME NEW r \in Request PROVE HandlerOK(r)'
  BY DEF GatewayRestart, Restart, HandlerOK, Decided, None
<1> QED BY <1>1, <1>2, <1>3, HandlersApartPrime

LEMMA HandlersStepInv ==
  ASSUME BreakerTypeOK, HandlersInv, [GatewayNext]_gatewayVars
  PROVE  HandlersInv'
<1>1. ASSUME NEW r \in Request, HandlerStep(r) PROVE HandlersInv'
  BY <1>1, DirectKeeps, DecideEscalateKeeps, DecideResolvingKeeps,
     LeaveBreakerKeeps, SaveDecisionKeeps, AnswerKeeps DEF HandlerStep, Decision
<1> QED
  BY <1>1, AcceptKeeps, FinishAuditKeeps, GatewayTickKeeps, GatewayRestartKeeps
     DEF GatewayNext

-----------------------------------------------------------------------------
\* The inductive invariant of handlers, breaker and registry together.
THEOREM GatewayInvariant == GatewaySpec => []GatewayInv
<1>1. GatewayInit => HandlersInv
  BY HandlersInit
<1>2. BreakerInv /\ HandlersInv /\ [GatewayNext]_gatewayVars => HandlersInv'
  BY HandlersStepInv DEF BreakerInv
<1>3. GatewaySpec => []BreakerInv
  BY GatewayKeepsBreakerInv
<1> QED BY <1>1, <1>2, <1>3, PTL DEF GatewaySpec, GatewayInv

\* Every variable of the handlers keeps its type.
THEOREM GatewayTyped == GatewaySpec => []GatewayTypeOK
BY GatewayInvariant, PTL DEF GatewayInv, HandlersInv

\* A handler is in the breaker exactly while its verdict depends on it, in the
\* branch that its rule chose.
THEOREM GatewayHandlerInBreaker == GatewaySpec => []HandlerInBreaker
BY GatewayInvariant, PTL DEF GatewayInv, HandlersInv

\* Only a permissive rule, or none, lets a request through; what intercept's
\* policy denied stays denied.
THEOREM GatewayFailsClosed == GatewaySpec => []FailClosed
BY GatewayInvariant, PTL DEF GatewayInv, HandlersInv

\* A revocation stops the requests of its trace that intercept has not decided,
\* wherever they wait.
THEOREM GatewayStopsRevoked == GatewaySpec => []InterceptStopsRevoked
BY GatewayInvariant, PTL DEF GatewayInv, HandlersInv

\* The registry holds each trace once and stays within its capacity.
THEOREM GatewayRegistryBounded == GatewaySpec => []RegistryBounded
BY GatewayInvariant, PTL DEF GatewayInv, HandlersInv
=============================================================================
