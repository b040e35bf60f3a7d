------------------------------ MODULE Gateway ------------------------------
(***************************************************************************)
(* The two request handlers of src/src/main.py, from the body they accept  *)
(* to the answer they give: intercept_handler (/v1/intercept) with policy  *)
(* timeout, circuit breaker, revocation check and background audits, and   *)
(* chat_completions_handler (/v1/chat/completions), which has neither      *)
(* timeout, breaker nor revocation check.                                  *)
(*                                                                         *)
(* What the policy engine answers is chosen freely here.  A step is the    *)
(* code between two awaits; Breaker supplies the steps inside the breaker. *)
(* Requests turned away before a decision (401/403 of the auth gate, 400   *)
(* and 422 of an unreadable body) change no state and do not appear.       *)
(***************************************************************************)
EXTENDS Breaker, SequencesExt

CONSTANTS
  Trace,      \* trace ids the clients use
  RuleAction, \* the actions that the rules of the policy files take
  RevokeMax,  \* RevokeRegistry max_entries
  HookOn      \* is the semantic hook enabled (semantic_hook.is_enabled)?

Verdict == {"ALLOW", "ALLOW_WITH_WARNING", "SUSPEND", "ESCALATE", "DENY"}
Forwarded == {"ALLOW", "ALLOW_WITH_WARNING"}

ASSUME GatewayAssumption ==
  /\ RuleAction \subseteq Verdict
  /\ RevokeMax \in Nat \ {0}
  /\ HookOn \in BOOLEAN

VARIABLES
  pc,         \* handler: idle -> policy (-> breaker) -> save -> answer
  entry,      \* which endpoint the handler serves
  rule,       \* what the policy engine, or its timeout, came to
  verdict,    \* the verdict of the DecisionRecord
  trace,      \* trace id of the request
  registry,   \* revoked traces, least recently revoked first
  audits,     \* traces with a background audit task still to finish
  stopped     \* history: r's trace was revoked before r was decided, and
              \* its entry has not been evicted

handlerVars == <<pc, entry, rule, verdict, trace, stopped>>
gatewayVars == <<breakerVars, handlerVars, registry, audits>>

\* The rules that resolve the breaker: all of these reach the reset.
Resolving == RuleAction \cap (Forwarded \cup {"SUSPEND"})

\* A rule's action, no matching rule, an evaluation past INTERCEPT_TIMEOUT
\* (of a dangerous operation or another), or no evaluation at all.
Rule == Verdict \cup {"no_rule", "timeout", "dangerous_timeout", "rejected"}

None == "none"

Revoked(t) == t \in ToSet(registry)

\* A trace has one entry, so that removing it there removes the trace.
Without(q, t) ==
  IF t \in ToSet(q) THEN RemoveAt(q, CHOOSE i \in DOMAIN q : q[i] = t) ELSE q

\* Variant: the capacity is enforced before the entry is added.
WithRevoked_EvictsFirst(t) ==
  LET kept == IF Len(registry) > RevokeMax THEN Tail(registry) ELSE registry
  IN  Append(Without(kept, t), t)

\* RevokeRegistry.revoke: revoking again renews the timestamp; past the
\* capacity the oldest entry goes.
WithRevoked(t) ==
  LET renewed == Append(Without(registry, t), t)
  IN  IF Len(renewed) > RevokeMax THEN Tail(renewed) ELSE renewed

GatewayInit ==
  /\ BreakerInit
  /\ pc = [r \in Request |-> "idle"]
  /\ entry = [r \in Request |-> None]
  /\ rule = [r \in Request |-> None]
  /\ verdict = [r \in Request |-> None]
  /\ trace = [r \in Request |-> None]
  /\ registry = <<>>
  /\ audits = {}
  /\ stopped = [r \in Request |-> FALSE]

-----------------------------------------------------------------------------
Accept(r, endpoint, t) ==
  /\ pc[r] = "idle"
  /\ pc' = [pc EXCEPT ![r] = "policy"]
  /\ entry' = [entry EXCEPT ![r] = endpoint]
  /\ trace' = [trace EXCEPT ![r] = t]
  /\ stopped' = [stopped EXCEPT ![r] = Revoked(t)]
  /\ UNCHANGED <<breakerVars, rule, verdict, registry, audits>>

\* Variant: handlers that had to wait in the breaker skip the check.
Checked_Early(r, v) ==
  IF v # "DENY" /\ pc[r] = "policy" /\ Revoked(trace[r]) THEN "SUSPEND" ELSE v

\* A revoked trace is suspended, unless the verdict is DENY already.
Checked(r, v) ==
  IF v # "DENY" /\ Revoked(trace[r]) THEN "SUSPEND" ELSE v

\* The verdict is final and the record goes to storage.save.
Decide(r, v) ==
  /\ pc' = [pc EXCEPT ![r] = "save"]
  /\ verdict' = [verdict EXCEPT ![r] = v]

Become(r, a) == rule' = [rule EXCEPT ![r] = a]

Stay(r) ==
  /\ pc' = [pc EXCEPT ![r] = "breaker"]
  /\ UNCHANGED verdict

\* Oversized body (either endpoint), malformed tool declaration or dangerous
\* tool (chat): DENY, with no policy evaluation and no revocation check.
Reject(r) ==
  /\ pc[r] = "policy"
  /\ Become(r, "rejected")
  /\ Decide(r, "DENY")
  /\ UNCHANGED <<breakerVars, entry, trace, registry, audits, stopped>>

\* Variant: a timeout allows, as in v0.1.0.
Direct_FailOpen == [ no_rule           |-> "ALLOW",
                     DENY              |-> "DENY",
                     timeout           |-> "ALLOW",
                     dangerous_timeout |-> "DENY" ]

\* intercept: outcomes of the evaluation that leave the breaker alone
Direct == [ no_rule           |-> "ALLOW",
            DENY              |-> "DENY",
            timeout           |-> "ESCALATE",
            dangerous_timeout |-> "DENY" ]

DecideDirectly(r) ==
  /\ pc[r] = "policy"
  /\ entry[r] = "intercept"
  /\ \E a \in DOMAIN Direct \ (Verdict \ RuleAction) :
       /\ Become(r, a)
       /\ Decide(r, Checked(r, Direct[a]))
  /\ UNCHANGED <<breakerVars, entry, trace, registry, audits, stopped>>

\* The breaker's part in an ESCALATE: refused or tripped, DENY; granted, the
\* verdict stands.
EscalateStep(r) ==
  \/ WaitEscalate(r) /\ Stay(r)
  \/ Refuse(r) /\ Decide(r, "DENY")
  \/ Grant(r) /\ Decide(r, Checked(r, "ESCALATE"))
  \/ Trip(r) /\ Stay(r)

DecideEscalate(r) ==
  /\ pc[r] = "policy"
  /\ entry[r] = "intercept"
  /\ "ESCALATE" \in RuleAction
  /\ Become(r, "ESCALATE")
  /\ EscalateStep(r)
  /\ UNCHANGED <<entry, trace, registry, audits, stopped>>

\* Variant: the save of the reset is started but not awaited.
DecideResolving_NoAwait(r) ==
  /\ pc[r] = "policy"
  /\ entry[r] = "intercept"
  /\ \E a \in Resolving :
       /\ Become(r, a)
       /\ \/ WaitResolve(r) /\ Stay(r)
          \/ Resolve(r) /\ Decide(r, Checked(r, a))
  /\ UNCHANGED <<entry, trace, registry, audits, stopped>>

\* ALLOW, ALLOW_WITH_WARNING and SUSPEND all resolve the breaker first.
DecideResolving(r) ==
  /\ pc[r] = "policy"
  /\ entry[r] = "intercept"
  /\ \E a \in Resolving : Become(r, a)
  /\ WaitResolve(r) \/ Resolve(r)
  /\ Stay(r)
  /\ UNCHANGED <<entry, trace, registry, audits, stopped>>

\* Variant: nothing resumes a handler whose reset has been saved.
LeaveBreaker_LosesReset(r) ==
  /\ pc[r] = "breaker"
  /\ phase[r] # "out"
  /\ \/ EscalateStep(r)
     \/ Resolve(r) /\ Stay(r)
     \/ SaveTrip(r) /\ Decide(r, "DENY")
  /\ UNCHANGED <<entry, rule, trace, registry, audits, stopped>>

\* A handler that waited for the lock, or for a save of the breaker state,
\* goes on.
LeaveBreaker(r) ==
  /\ pc[r] = "breaker"
  /\ phase[r] # "out"
  /\ \/ EscalateStep(r)
     \/ Resolve(r) /\ Stay(r)
     \/ SaveTrip(r) /\ Decide(r, "DENY")
     \/ SaveReset(r) /\ Decide(r, Checked(r, rule[r]))
  /\ UNCHANGED <<entry, rule, trace, registry, audits, stopped>>

\* Variant: the action is taken for the verdict.
ChatVerdict_Raw(a) == a

\* chat: the rule's action as it is, except that a DENY rule escalates; no
\* breaker, no revocation check.
ChatVerdict(a) ==
  CASE a = "no_rule" -> "ALLOW"
    [] a = "DENY"    -> "ESCALATE"
    [] OTHER         -> a

DecideChat(r) ==
  /\ pc[r] = "policy"
  /\ entry[r] = "chat"
  /\ \E a \in RuleAction \cup {"no_rule"} :
       /\ Become(r, a)
       /\ Decide(r, ChatVerdict(a))
  /\ UNCHANGED <<breakerVars, entry, trace, registry, audits, stopped>>

\* storage.save returned.  intercept starts its input audits only now, when
\* the record they annotate exists.
SaveDecision(r) ==
  /\ pc[r] = "save"
  /\ pc' = [pc EXCEPT ![r] = "answer"]
  /\ audits' = IF HookOn /\ entry[r] = "intercept" /\ verdict[r] # "DENY"
               THEN audits \cup {trace[r]} ELSE audits
  /\ UNCHANGED <<breakerVars, entry, rule, verdict, trace, registry, stopped>>

\* Forward upstream if allowed, start the audit of what came back (nothing
\* comes back from an upstream that fails), answer.
Answer(r) ==
  /\ pc[r] = "answer"
  /\ \/ UNCHANGED audits
     \/ /\ HookOn
        /\ verdict[r] \in Forwarded
        /\ audits' = audits \cup {trace[r]}
  /\ pc' = [pc EXCEPT ![r] = "idle"]
  /\ entry' = [entry EXCEPT ![r] = None]
  /\ trace' = [trace EXCEPT ![r] = None]
  /\ rule' = [rule EXCEPT ![r] = None]
  /\ verdict' = [verdict EXCEPT ![r] = None]
  /\ stopped' = [stopped EXCEPT ![r] = FALSE]
  /\ UNCHANGED <<breakerVars, registry>>

\* A background audit ends; a high score revokes the trace.  Another audit
\* of the same trace may still be outstanding.
FinishAudit(t) ==
  /\ t \in audits
  /\ audits' \in {audits, audits \ {t}}
  /\ \/ UNCHANGED <<registry, stopped>>
     \/ /\ registry' = WithRevoked(t)
        /\ stopped' = [r \in Request |->
             \/ stopped[r] /\ trace[r] \in ToSet(registry')
             \/ pc[r] \in {"policy", "breaker"} /\ trace[r] = t]
  /\ UNCHANGED <<breakerVars, pc, entry, rule, verdict, trace>>

GatewayTick ==
  /\ Tick
  /\ UNCHANGED <<handlerVars, registry, audits>>

GatewayRestart ==
  /\ Restart
  /\ pc' = [r \in Request |-> "idle"]
  /\ entry' = [r \in Request |-> None]
  /\ trace' = [r \in Request |-> None]
  /\ rule' = [r \in Request |-> None]
  /\ verdict' = [r \in Request |-> None]
  /\ registry' = <<>>
  /\ audits' = {}
  /\ stopped' = [r \in Request |-> FALSE]

Decision(r) ==
  \/ Reject(r)
  \/ DecideDirectly(r)
  \/ DecideEscalate(r)
  \/ DecideResolving(r)
  \/ DecideChat(r)

HandlerStep(r) ==
  \/ Decision(r)
  \/ LeaveBreaker(r)
  \/ SaveDecision(r)
  \/ Answer(r)

GatewayNext ==
  \/ \E r \in Request, endpoint \in {"intercept", "chat"}, t \in Trace :
       Accept(r, endpoint, t)
  \/ \E r \in Request : HandlerStep(r)
  \/ \E t \in Trace : FinishAudit(t)
  \/ GatewayTick
  \/ GatewayRestart

GatewaySpec == GatewayInit /\ [][GatewayNext]_gatewayVars

\* The event loop and the thread pool run: an evaluation ends or, for
\* intercept, times out, and the upstream call has a timeout of its own.
FairGatewaySpec ==
  /\ GatewaySpec
  /\ \A r \in Request : WF_gatewayVars(HandlerStep(r))

-----------------------------------------------------------------------------
\* Every variable of the handlers has its type.
GatewayTypeOK ==
  /\ pc \in [Request -> {"idle", "policy", "breaker", "save", "answer"}]
  /\ entry \in [Request -> {"intercept", "chat", None}]
  /\ rule \in [Request -> Rule \cup {None}]
  /\ verdict \in [Request -> Verdict \cup {None}]
  /\ trace \in [Request -> Trace \cup {None}]
  /\ registry \in Seq(Trace)
  /\ audits \subseteq Trace
  /\ stopped \in [Request -> BOOLEAN]

Decided(r) == pc[r] \in {"save", "answer"}

\* A handler holds a place in the breaker exactly while it is waiting there,
\* for the branch its rule chose, and no verdict is fixed before the breaker
\* state it depends on has been handed to the database.
HandlerInBreaker ==
  \A r \in Request :
    /\ pc[r] = "breaker" <=> phase[r] # "out"
    /\ phase[r] # "out" => entry[r] = "intercept" /\ verdict[r] = None
    /\ phase[r] \in {"escalate", "tripping"} => rule[r] = "ESCALATE"
    /\ phase[r] \in {"resolve", "resetting"} =>
         rule[r] \in Resolving

\* Weak supervision takes effect on /v1/intercept: an audit that revokes a
\* trace while a request of it is being evaluated, waits for the breaker
\* lock or for a database write still stops that request.
InterceptStopsRevoked ==
  \A r \in Request :
    Decided(r) /\ entry[r] = "intercept" /\ stopped[r]
      => verdict[r] \in {"SUSPEND", "DENY"}

\* Fail closed: whatever the timeout, the breaker, revocation and restarts
\* do, only a permissive rule, or no rule, lets a request through, and a
\* request that intercept's policy denied stays denied.
FailClosed ==
  \A r \in Request : Decided(r) =>
    /\ verdict[r] \in Forwarded
         => rule[r] \in Forwarded \cup {"no_rule"}
    /\ entry[r] = "intercept" /\ rule[r] = "DENY" => verdict[r] = "DENY"

\* The registry holds each trace once and never outgrows max_entries.
RegistryBounded ==
  /\ Len(registry) <= RevokeMax
  /\ \A i, j \in 1 .. Len(registry) : registry[i] = registry[j] => i = j

\* Every request whose evaluation began is answered, or the process restarts.
EveryRequestAnswered ==
  \A r \in Request : pc[r] = "policy" ~> pc[r] = "idle"
=============================================================================
