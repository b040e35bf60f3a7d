---------------------------- MODULE MCAutomation ----------------------------
(***************************************************************************)
(* What runs beside the requests, as TLC runs it: the background audits    *)
(* with the observer, the HA lease, the bootstrap cycle, the trace store,  *)
(* the meta harness and the pareto loop.                                   *)
(* The parts share no state: each behaviour exercises one of them, and the *)
(* others keep their initial state.                                        *)
(***************************************************************************)
EXTENDS SemanticHook, Lease, Bootstrap, TraceStore, MetaHarness, ParetoLoop

CONSTANTS FirstId, SecondId   \* the two requests of MetaId

VARIABLE part    \* the component a behaviour is about

\* A request that says something and runs nothing, one whose prompt is blank but
\* whose tool call runs something, and one with no body.
Says == [form |-> "object", prompt |-> "no", contents |-> {"text", "blank"},
         arguments |-> {"blank"}, descriptions |-> {}]
Runs == [form |-> "object", prompt |-> "blank", contents |-> {}, arguments |-> {"text"},
         descriptions |-> {}]
Silent == [form |-> "none"]
MCHookBody == {Silent, Says, Runs}
MCHookAnswer == {[raw |-> "text", content |-> "blank"]}

\* A judge may name its flag "context_drift", and so may a request its tool.
MCMentions == {{}, {"context_drift"}}

\* Two requests of one agent, which drift, or of two.
AuditedRequests ==
  /\ hookAgent[FirstId] = "a" /\ hookBody[SecondId] = Runs
  /\ hookBody[FirstId] = IF hookAgent[SecondId] = "a" THEN Silent ELSE Says

\* Policy files to start from, and what the LLM may propose: two contradictions of
\* the base rule under its name, and a rule the engine does not load.
HarnessRule(name, action, priority) ==
  [name |-> <<name>>, at |-> "p", action |-> action, priority |-> priority]
MCBaseFile == {<<>>, <<HarnessRule("base", "ALLOW", 10)>>}
MCLlmRules ==
  {<<HarnessRule("base", "DENY", 10), HarnessRule("base", "DENY", 20)>>,
   <<HarnessRule("llm", Bad, 100)>>}
-----------------------------------------------------------------------------
automationVars ==
  <<part, hookVars, leaseVars, bootstrapVars, traceVars, harnessVars, paretoVars>>

\* A component that is not the subject starts, and stays, in one initial state.
Init ==
  /\ part \in {"audits", "lease", "bootstrap", "trace", "harness", "pareto"}
  /\ HookInit /\ LeaseInit /\ BootstrapInit /\ TraceInit /\ HarnessInit /\ ParetoInit
  /\ IF part = "audits" THEN AuditedRequests
     ELSE \A d \in MetaId : hookAgent[d] = "a" /\ hookBody[d] = Silent
  /\ part = "harness" \/ policies = <<>>
  /\ IF part = "bootstrap" THEN openItems \in {{}, Backlog} ELSE openItems = {}
  /\ part = "pareto" \/ mergePolicy = "any"

Next ==
  /\ UNCHANGED part
  /\ \/ /\ part = "audits" /\ HookNext
        /\ UNCHANGED <<leaseVars, bootstrapVars, traceVars, harnessVars, paretoVars>>
     \/ /\ part = "lease" /\ LeaseNext
        /\ UNCHANGED <<hookVars, bootstrapVars, traceVars, harnessVars, paretoVars>>
     \/ /\ part = "bootstrap" /\ BootstrapNext
        /\ UNCHANGED <<hookVars, leaseVars, traceVars, harnessVars, paretoVars>>
     \/ /\ part = "trace" /\ TraceNext
        /\ UNCHANGED <<hookVars, leaseVars, bootstrapVars, harnessVars, paretoVars>>
     \/ /\ part = "harness" /\ HarnessNext
        /\ UNCHANGED <<hookVars, leaseVars, bootstrapVars, traceVars, paretoVars>>
     \/ /\ part = "pareto" /\ ParetoNext
        /\ UNCHANGED <<hookVars, leaseVars, bootstrapVars, traceVars, harnessVars>>

Spec == Init /\ [][Next]_automationVars
=============================================================================
