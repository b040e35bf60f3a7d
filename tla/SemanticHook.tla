---------------------------- MODULE SemanticHook ----------------------------
(***************************************************************************)
(* The background audits of src/semantic_hook.py with the handler code     *)
(* that starts them (main.py, intercept_handler 336-402 and                *)
(* _proxy_forward): requests of agents push their prompt into the agent's  *)
(* drift window, are recorded by the observer, and then start the prompt,  *)
(* code, drift and output audits as tasks that may end in any order, with  *)
(* any score of the judge or none (timeout, error, malformed answer).      *)
(*                                                                         *)
(* All requests belong to one trace.  Scores are "low", "drift" (at or     *)
(* above SEMANTIC_DRIFT_THRESHOLD) and "high" (at or above                 *)
(* SEMANTIC_HOOK_THRESHOLD, the higher of the two).                        *)
(***************************************************************************)
EXTENDS Observer

CONSTANTS
  HookAgent,        \* agents; requests without an agent_id share one of them
  ContextWindow,    \* CONTEXT_WINDOW_SIZE
  HookBody,         \* request bodies, records as described at Text below
  HookAnswer        \* bodies the upstream agent may answer with

ASSUME HookAssumption == ContextWindow \in Nat \ {0}

VARIABLES
  hookPc,           \* where the handler of each request is
  hookAgent, hookBody, hookVerdict,
  driftWindow,      \* _drift_windows: the prompts (their requests) per agent
  audit,            \* each request's audits: "no", "start", "judge", "done"
  owed,             \* history: kinds of steps the judge's answers called for
  failed,           \* history: those an append of which met a database error
  masked,           \* history: those skipped for a marker that no step of theirs wrote
  revokedBy         \* the trace's revocation: "no", "drift" or "semantic"

requestVars == <<hookAgent, hookBody>>
evidenceVars == <<owed, failed, masked>>
hookVars == <<observerVars, requestVars, hookPc, hookVerdict, driftWindow, audit,
              evidenceVars, revokedBy>>
auditVars == <<audit, evidenceVars, revokedBy>>

AuditKind == {"prompt", "code", "output", "drift"}
Score == {"none", "low", "drift", "high"}

HookInit ==
  /\ ObserverInit
  /\ hookPc = [d \in MetaId |-> "arrive"]
  /\ hookAgent \in [MetaId -> HookAgent] /\ hookBody \in [MetaId -> HookBody]
  /\ hookVerdict = [d \in MetaId |-> "ALLOW"]
  /\ driftWindow = [a \in HookAgent |-> <<>>]
  /\ audit = [d \in MetaId |-> [k \in AuditKind |-> "no"]]
  /\ owed = [d \in MetaId |-> {}] /\ failed = owed /\ masked = owed
  /\ revokedBy = "no"

-----------------------------------------------------------------------------
\* A text is absent ("no"), empty, white space ("blank"), or says something
\* ("text").  A body is missing ("none"), a string (its text is the prompt) or an
\* object: its prompt, the contents of its messages, the texts in the arguments
\* of their tool calls and the descriptions of its tools, which are also those
\* of the object a string parses to.  Prompt and code are judged if they say
\* something.
Joined(texts) == IF "text" \in texts THEN "text" ELSE "blank"

\* extract_prompt: an object with neither a prompt nor contents is judged as a
\* whole.
ExtractPrompt(body) ==
  CASE body.form = "none" -> "blank"
    [] body.prompt # "no" -> body.prompt
    [] body.contents # {} -> Joined(body.contents)
    [] OTHER -> "text"

\* extract_code_snippets, which parses a text that a client sent.
ExtractCode(body) ==
  IF body.form = "none" THEN "blank" ELSE Joined(body.arguments \cup body.descriptions)

\* extract_agent_response: the first choice's content if it has one, else the
\* answer as it came.
ExtractAnswer(answer) == IF answer.content # "no" THEN answer.content ELSE answer.raw
-----------------------------------------------------------------------------
HookGoto(d, pc) == hookPc' = [hookPc EXCEPT ![d] = pc]

\* The verdict is fixed and, unless it is DENY, record_prompt pushes the
\* current prompt; the oldest of more than ContextWindow goes.
Arrive(d) ==
  /\ hookPc[d] = "arrive"
  /\ \E v \in {"ALLOW", "DENY"} :
       /\ hookVerdict' = [hookVerdict EXCEPT ![d] = v]
       /\ driftWindow' =
            IF v = "DENY" THEN driftWindow
            ELSE [driftWindow EXCEPT ![hookAgent[d]] = LastRows(Append(@, d), ContextWindow)]
  /\ HookGoto(d, "record")
  /\ UNCHANGED <<observerVars, requestVars, auditVars>>

\* The handler's own tasks; a blank prompt's ends at once, without the judge.
Started(d) ==
  LET judged == {"drift"} \cup (IF ExtractPrompt(hookBody[d]) = "text" THEN {"prompt"} ELSE {})
                          \cup (IF ExtractCode(hookBody[d]) = "text" THEN {"code"} ELSE {})
  IN  [audit EXCEPT ![d] = [k \in AuditKind |-> IF k \in judged THEN "start" ELSE "no"]]

\* _build_cot: the trail as JSON, cut at COT_MAX_CHARS; a method, path, tool or
\* rule in it may be named like a marker.
BuildCot == {<<[kind |-> k, says |-> s]>> : k \in {"base", "cut"}, s \in Mentions}

\* Mutant: the audits are started before the row of their decision exists.
RecordMeta_AuditsFirst(d) ==
  /\ hookPc[d] = "record"
  /\ IF audit[d]["drift"] = "no" /\ hookVerdict[d] # "DENY"
     THEN /\ audit' = Started(d)
          /\ UNCHANGED <<observerVars, hookPc>>
     ELSE /\ \E cot \in BuildCot : Record(d, cot)
          /\ HookGoto(d, "forward")
          /\ UNCHANGED audit
  /\ UNCHANGED <<requestVars, hookVerdict, driftWindow, evidenceVars, revokedBy>>

\* _record_meta_soft awaits the thread that records the decision.
RecordMeta(d) ==
  /\ hookPc[d] = "record"
  /\ \E cot \in BuildCot : Record(d, cot) \/ RecordFails(d, cot)
  /\ HookGoto(d, "audits")
  /\ UNCHANGED <<requestVars, hookVerdict, driftWindow, auditVars>>

\* asyncio.create_task for each audit of a request that was not denied.
StartAudits(d) ==
  /\ hookPc[d] = "audits"
  /\ audit' = IF hookVerdict[d] = "DENY" THEN audit ELSE Started(d)
  /\ HookGoto(d, "forward")
  /\ UNCHANGED <<observerVars, requestVars, hookVerdict, driftWindow, evidenceVars, revokedBy>>

\* _proxy_forward of an allowed request: an answer that comes in time starts
\* the output audit, which ends at once if the answer is empty.
ProxyForward(d) ==
  /\ hookPc[d] = "forward"
  /\ \/ hookVerdict[d] = "ALLOW" /\ \E answer \in HookAnswer :
           audit' = [audit EXCEPT ![d]["output"] =
                       IF ExtractAnswer(answer) = "empty" THEN "no" ELSE "start"]
     \/ UNCHANGED audit
  /\ HookGoto(d, "end")
  /\ UNCHANGED <<observerVars, requestVars, hookVerdict, driftWindow, evidenceVars, revokedBy>>

AuditGoto(d, k, s) == audit' = [audit EXCEPT ![d][k] = s]

\* A task runs up to the judge's HTTP call.  The drift audit, which compares the
\* window's last prompt with those before it, needs two.
AskJudge(d, k) ==
  /\ audit[d][k] = "start"
  /\ IF k = "drift" /\ Len(driftWindow[hookAgent[d]]) < 2
     THEN AuditGoto(d, k, "done") ELSE AuditGoto(d, k, "judge")
  /\ UNCHANGED <<observerVars, hookPc, requestVars, hookVerdict, driftWindow, evidenceVars, revokedBy>>

KindsIn(cot) == {cot[i].kind : i \in DOMAIN cot} \ {"base", "cut"}
MaskedIn(cot, kind) == HasStep(cot, kind) /\ kind \notin KindsIn(cot)

\* An answer that calls for a step in the trail, which holds the judge's flags:
\* the callback into the observer.
Note(d, kind) ==
  /\ owed' = [owed EXCEPT ![d] = @ \cup {kind}]
  /\ \E flags \in Mentions :
       LET step == [kind |-> kind, says |-> flags \ {kind}]
       IN  \/ /\ AppendEvent(d, step)
              /\ masked' = IF \E r \in RowsOf(d) : MaskedIn(meta[r].cot, kind)
                           THEN [masked EXCEPT ![d] = @ \cup {kind}] ELSE masked
              /\ UNCHANGED failed
           \/ /\ AppendFails(d, step)
              /\ failed' = [failed EXCEPT ![d] = @ \cup {kind}]
              /\ UNCHANGED masked

\* semantic_audit_async and its code and output twins: every answer goes to the
\* trail, a high one revokes the trace.
SemanticVerdict(d, score) ==
  /\ IF score = "none" THEN UNCHANGED <<observerVars, evidenceVars>> ELSE Note(d, "semantic_judge")
  /\ revokedBy' = IF score = "high" THEN "semantic" ELSE revokedBy

\* semantic_context_drift_async: only a drift goes to the trail, and it does
\* not replace the reason of a trace that is revoked already.
DriftVerdict(d, score) ==
  IF score \in {"drift", "high"}
  THEN /\ Note(d, "context_drift")
       /\ revokedBy' = IF revokedBy = "no" THEN "drift" ELSE revokedBy
  ELSE UNCHANGED <<observerVars, evidenceVars, revokedBy>>

JudgeAnswers(d, k) ==
  /\ audit[d][k] = "judge"
  /\ \E score \in Score :
       IF k = "drift" THEN DriftVerdict(d, score) ELSE SemanticVerdict(d, score)
  /\ AuditGoto(d, k, "done")
  /\ UNCHANGED <<hookPc, requestVars, hookVerdict, driftWindow>>

HookNext ==
  \E d \in MetaId :
    \/ Arrive(d) \/ RecordMeta(d) \/ StartAudits(d) \/ ProxyForward(d)
    \/ \E k \in AuditKind : AskJudge(d, k) \/ JudgeAnswers(d, k)

HookSpec == HookInit /\ [][HookNext]_hookVars
-----------------------------------------------------------------------------
\* The table keeps a row for a decision that was recorded, and that fewer than
\* MaxMetaRows rows came after.
Keeps(i) == inserted[i] \in recorded /\ Len(inserted) - i < MaxMetaRows

\* Why a trace was revoked can be read from the table.  A decision that the
\* table keeps has its row, and the trail has a step of each kind the judge's
\* answers called for, except one whose append met a database error or was
\* skipped for a marker that something else in the trail names; and whatever
\* the order of the audits, errors and commits in between, no row is there
\* twice, no step is there twice, and none that no answer called for.
TrailKeepsEvidence ==
  \A i \in DOMAIN inserted :
    LET d == inserted[i]
    IN  /\ Cardinality(RowsOf(d)) <= 1
        /\ Keeps(i) => RowsOf(d) # {}
        /\ \A r \in RowsOf(d) :
             LET cot == meta[r].cot
             IN  /\ \A j, k \in DOMAIN cot : cot[j].kind = cot[k].kind => j = k
                 /\ KindsIn(cot) \subseteq owed[d]
                 /\ Keeps(i) => owed[d] \subseteq KindsIn(cot) \cup failed[d] \cup masked[d]
=============================================================================
