--------------------------- MODULE ProtocolGateway ---------------------------
(***************************************************************************)
(* The protocol gateway of src/protocol_gateway.py with the validators of  *)
(* src/verification.py: every protocol file compiles to three rules, a     *)
(* request declares the state of some protocols, the first rule by         *)
(* priority decides, and a declaration that lets the request pass is       *)
(* checked before it does.                                                 *)
(*                                                                         *)
(* A declaration is the sequence of fields of the protocol's state object  *)
(* in the order of its JSON dump, the fields of an object inside it        *)
(* included and marked nested: the rules' look-aheads read the dump, the   *)
(* validators read the object.  In a state that is a list or a text every  *)
(* field is nested.  Requests declare protocols that are named as in       *)
(* config/protocols: in lower-case letters and underscores.                *)
(***************************************************************************)
EXTENDS Integers, Sequences, FiniteSets, SequencesExt, Ranks

CONSTANTS
  ProtoDir,        \* directories: sequences of files [module, level, sound]
  ProtoBody        \* bodies: functions from some modules to declarations

\* A file is an object, and so is a state object: it has a field once.
ASSUME ProtocolAssumption ==
  /\ ProtoDir \subseteq Seq([module : STRING, level : STRING, sound : BOOLEAN])
  /\ \A body \in ProtoBody : \A m \in DOMAIN body :
       LET decl == body[m]
       IN  /\ decl \in Seq([key : STRING, val : STRING, nested : BOOLEAN])
           /\ \A i, j \in DOMAIN decl : ~decl[i].nested /\ ~decl[j].nested /\ decl[i].key = decl[j].key
                                         => i = j

VARIABLES
  protoRules,      \* ProtocolGateway.rules, by priority
  protoValidator,  \* name of the injected validator: "none", "baseline", "semantic-llm"
  protoPc,         \* where evaluate_verified is
  protoBody,       \* the request it evaluates
  protoHit,        \* the rule evaluate found, <<>> for None, and what validate said of it
  protoVerdict,    \* the action it returned, "none" when no rule was hit, "raised"
  protoAudit,      \* the actions the audit sink kept, the last one only
  protoSwitched    \* history: set_validator was called during the request

protoVars == <<protoRules, protoValidator, protoPc, protoBody, protoHit,
               protoVerdict, protoAudit, protoSwitched>>
-----------------------------------------------------------------------------
(* loading and compiling                                                   *)

EnforcePriority == [L2 |-> 20, L3 |-> 15]
\* Mutant: a satisfied high-risk protocol outranks a triggered ordinary one.
OkPriority_L3First == [L2 |-> 30, L3 |-> 18]

OkPriority == [L2 |-> 30, L3 |-> 25]
EthicsPriority == 5

\* One unreadable, incomplete or repeated protocol refuses the directory.
ProtocolsLoad(dir) ==
  /\ dir # <<>>
  /\ \A i \in DOMAIN dir : dir[i].sound /\ dir[i].level \in DOMAIN EnforcePriority
  /\ IsInjective([i \in DOMAIN dir |-> dir[i].module])

RulesOf(file) ==
  LET R(kind, action, p) ==
        [module |-> file.module, kind |-> kind, action |-> action, priority |-> p]
  IN  <<R("enforce", "ESCALATE", EnforcePriority[file.level]),
        R("ethics", "DENY", EthicsPriority),
        R("ok", "ALLOW_WITH_WARNING", OkPriority[file.level])>>

\* sort keeps the order of rules with the same priority, which are of two files:
\* where each of a file's rules comes is the number of those before it.
CompileProtocols(dir) ==
  LET at == (DOMAIN dir) \X (1..3)
      Rule(q) == RulesOf(dir[q[1]])[q[2]]
      before == {e \in at \X at :
                   LET p == Rule(e[1]).priority
                       q == Rule(e[2]).priority
                   IN  p < q \/ (p = q /\ e[1][1] < e[2][1])}
  IN  [n \in 1..3 * Len(dir) |-> Rule(AtRank(at, before, n))]
-----------------------------------------------------------------------------
(* matching                                                                *)

SaysFrom(decl, i, key) == \E j \in i..Len(decl) : decl[j].key = key /\ decl[j].val = "true"

\* re.search tries the two look-aheads of the enforce rule at every position
\* of the dump: a "triggered" written after every "satisfied" is a match.
EnforceMatches(decl) ==
  \E i \in DOMAIN decl : SaysFrom(decl, i, "triggered") /\ ~SaysFrom(decl, i, "satisfied")

Field(decl, key) ==
  LET at == {i \in DOMAIN decl : decl[i].key = key /\ ~decl[i].nested}
  IN  IF at = {} THEN "absent" ELSE decl[CHOOSE i \in at : TRUE].val

\* ".+" over the text of the violation: null and false have one, "" has not.
RuleMatches(rule, body) ==
  /\ rule.module \in DOMAIN body
  /\ LET decl == body[rule.module]
     IN  CASE rule.kind = "enforce" -> EnforceMatches(decl)
           [] rule.kind = "ethics" -> Field(decl, "violation") \notin {"absent", "empty"}
           [] rule.kind = "ok" -> SaysFrom(decl, 1, "satisfied")

FirstHit(rules, body) ==
  LET hits == {i \in DOMAIN rules : RuleMatches(rules[i], body)}
  IN  IF hits = {} THEN <<>> ELSE <<rules[Min(hits)]>>
-----------------------------------------------------------------------------
(* validating                                                              *)

Truthy(val) == val \in {"true", "text"}

StateIsObject(decl) == decl = <<>> \/ \E i \in DOMAIN decl : ~decl[i].nested

\* BaselineDeclarationValidator: "trivial" and "anchored" are verified.  The
\* rules parse a body that is a JSON text, the validator finds no state in it.
Baseline(rule, body, form) ==
  LET decl == body[rule.module]
  IN  CASE rule.kind = "ethics" -> "trivial"
        [] rule.kind # "ethics" /\ (form = "text" \/ ~StateIsObject(decl)) -> "refused"
        [] OTHER ->
             IF ~Truthy(Field(decl, "satisfied")) THEN "trivial"
             ELSE IF ~Truthy(Field(decl, "violation"))
                     /\ Field(decl, "evidence") \notin {"absent", "empty", "null"}
             THEN "anchored" ELSE "refused"

\* LLMSemanticValidator asks its provider about anchored claims only; a
\* provider that is absent, raises, is late or malformed changes nothing, but
\* a confidence that is no number is read outside the try.
Validate(validator, rule, body, form, reply) ==
  LET said == Baseline(rule, body, form)
      asked == validator = "semantic-llm" /\ said = "anchored"
  IN  CASE validator = "none" -> "unverified"
        [] asked /\ reply = "refutes" -> "refused"
        [] asked /\ reply = "garbled" -> "raised"
        [] OTHER -> said
-----------------------------------------------------------------------------
ProtocolInit ==
  /\ \E dir \in ProtoDir : ProtocolsLoad(dir) /\ protoRules = CompileProtocols(dir)
  /\ protoValidator = "none"
  /\ protoPc = "idle"
  /\ protoBody = <<>> /\ protoHit = <<>>
  /\ protoVerdict = "none" /\ protoAudit = "none"
  /\ protoSwitched = FALSE

\* evaluate, then validate: the provider may take its time.
Judge(body, form, reply) ==
  /\ protoPc = "idle"
  /\ protoBody' = body
  /\ protoHit' = LET hit == FirstHit(protoRules, body)
                 IN  IF hit = <<>> THEN <<>>
                     ELSE <<hit[1], Validate(protoValidator, hit[1], body, form, reply)>>
  /\ protoPc' = "judged"
  /\ protoSwitched' = FALSE
  /\ UNCHANGED <<protoRules, protoValidator, protoVerdict, protoAudit>>

\* The name of the validator is read again here.
Downgraded(rule, verified) ==
  rule.action = "ALLOW_WITH_WARNING" /\ ~verified /\ protoValidator # "none"

ActionOf(hit) ==
  CASE hit = <<>> -> "none"
    [] hit # <<>> ->
         IF hit[2] = "raised" THEN "raised"
         ELSE IF Downgraded(hit[1], hit[2] \in {"trivial", "anchored"})
         THEN "ESCALATE" ELSE hit[1].action

\* What validate raises goes to the caller: there is no verdict and no event.
Settle(sink) ==
  /\ protoPc = "judged"
  /\ protoVerdict' = ActionOf(protoHit)
  /\ protoAudit' = IF sink = "keeps" /\ protoVerdict' \notin {"none", "raised"}
                   THEN protoVerdict' ELSE "none"
  /\ protoPc' = "settled"
  /\ UNCHANGED <<protoRules, protoValidator, protoBody, protoHit, protoSwitched>>

Done ==
  /\ protoPc = "settled" /\ protoPc' = "idle"
  /\ protoBody' = <<>> /\ protoHit' = <<>>
  /\ protoVerdict' = "none" /\ protoAudit' = "none"
  /\ UNCHANGED <<protoRules, protoValidator, protoSwitched>>

SetValidator(v) ==
  /\ protoValidator' = v
  /\ protoSwitched' = TRUE
  /\ UNCHANGED <<protoRules, protoPc, protoBody, protoHit, protoVerdict, protoAudit>>

ProtocolNext ==
  \/ \E body \in ProtoBody, form \in {"object", "text"},
        reply \in {"supports", "refutes", "fails", "garbled"} : Judge(body, form, reply)
  \/ \E sink \in {"none", "keeps", "raises"} : Settle(sink)
  \/ Done
  \/ \E v \in {"none", "baseline", "semantic-llm"} : SetValidator(v)

ProtocolSpec == ProtocolInit /\ [][ProtocolNext]_protoVars
-----------------------------------------------------------------------------
\* The declarations of the loaded protocols, as a reader of the request sees
\* them: which are violated, triggered, satisfied, satisfied with evidence.
Declared == {m \in DOMAIN protoBody : \E i \in DOMAIN protoRules : protoRules[i].module = m}
Violated == {m \in Declared : Field(protoBody[m], "violation") \notin {"absent", "empty"}}
Claims(m, key) == Field(protoBody[m], key) = "true"
Anchored(m) == Field(protoBody[m], "evidence") \notin {"absent", "empty", "null"}

\* A flat declaration that is written the way the documentation writes it.
Plain(decl) ==
  /\ \A i \in DOMAIN decl : ~decl[i].nested
  /\ \A i, j \in DOMAIN decl : decl[i].key = "triggered" /\ decl[j].key = "satisfied" => i < j

\* Whatever mixture of protocols a request declares, of whatever levels: one
\* violation denies it; else one protocol triggered and not satisfied escalates
\* it, unless the check of the declaration raises, however many others are
\* satisfied; and when it passes under a validator that was not exchanged
\* meanwhile, some protocol is satisfied with evidence.  The audit sink sees
\* the verdict that was returned, or nothing.
VerdictFollowsDeclarations ==
  protoPc = "settled" /\ (\A m \in Declared : Plain(protoBody[m])) =>
    LET open == {m \in Declared : Claims(m, "triggered") /\ ~Claims(m, "satisfied")}
    IN  /\ protoVerdict = "DENY" <=> Violated # {}
        /\ Violated = {} /\ open # {} => protoVerdict \in {"ESCALATE", "raised"}
        /\ protoVerdict = "ALLOW_WITH_WARNING" /\ protoValidator # "none" /\ ~protoSwitched
             => \E m \in Declared : Claims(m, "satisfied") /\ Anchored(m)
        /\ protoVerdict = "none" => \A m \in Declared : ~Claims(m, "satisfied")
        /\ protoAudit \in {"none", protoVerdict}
=============================================================================
