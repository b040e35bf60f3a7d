------------------------------ MODULE SelfAudit ------------------------------
(***************************************************************************)
(* What the protocol gateway reports about itself: introspect, with        *)
(* src/mce_introspection.py, and scan, with src/vce_scanner.py, look at    *)
(* the compiled rules and at the name of the validator, never at requests. *)
(* Scores and texts of the report are left out.                            *)
(***************************************************************************)
EXTENDS ProtocolGateway

CONSTANTS
  Spelled,         \* the module names "[a-z_]+" matches
  MaxSpots         \* the number of blind spots a report lists, 8 in the code

RuleKind == <<"ethics", "enforce", "ok">>

\* build_mce_introspection: the rules whose names it can take apart, by module;
\* to_dict keeps neither the priority nor the action.  The code sorts them by
\* module: that only decides which modules a report that is cut leaves out.
Introspect(rules) ==
  LET at == {i \in DOMAIN rules : rules[i].module \in Spelled}
      inOrder == {e \in at \X at : e[1] < e[2]}
      read == [n \in 1..Cardinality(at) |-> rules[AtRank(at, inOrder, n)]]
  IN  [n \in DOMAIN read |-> [module |-> read[n].module, kind |-> read[n].kind]]

ScannedModules(mces) == {mces[i].module : i \in DOMAIN mces}
KindsOf(mces, m) == {mces[i].kind : i \in {j \in DOMAIN mces : mces[j].module = m}}

\* _find_conflicts: [kind, module]; a collision needs a priority to group by.
FindConflicts(mces) ==
  LET Both(m, k, l) == {k, l} \subseteq KindsOf(mces, m)
      ranked == {i \in DOMAIN mces : "priority" \in DOMAIN mces[i]}
  IN  {<<"condition_overlap", m>> : m \in {n \in ScannedModules(mces) : Both(n, "enforce", "ok")}}
        \cup {<<"action_ambiguity", m>> : m \in {n \in ScannedModules(mces) : Both(n, "ethics", "ok")}}
        \cup {<<"priority_collision", mces[i].module>> :
                i \in {j \in ranked : \E k \in ranked : /\ mces[k].priority = mces[j].priority
                                                        /\ mces[k].kind # mces[j].kind}}

\* Mutant: the name of the validator that does nothing is a name, too.
HasChannel_AnyName(validator) == validator # ""

HasChannel(validator) == validator # "none"

\* _find_blindspots: first the kinds a module lacks, then, without a validator,
\* every module, in the order of introspect; the list is cut.
FindBlindspots(mces, validator) ==
  LET missing == {e \in ScannedModules(mces) \X ToSet(RuleKind) : e[2] \notin KindsOf(mces, e[1])}
      firsts == {i \in DOMAIN mces : \A j \in 1..i - 1 : mces[j].module # mces[i].module}
      Place(i) == Cardinality(missing) + Cardinality({j \in firsts : j <= i})
  IN  [missing |-> missing,
       declared |-> IF HasChannel(validator) THEN {}
                    ELSE {mces[i].module : i \in {j \in firsts : Place(j) <= MaxSpots}}]

\* vce_scan_rules; the channel is said to hold false declarations back.
VceScanRules(mces, validator) ==
  [conflicts |-> FindConflicts(mces), spots |-> FindBlindspots(mces, validator),
   channel |-> HasChannel(validator)]

\* ProtocolGateway.scan
Scan == VceScanRules(Introspect(protoRules), protoValidator)
-----------------------------------------------------------------------------
\* A request that declares only this lets it pass, by whatever the provider
\* says or fails to say.
LetsPass(m, decl) ==
  LET body == [n \in {m} |-> decl]
      hit == FirstHit(protoRules, body)
  IN  /\ hit # <<>> /\ hit[1].action = "ALLOW_WITH_WARNING"
      /\ ~Downgraded(hit[1], Validate(protoValidator, hit[1], body, "object", "fails") \in {"trivial", "anchored"})

\* The declarations of one protocol that requests are made of.
Declarations == UNION {{body[m] : m \in DOMAIN body} : body \in ProtoBody}

\* A claim to be satisfied with nothing to show for it.
BareClaim(decl) ==
  /\ Plain(decl) /\ Field(decl, "satisfied") = "true"
  /\ Field(decl, "evidence") \in {"absent", "empty", "null"}

\* What a request declares is up to the agent: it may claim with nothing to
\* show, trigger after it is satisfied, and be satisfied with a violation.
ASSUME SelfAuditAssumption ==
  /\ MaxSpots \in Nat
  /\ \E decl \in Declarations : BareClaim(decl) /\ Field(decl, "violation") \in {"absent", "empty"}
  /\ \E decl \in Declarations : SaysFrom(decl, 1, "satisfied") /\ EnforceMatches(decl)
  /\ \E decl \in Declarations : /\ SaysFrom(decl, 1, "satisfied")
                               /\ Field(decl, "violation") \notin {"absent", "empty"}

RuleOf(m, kind) == protoRules[CHOOSE i \in DOMAIN protoRules :
                                protoRules[i].module = m /\ protoRules[i].kind = kind]
Meet(m, k, l) ==
  \E decl \in Declarations : /\ RuleMatches(RuleOf(m, k), [n \in {m} |-> decl])
                             /\ RuleMatches(RuleOf(m, l), [n \in {m} |-> decl])

\* The report says what the gateway does now, whichever validator was set last:
\* for the protocols it can name, a module is reported as resting on the
\* agent's word exactly when a claim without evidence passes (as far as the
\* list goes), a verification channel is announced only if no such claim passes,
\* two rules are reported as overlapping exactly when one
\* declaration meets both, and no two kinds of rules share a priority.
ScanTellsWhatPasses ==
  LET modules == {protoRules[i].module : i \in DOMAIN protoRules} \cap Spelled
      trusting == {m \in modules : \E decl \in Declarations : BareClaim(decl) /\ LetsPass(m, decl)}
  IN  /\ Scan.spots.declared \subseteq trusting
      /\ Cardinality(trusting) <= MaxSpots => Scan.spots.declared = trusting
      /\ Scan.channel => trusting = {}
      /\ Scan.spots.missing = {}
      /\ Scan.conflicts = {<<"condition_overlap", m>> : m \in {n \in modules : Meet(n, "enforce", "ok")}}
           \cup {<<"action_ambiguity", m>> : m \in {n \in modules : Meet(n, "ethics", "ok")}}
           \cup {<<"priority_collision", m>> : m \in
                   {n \in modules : \E i, j \in DOMAIN protoRules :
                      /\ protoRules[i].module = n /\ protoRules[i].priority = protoRules[j].priority
                      /\ protoRules[i].kind # protoRules[j].kind}}
=============================================================================
