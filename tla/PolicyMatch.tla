---------------------------- MODULE PolicyMatch ----------------------------
(***************************************************************************)
(* The policy engine of src/policy.py as a function of a rule file and a   *)
(* request: the walk of a json_path over a request body, the tool_args     *)
(* conditions, the prefix index that prunes rules before they are walked,  *)
(* tenant scoping and the AST gate in front, under reloads that keep the   *)
(* old rules when a file is refused.                                       *)
(*                                                                         *)
(* A JSON value is a function from addresses to nodes [kind, val]: the     *)
(* whole value is at <<>>, and what a "dict" or a "list" at a holds under *)
(* a key, or under an index "0", "1", ..., is at Append(a, key).  A scalar *)
(* ("str", or "num" when it is no string) has a word as val; a "text" is a *)
(* string that parses as a dict of what is below it.  A glob is the set of *)
(* words it matches; a json_pattern, a regular expression that is not "",  *)
(* is the set of words it matches, and of those it matches once its        *)
(* backslashes are doubled, which Codegen needs.  How the reloads of       *)
(* several threads interleave is the subject of PolicyReload.              *)
(***************************************************************************)
EXTENDS Integers, Sequences, FiniteSets, SequencesExt, Ranks

CONSTANTS
  PolicyFile,      \* rule files: sequences of rules, or EmptyFile
  PolicyBody,      \* request bodies (JSON values, or NoBody)
  PolicyPath,      \* request paths: sequences of components
  PolicyTenant,    \* tenants of requests, NoTenant included
  PolicyMethod,    \* methods of requests, in any case
  UpperOf,         \* str.upper, on these methods and on the words of rules
  FieldName,       \* keys of dicts, and indices of lists as "0", "1", ...
  EmptyFile, NoBody, NoTenant, NoCondition, NoRule, NoRequest, AstBlock

\* What _parse_json_path makes of .k, [i], [*] and ..
Segment == [op : {"key", "idx"}, at : FieldName] \cup [op : {"wild", "descend"}, at : {""}]

\* Rule: what a file does not say of one is NoCondition, or NoTenant.
PolicyRule ==
  LET Maybe(S) == {NoCondition} \cup S
      Glob == SUBSET STRING
  IN  [name : STRING, path : [kind : {"exact", "prefix", "glob"}, at : Seq(STRING)],
       method : Maybe(DOMAIN UpperOf), action : Maybe(DOMAIN UpperOf), priority : Int,
       jsonPath : Maybe(Seq(Segment)), pattern : Maybe([words : Glob, doubled : Maybe(Glob)]),
       tenant : {NoTenant} \cup STRING,
       toolArgs : Maybe([name : Maybe(Glob), args : SUBSET [path : Seq(Segment), glob : Glob]])]

\* Every node of a JSON value but the whole is below another one.
IsJson(body) ==
  /\ <<>> \in DOMAIN body
  /\ \A a \in DOMAIN body :
       /\ a \in Seq(FieldName)
       /\ \A n \in 0..Len(a) : SubSeq(a, 1, n) \in DOMAIN body
       /\ body[a] \in [kind : {"dict", "list", "text", "str", "num"}, val : STRING]

ASSUME PolicyAssumption ==
  /\ {"messages", "tool_calls", "function", "name", "arguments"} \subseteq FieldName
  /\ UpperOf \in [DOMAIN UpperOf -> DOMAIN UpperOf]
  /\ "ALLOW" \in DOMAIN UpperOf /\ PolicyMethod \subseteq DOMAIN UpperOf
  /\ PolicyFile \ {EmptyFile} \subseteq Seq(PolicyRule)
  /\ \A body \in PolicyBody \ {NoBody} : IsJson(body)

VARIABLES
  polRules,        \* PolicyEngine.rules, sorted; JsonPathIndex holds the same list
  polRequest,      \* the request being evaluated
  polAnswer,       \* what evaluate returned
  polFile          \* history: the last file that was accepted

policyVars == <<polRules, polRequest, polAnswer, polFile>>
-----------------------------------------------------------------------------
(* json_path over a body                                                   *)

Container(node) == node.kind \in {"dict", "list"}

\* Where a walk from a can get to: only dicts and lists are entered.
Beneath(body, a) ==
  {b \in DOMAIN body : /\ IsPrefix(a, b)
                       /\ \A n \in Len(a)..(Len(b) - 1) : Container(body[SubSeq(b, 1, n)])}
Children(body, a) == {b \in Beneath(body, a) : Len(b) = Len(a) + 1}

\* Where one segment leads from a.
Onward(body, a, s) ==
  CASE s.op = "wild" -> Children(body, a)
    [] s.op = "descend" -> Beneath(body, a)
    [] OTHER -> {b \in Children(body, a) :
                   b = Append(a, s.at) /\ body[a].kind = IF s.op = "key" THEN "dict" ELSE "list"}

\* Where the first n segments lead from a start, and all of them.
Reached(body, start, segs) ==
  LET reached[n \in 0..Len(segs)] ==
        IF n = 0 THEN {start} ELSE UNION {Onward(body, a, segs[n]) : a \in reached[n - 1]}
  IN  reached
ExtractAt(body, start, segs) == Reached(body, start, segs)[Len(segs)]

\* A text body is parsed first; only dicts and lists can be walked.
Parsed(body) == IF body[<<>>].kind = "text" THEN [body EXCEPT ![<<>>].kind = "dict"] ELSE body
Walkable(body) == body # NoBody /\ Container(Parsed(body)[<<>>])

JsonExtract(body, segs) ==
  IF Walkable(body) THEN ExtractAt(Parsed(body), <<>>, segs) ELSE {}

\* The words of the string a value is matched as: a scalar's own, or every
\* key and value in the compact dump of a container.
Words(body, a) ==
  LET dumped == {b \in DOMAIN body : IsPrefix(a, b)}
  IN  {body[b].val : b \in {c \in dumped : body[c].kind \in {"str", "num"}}}
        \cup {Last(b) : b \in {c \in dumped \ {a} : body[Front(c)].kind # "list"}}
-----------------------------------------------------------------------------
(* tool_args: name and argument conditions on one and the same call        *)

ToolCallPaths ==
  LET Key(k) == [op |-> "key", at |-> k]
      Each == [op |-> "wild", at |-> ""]
  IN  {<<Key("messages"), Each, Key("tool_calls"), Each, Key("function")>>,
       <<Key("tool_calls"), Each, Key("function")>>}

IsDict(body, a) == a \in DOMAIN body /\ body[a].kind = "dict"
IsString(body, a) == a \in DOMAIN body /\ body[a].kind \in {"str", "text"}

ToolCallFunctions(body) ==
  IF body = NoBody THEN {}
  ELSE LET found == UNION {ExtractAt(Parsed(body), <<>>, p) : p \in ToolCallPaths}
       IN  {a \in found : IsDict(Parsed(body), a)}

\* arguments may be a dict or a text; anything else counts as no arguments,
\* in which no condition finds a scalar.
ToolArgsMatch(rule, body) ==
  \E fn \in ToolCallFunctions(body) :
    LET name == Append(fn, "name")
        at == Append(fn, "arguments")
        args == [body EXCEPT ![at].kind = "dict"]
    IN  /\ rule.toolArgs.name # NoCondition =>
             (IF IsString(body, name) THEN body[name].val ELSE "") \in rule.toolArgs.name
        /\ \A cond \in rule.toolArgs.args :
             /\ at \in DOMAIN body /\ body[at].kind \in {"dict", "text"}
             /\ \E a \in ExtractAt(args, at, cond.path) :
                  ~Container(args[a]) /\ args[a].val \in cond.glob
-----------------------------------------------------------------------------
(* one rule                                                                *)

\* posixpath.normpath of the path without its query
Normal(path) ==
  FoldLeft(LAMBDA acc, c : CASE c = "." -> acc
                             [] c = ".." -> IF acc = <<>> THEN acc ELSE Front(acc)
                             [] OTHER -> Append(acc, c),
           <<>>, path)

\* path_pattern: an exact path, a prefix ending in "/", or a trailing "*"
PathMatches(rule, path) ==
  LET p == Normal(path)
      at == rule.path.at
  IN  \/ rule.path.kind = "exact" /\ p = at
      \/ rule.path.kind = "prefix" /\ IsStrictPrefix(at, p)
      \/ rule.path.kind = "glob" /\ (at = <<>> \/ IsStrictPrefix(at, p))

\* Methods compare in upper case.
MethodMatches(rule, method) ==
  rule.method # NoCondition => UpperOf[rule.method] = UpperOf[method]

Matches(rule, req) ==
  /\ MethodMatches(rule, req.method)
  /\ PathMatches(rule, req.path)
  /\ rule.jsonPath # NoCondition =>
       LET found == JsonExtract(req.body, rule.jsonPath)
       IN  /\ found # {}
           /\ \/ rule.pattern = NoCondition
              \/ \E a \in found : Words(req.body, a) \cap rule.pattern.words # {}
  /\ rule.jsonPath = NoCondition /\ rule.toolArgs # NoCondition => ToolArgsMatch(rule, req.body)

\* The action of a rule as the engine keeps it.
Action(rule) == IF rule.action = NoCondition THEN "ALLOW" ELSE UpperOf[rule.action]

\* Rule.__post_init__: what refuses the whole file
Valid(rule) ==
  /\ Action(rule) \in {"ALLOW", "ALLOW_WITH_WARNING", "DENY", "ESCALATE", "SUSPEND"}
  /\ rule.pattern # NoCondition => rule.jsonPath # NoCondition
  /\ rule.toolArgs # NoCondition =>
       /\ rule.toolArgs.name # NoCondition \/ rule.toolArgs.args # {}
       /\ rule.jsonPath = NoCondition
-----------------------------------------------------------------------------
(* the engine                                                              *)

\* Mutant: ".." pruned as if the key after it had to be at the top.
MayApply_DescendPruned(rule, body) ==
  \/ rule.jsonPath = NoCondition
  \/ rule.jsonPath = <<>>
  \/ rule.jsonPath[1].op = "wild"
  \/ /\ rule.jsonPath[1].op \in {"key", "descend"}
     /\ Walkable(body) /\ Parsed(body)[<<>>].kind = "dict"
     /\ <<Last(rule.jsonPath).at>> \in DOMAIN body
  \/ /\ rule.jsonPath[1].op = "idx"
     /\ Walkable(body) /\ Parsed(body)[<<>>].kind = "list"

\* JsonPathIndex: a rule whose first segment is a key or an index can only
\* match a body that has it; everything else stays a candidate.
MayApply(rule, body) ==
  \/ rule.jsonPath = NoCondition
  \/ rule.jsonPath = <<>>
  \/ rule.jsonPath[1].op \in {"wild", "descend"}
  \/ /\ rule.jsonPath[1].op = "key"
     /\ Walkable(body) /\ Parsed(body)[<<>>].kind = "dict"
     /\ <<rule.jsonPath[1].at>> \in DOMAIN body
  \/ /\ rule.jsonPath[1].op = "idx"
     /\ Walkable(body) /\ Parsed(body)[<<>>].kind = "list"

Visible(rule, req) == rule.tenant \in {NoTenant, req.tenant}

\* list.sort by priority is stable: equal priorities keep their file order
Earlier(file) ==
  {e \in (DOMAIN file) \X (DOMAIN file) :
     \/ file[e[1]].priority < file[e[2]].priority
     \/ file[e[1]].priority = file[e[2]].priority /\ e[1] < e[2]}
ByPriority(file) == [n \in DOMAIN file |-> file[AtRank(DOMAIN file, Earlier(file), n)]]

Evaluate(rules, req) ==
  LET hits == {n \in DOMAIN rules : /\ MayApply(rules[n], req.body)
                                    /\ Visible(rules[n], req) /\ Matches(rules[n], req)}
  IN  IF req.astBlock /\ req.body # NoBody THEN AstBlock
      ELSE IF hits = {} THEN NoRule ELSE rules[Min(hits)]

\* An empty file is refused; one without rules is not.
Loadable(file) == file # EmptyFile /\ \A i \in DOMAIN file : Valid(file[i])
LoadedRules(file) == [i \in DOMAIN file |-> [file[i] EXCEPT !.action = Action(file[i])]]

PolicyRequest == [path : PolicyPath, method : PolicyMethod, body : PolicyBody,
                  tenant : PolicyTenant, astBlock : BOOLEAN]

\* The constructor raises on a file that does not load: no gateway then.
PolicyMatchInit ==
  /\ polFile \in {f \in PolicyFile : Loadable(f)}
  /\ polRules = ByPriority(LoadedRules(polFile))
  /\ polRequest = NoRequest
  /\ polAnswer = NoRule

Reload(file) ==
  /\ polRules' = IF Loadable(file) THEN ByPriority(LoadedRules(file)) ELSE polRules
  /\ polFile' = IF Loadable(file) THEN file ELSE polFile
  /\ UNCHANGED <<polRequest, polAnswer>>

Ask(req) ==
  /\ polRequest' = req
  /\ polAnswer' = Evaluate(polRules, req)
  /\ UNCHANGED <<polRules, polFile>>

Answered ==
  /\ polRequest' = NoRequest /\ polAnswer' = NoRule
  /\ UNCHANGED <<polRules, polFile>>

PolicyMatchNext ==
  \/ /\ polRequest = NoRequest
     /\ (\E f \in PolicyFile : Reload(f)) \/ (\E r \in PolicyRequest : Ask(r))
  \/ polRequest # NoRequest /\ Answered

PolicyMatchSpec == PolicyMatchInit /\ [][PolicyMatchNext]_policyVars
-----------------------------------------------------------------------------
(* what evaluation promises, stated without walking, pruning or sorting    *)

\* segs selects an address when its segments can be laid along it, ".."
\* covering any stretch and every other segment one step it allows.
Selects(body, segs, address) ==
  \E cut \in [0..Len(segs) -> 0..Len(address)] :
    /\ cut[0] = 0 /\ cut[Len(segs)] = Len(address)
    /\ \A i \in 1..Len(segs) :
         IF segs[i].op = "descend" THEN cut[i - 1] <= cut[i]
         ELSE /\ cut[i] = cut[i - 1] + 1
              /\ segs[i].op # "wild" =>
                   /\ address[cut[i]] = segs[i].at
                   /\ body[SubSeq(address, 1, cut[i - 1])].kind
                        = IF segs[i].op = "key" THEN "dict" ELSE "list"

SaysBody(rule, body) ==
  \E a \in DOMAIN body :
    /\ \A n \in 0..(Len(a) - 1) : Container(Parsed(body)[SubSeq(a, 1, n)])
    /\ Selects(Parsed(body), rule.jsonPath, a)
    /\ rule.pattern # NoCondition => Words(body, a) \cap rule.pattern.words # {}

Applies(rule, req) ==
  /\ Visible(rule, req)
  /\ MethodMatches(rule, req.method) /\ PathMatches(rule, req.path)
  /\ rule.jsonPath # NoCondition => Walkable(req.body) /\ SaysBody(rule, req.body)
  /\ rule.toolArgs # NoCondition => ToolArgsMatch(rule, req.body)

\* A request is answered by the rule of the last accepted file that applies to
\* it and has the smallest priority, the earliest in the file among equals;
\* pruning by the index, the order of the list and a refused file in between
\* change nothing, and code that the AST gate blocks beats every rule.
FirstMatchWins ==
  polRequest # NoRequest =>
    LET file == LoadedRules(polFile)
        hits == {i \in DOMAIN file : Applies(file[i], polRequest)}
        Before(i, j) == \/ file[i].priority < file[j].priority
                        \/ file[i].priority = file[j].priority /\ i <= j
    IN  IF polRequest.astBlock /\ polRequest.body # NoBody THEN polAnswer = AstBlock
        ELSE IF hits = {} THEN polAnswer = NoRule
        ELSE \E i \in hits : polAnswer = file[i] /\ \A j \in hits : Before(i, j)
=============================================================================
