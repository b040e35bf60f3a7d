------------------------------- MODULE Codegen -------------------------------
(***************************************************************************)
(* The matchers that src/codegen/generator.py compiles a rule file into    *)
(* (src/codegen/_generated_matches.py): one function per rule, a table     *)
(* from names to functions and one to actions, an order of names, and      *)
(* match_any, which takes the path, the method and the names of the tools. *)
(* The engine of PolicyMatch answers the same requests from the same file. *)
(* The generator copies methods and actions as the file writes them, which *)
(* the engine reads in upper case, and escapes a pattern into a raw string *)
(* literal: a backslash of it comes out doubled, a quote unharmed.         *)
(***************************************************************************)
EXTENDS PolicyMatch

CONSTANTS
  IdentOf,      \* _ident: from rule names to Python identifiers
  Raised        \* match_any ends in re.error

HasJson(rule) == rule.jsonPath # NoCondition /\ rule.pattern # NoCondition

\* The two tests a function may consist of: the path, or the tools' names.  A
\* pattern is compiled when there are names; doubled, it may be no expression.
PathRendered(rule, path) == PathMatches(rule, path)
JsonRendered(rule, tools) ==
  rule.pattern.doubled # NoCondition /\ tools \cap rule.pattern.doubled # {}
JsonRaises(rule, tools) == rule.pattern.doubled = NoCondition /\ tools # {}

\* The body of match_<ident>; a rule without a method is compiled for POST.
SameMethod(rule, method) == method = IF rule.method = NoCondition THEN "POST" ELSE rule.method
GeneratedMatch(rule, path, method, tools) ==
  /\ SameMethod(rule, method)
  /\ IF HasJson(rule) THEN JsonRendered(rule, tools) ELSE PathRendered(rule, path)
GeneratedRaises(rule, method, tools) ==
  SameMethod(rule, method) /\ HasJson(rule) /\ JsonRaises(rule, tools)

\* What a name stands for in the module: Python keeps the last definition of a
\* function and the last entry of a dict display; no action is str(None).
FunctionOf(file, name) == file[Max({i \in DOMAIN file : IdentOf[file[i].name] = IdentOf[name]})]
EntryOf(file, name) ==
  LET rule == file[Max({i \in DOMAIN file : file[i].name = name})]
  IN  [rule EXCEPT !.action = IF rule.action = NoCondition THEN "None" ELSE rule.action]

\* Mutant: _ORDER lists the rules as the file does.
GeneratedOrder_AsFiled(file) == file

\* sorted by priority, stable
GeneratedOrder(file) == ByPriority(file)

MatchAny(file, path, method, tools) ==
  LET order == GeneratedOrder(file)
      Function(n) == FunctionOf(file, order[n].name)
      raises == {n \in DOMAIN order : GeneratedRaises(Function(n), method, tools)}
      hits == {n \in DOMAIN order : GeneratedMatch(Function(n), path, method, tools)}
  IN  IF hits \cup raises = {} THEN NoRule
      ELSE IF Min(hits \cup raises) \in raises THEN Raised
      ELSE EntryOf(file, order[Min(hits \cup raises)].name)
-----------------------------------------------------------------------------
NamePath == <<[op |-> "descend", at |-> ""], [op |-> "key", at |-> "name"]>>    \* $..name
ToolsNamed(req) == UNION {Words(req.body, a) : a \in JsonExtract(req.body, NamePath)}

InUpper(word) == word # NoCondition /\ UpperOf[word] = word

\* The rules of the kinds in config/policies.yaml: a method and an action in
\* upper case, no tenant, and either a path alone or any path with a pattern
\* on the names ($..name) that reads the same with its backslashes doubled.
Compilable(rule) ==
  /\ InUpper(rule.method) /\ InUpper(rule.action)
  /\ rule.tenant = NoTenant /\ rule.toolArgs = NoCondition
  /\ rule.jsonPath # NoCondition =>
       /\ rule.jsonPath = NamePath
       /\ rule.pattern # NoCondition
       /\ rule.pattern.doubled = rule.pattern.words /\ rule.pattern.doubled # NoCondition
       /\ rule.path = [kind |-> "glob", at |-> <<>>]

\* "The generated module is behaviorally equivalent to the runtime policy
\* engine" (generator.py), on what it is equivalent for: given a file of such
\* rules whose names stay distinct as identifiers, a method in upper case, and
\* what stands under "name" in the body as the names of the tools, match_any
\* finds the rule, and the action, that the engine answers with.
GeneratedAgrees ==
  LET req == polRequest
  IN  /\ req # NoRequest /\ InUpper(req.method)
      /\ \A i \in DOMAIN polFile : Compilable(polFile[i])
      /\ IsInjective([i \in DOMAIN polFile |-> IdentOf[polFile[i].name]])
      /\ polAnswer # AstBlock
      => MatchAny(polFile, req.path, req.method, ToolsNamed(req)) = polAnswer
=============================================================================
