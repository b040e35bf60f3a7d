------------------------------- MODULE AstGuard -------------------------------
(***************************************************************************)
(* How src/ast_guard.py judges a piece of code: the queries of             *)
(* src/queries, what it does with the UPDATE statements they capture, the  *)
(* keyword scan of SQL that does not parse, and src/taint.py, which folds  *)
(* text and follows aliases in Python.                                     *)
(*                                                                         *)
(* A tree is a function from addresses to nodes, with the types of         *)
(* tree-sitter: the whole is at <<>>, and the kids of the node at a are at *)
(* Append(a, 1) to Append(a, size).  A Python node is [type, val, raw,     *)
(* size]; the kids of a call are its function and its arguments, those of  *)
(* a subscript its value and index; a string has its source text, with the *)
(* quotes, as raw and what it evaluates to as val.  An SQL node is [type,  *)
(* where, start, keyword, size]: the WHERE of an update, the position of   *)
(* its text, and whether that begins a statement with a destructive        *)
(* keyword.  A text or a name is a sequence of pieces, so that text can be *)
(* put together from parts.                                                *)
(***************************************************************************)
EXTENDS Integers, Sequences, FiniteSets, SequencesExt, Ranks

CONSTANTS
  Code,            \* [pieces of code -> [captures, program, sql, raises]]: the languages
                   \* in which the other queries capture it, its trees in either
                   \* language, and the passes that raise on it (a tree too deep)
  DangerFunc,      \* DANGER_FUNCS, the names of pattern 1 of python.scm
  QueriedFunc,     \* the names of its patterns 4 and 5
  Builtins,        \* BUILTINS_ALIASES
  Quote,           \* either quotation mark
  AliasMark,       \* "builtins.", which taint.py puts before the name of a function
  Formatted        \* the val of an f-string, and of what is no text

Getattr == <<"getattr">>

\* s has part in it from its i-th piece on.
HasAt(s, part, i) == i + Len(part) - 1 <= Len(s) /\ SubSeq(s, i, i + Len(part) - 1) = part
Has(s, part) == \E i \in DOMAIN s : HasAt(s, part, i)

IsTree(t) ==
  /\ IsFiniteSet(DOMAIN t) /\ <<>> \in DOMAIN t
  /\ \A a \in DOMAIN t :
       /\ a \in Seq(Nat) /\ Len(a) < Cardinality(DOMAIN t) /\ t[a].size \in Nat
       /\ \A i \in 1..t[a].size : Append(a, i) \in DOMAIN t
       /\ \A n \in 0..(Len(a) - 1) :
            SubSeq(a, 1, n) \in DOMAIN t /\ a[n + 1] \in 1..t[SubSeq(a, 1, n)].size

\* The kids a node of its type has at least.
Arity(type) ==
  CASE type \in {"assignment", "binary_operator", "subscript"} -> 2
    [] type = "call" -> 1
    [] OTHER -> 0

IsProgram(t) ==
  /\ IsTree(t) /\ t[<<>>].type = "module"
  /\ \A a \in DOMAIN t :
       /\ t[a].size >= Arity(t[a].type)
       /\ t[a].type = "identifier" => t[a].size = 0
       /\ t[a].val = Formatted \/ t[a].val \in Seq(STRING)
       /\ t[a].raw \in Seq(STRING)

\* No name of a dangerous function is the beginning of another, and none brings
\* another alias mark with it.
ASSUME GuardAssumption ==
  /\ \A c \in DOMAIN Code : IsProgram(Code[c].program) /\ IsTree(Code[c].sql)
  /\ AliasMark \in Seq(STRING) \ {<<>>} /\ Quote \subseteq STRING
  /\ \A f \in DangerFunc :
       /\ f \in Seq(STRING) \ {<<>>} /\ f \notin Builtins /\ ~Has(f, AliasMark)
       /\ \A i \in 2..(Len(AliasMark) + Len(f)) : ~HasAt(AliasMark \o f, AliasMark, i)
       /\ \A g \in DangerFunc : IsPrefix(f, g) => f = g
-----------------------------------------------------------------------------
(* src/taint.py                                                            *)

Kid(t, a, i) == t[Append(a, i)]

\* _walk comes to the node at a before that at b: parents first, then kids in
\* their order.
WalkedBefore(a, b) ==
  \/ IsStrictPrefix(a, b)
  \/ \E n \in 1..Len(a) :
       n <= Len(b) /\ SubSeq(a, 1, n - 1) = SubSeq(b, 1, n - 1) /\ a[n] < b[n]

\* _fold_expr of a node whose kids fold to these: no value, or one.  A literal
\* key of _fold_getattr and _fold_subscript is left to the queries.
Folded(t, a, kids, bindings) ==
  LET node == t[a]
      Builtin(of, key) ==
        IF /\ Kid(t, a, of).type = "identifier" /\ Kid(t, a, of).val \in Builtins
           /\ Kid(t, a, key).type # "string"
        THEN {AliasMark \o name : name \in kids[key] \cap DangerFunc} ELSE {}
      objs == {i \in 2..node.size : Kid(t, a, i).type \in {"identifier", "string", "binary_operator"}}
      FirstTwo(i, j) == i < j /\ {k \in objs : k <= j} = {i, j}
  IN  CASE node.type = "string" -> {node.val} \ {Formatted}
        [] node.type = "identifier" -> {e[2] : e \in {b \in bindings : b[1] = node.val}}
        [] node.type = "binary_operator" /\ node.val = <<"+">> -> {l \o r : l \in kids[1], r \in kids[2]}
        [] /\ node.type = "call"
           /\ Kid(t, a, 1).type = "identifier" /\ Kid(t, a, 1).val = Getattr ->
             UNION {Builtin(p[1], p[2]) : p \in {q \in objs \X objs : FirstTwo(q[1], q[2])}}
        [] node.type = "subscript" -> Builtin(1, 2)
        [] OTHER -> {}

FoldExpr(t, bindings) ==
  LET fold[a \in DOMAIN t] ==
        Folded(t, a, [i \in 1..t[a].size |-> fold[Append(a, i)]], bindings)
  IN  fold

\* One table for the file, a set of names with their values, filled assignment
\* by assignment; one that cannot be folded changes nothing.
Assignments(t) == {a \in DOMAIN t : t[a].type = "assignment" /\ Kid(t, a, 1).type = "identifier"}
Walk(t) == {e \in Assignments(t) \X Assignments(t) : WalkedBefore(e[1], e[2])}
Bound(t, bindings, a) ==
  LET name == Kid(t, a, 1).val
      folds == FoldExpr(t, bindings)[Append(a, 2)]
  IN  {b \in bindings : b[1] # name \/ folds = {}} \cup ({name} \X folds)
Bindings(t) ==
  LET table[n \in 0..Cardinality(Assignments(t))] ==
        IF n = 0 THEN {} ELSE Bound(t, table[n - 1], AtRank(Assignments(t), Walk(t), n))
  IN  table
CollectBindings(t) == Bindings(t)[Cardinality(Assignments(t))]

\* Mutant: a text that is a dangerous name counts as the function.
CallTarget_Unmarked(t, fn, bindings) ==
  IF t[fn].type \in {"identifier", "call", "subscript"}
  THEN {v \in FoldExpr(t, bindings)[fn] :
          v \in DangerFunc \/ \E name \in DangerFunc : v = AliasMark \o name}
  ELSE {}

CallTarget(t, fn, bindings) ==
  IF t[fn].type \in {"identifier", "call", "subscript"}
  THEN {v \in FoldExpr(t, bindings)[fn] : \E name \in DangerFunc : v = AliasMark \o name}
  ELSE {}

AnalyzeTaint(t) ==
  LET bindings == CollectBindings(t)
  IN  {a \in DOMAIN t : t[a].type = "call" /\ CallTarget(t, Append(a, 1), bindings) # {}}
-----------------------------------------------------------------------------
(* src/queries/python.scm                                                  *)

\* Pattern 1: a dangerous function called by its name.
CalledByName(fn) == fn.type = "identifier" /\ fn.val \in DangerFunc

\* Pattern 4: getattr of the builtins, the source of whose key has a dangerous
\* name in it.  Pattern 5: an item of them called in place, under such a name in
\* quotes.  An escape in the source hides the name from both.
OfBuiltins(n) == n.type = "identifier" /\ n.val \in Builtins
Holds(raw) == \E name \in QueriedFunc : Has(raw, name)
HoldsQuoted(raw) ==
  \E name \in QueriedFunc, open, close \in Quote : Has(raw, <<open>> \o name \o <<close>>)
TakenFromBuiltins(t, a) ==
  LET fn == Kid(t, a, 1)
      Item(i) == Kid(t, Append(a, 1), i)
  IN  \/ /\ fn.type = "identifier" /\ fn.val = Getattr
         /\ \E i, j \in 2..t[a].size :
              /\ i < j /\ OfBuiltins(Kid(t, a, i))
              /\ Kid(t, a, j).type = "string" /\ Holds(Kid(t, a, j).raw)
      \/ /\ fn.type = "subscript" /\ OfBuiltins(Item(1))
         /\ Item(2).type = "string" /\ HoldsQuoted(Item(2).raw)

Queried(t, a) ==
  t[a].type = "call" /\ (CalledByName(Kid(t, a, 1)) \/ TakenFromBuiltins(t, a))
-----------------------------------------------------------------------------
(* SQL                                                                     *)

IsStatement(node) == node.type \in {"statement", "update_statement"}
HasWhereClause(node) == node.where # "none"
HasTautologyWhere(node) == node.where = "tautology"    \* somewhere a name compared with itself

\* The search of a WHERE that is too deep raises, which refuses the request.
UnboundedUpdate(t) ==
  \E a \in DOMAIN t :
    /\ t[a].type = "update_statement"
    /\ HasWhereClause(t[a]) => HasTautologyWhere(t[a]) \/ t[a].where = "too deep"

\* _sql_parse_error_guard: every outermost ERROR has the text of the closest
\* statement above it scanned, or that of the file.  What has been scanned is
\* known by where it starts: another scope that starts there is skipped.
Errors(t) ==
  {a \in DOMAIN t :
     t[a].type = "ERROR" /\ \A b \in DOMAIN t : IsStrictPrefix(b, a) => t[b].type # "ERROR"}
Scopes(t, err) ==
  {a \in DOMAIN t :
     /\ IsStrictPrefix(a, err) /\ IsStatement(t[a])
     /\ \A b \in DOMAIN t : IsStrictPrefix(a, b) /\ IsStrictPrefix(b, err) => ~IsStatement(t[b])}
Scope(t, err) == IF Scopes(t, err) = {} THEN <<>> ELSE CHOOSE a \in Scopes(t, err) : TRUE

SameStart(t, a, b) == t[Scope(t, a)].start = t[Scope(t, b)].start
ParseErrorGuard(t) ==
  \E err \in Errors(t) :
    /\ \A other \in Errors(t) : WalkedBefore(other, err) => ~SameStart(t, other, err)
    /\ t[Scope(t, err)].keyword
-----------------------------------------------------------------------------
\* ASTGuard.analyze finds something.  A parser that raises leaves nothing to
\* find, and a pass that raises only what the others find.
Dangerous(lang, code) ==
  LET c == Code[code]
      Runs(pass) == c.raises \cap {"parser", pass} = {}
  IN  /\ code \in DOMAIN Code
      /\ \/ /\ Runs("query")
            /\ \/ lang \in c.captures
               \/ lang = "python" /\ \E a \in DOMAIN c.program : Queried(c.program, a)
               \/ lang = "sql" /\ UnboundedUpdate(c.sql)
         \/ lang = "python" /\ Runs("taint") /\ AnalyzeTaint(c.program) # {}
         \/ lang = "sql" /\ Runs("guard") /\ ParseErrorGuard(c.sql)
=============================================================================
