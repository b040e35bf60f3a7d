----------------------------- MODULE CodeEffects -----------------------------
(***************************************************************************)
(* What a program does when it is run, and what src/ast_guard.py and       *)
(* src/taint.py should therefore make of it when the gate in front of the  *)
(* policy engine passes it to them.                                        *)
(***************************************************************************)
EXTENDS CodeGate

\* The value of an expression whose parts have these: some text, a builtin
\* function, the builtins, or another.
Meaning(t, a, kids, env) ==
  LET node == t[a]
      V(kind, val) == [kind |-> kind, val |-> val]
      other == V("other", <<>>)
      Taken(of, key) ==
        IF kids[of].kind = "builtins" /\ kids[key].kind = "text" THEN V("function", kids[key].val)
        ELSE other
  IN  CASE node.type = "string" /\ node.val # Formatted -> V("text", node.val)
        [] node.type = "identifier" ->
             IF node.val \in DOMAIN env THEN env[node.val]
             ELSE CASE node.val \in Builtins -> V("builtins", <<>>)
                    [] node.val \in DangerFunc -> V("function", node.val)
                    [] OTHER -> other
        [] node.type = "binary_operator" /\ node.val = <<"+">> ->
             IF kids[1].kind = "text" /\ kids[2].kind = "text" THEN V("text", kids[1].val \o kids[2].val)
             ELSE other
        [] /\ node.type = "call" /\ node.size > 2
           /\ Kid(t, a, 1).type = "identifier" /\ Kid(t, a, 1).val = Getattr -> Taken(2, 3)
        [] node.type = "subscript" -> Taken(1, 2)
        [] OTHER -> other

ValueOf(t, env) ==
  LET value[a \in DOMAIN t] ==
        Meaning(t, a, [i \in 1..t[a].size |-> value[Append(a, i)]], env)
  IN  value

\* The names a statement assigns, and their values after n statements.
Assigned(t, k) == IF t[<<k>>].type = "assignment" THEN {t[<<k, 1>>].val} ELSE {}
After(t, k, env) ==
  [x \in DOMAIN env \cup Assigned(t, k) |->
     IF x \in Assigned(t, k) THEN ValueOf(t, env)[<<k, 2>>] ELSE env[x]]
Env(t) ==
  LET env[n \in 0..t[<<>>].size] == IF n = 0 THEN <<>> ELSE After(t, n, env[n - 1])
  IN  env

\* The calls of a dangerous builtin that running the program makes.
HarmfulCalls(t) ==
  {a \in DOMAIN t \ {<<>>} :
     /\ t[a].type = "call"
     /\ LET fn == ValueOf(t, Env(t)[a[1] - 1])[Append(a, 1)]
        IN  fn.kind = "function" /\ fn.val \in DangerFunc}

\* The expression of a statement, and the names in it.
Expression(t, k) == IF t[<<k>>].type = "assignment" THEN <<k, 2>> ELSE <<k>>
Used(t, k) ==
  {t[a].val : a \in {b \in DOMAIN t : IsPrefix(Expression(t, k), b) /\ t[b].type = "identifier"}}

\* Statements one after the other, each assigning at most one name, which is
\* assigned once and before it is used.
Straight(t) ==
  /\ \A a \in DOMAIN t :
       t[a].type = "assignment" => Len(a) = 1 /\ t[a].size = 2 /\ Kid(t, a, 1).type = "identifier"
  /\ \A k \in 1..t[<<>>].size :
       /\ Assigned(t, k) \cap (Builtins \cup DangerFunc \cup {Getattr}) = {}
       /\ \A j \in k..t[<<>>].size : Assigned(t, j) \cap Used(t, k) = {}
       /\ \A j \in 1..t[<<>>].size : j # k => Assigned(t, j) \cap Assigned(t, k) = {}

\* A literal key of the builtins that the queries look at and can read.
IsPlainKey(node) ==
  /\ node.val \notin DangerFunc \ QueriedFunc
  /\ \E q \in Quote : node.raw = <<q>> \o node.val \o <<q>>

\* No part of an expression is a text that is empty or has an alias mark in it.
PlainText(v) == v.kind = "text" => v.val # <<>> /\ ~Has(v.val, AliasMark)
HasPlainTexts(t) ==
  \A k \in 1..t[<<>>].size :
    LET value == ValueOf(t, Env(t)[k - 1])
    IN  \A a \in DOMAIN t : IsPrefix(<<k>>, a) => PlainText(value[a])

\* What taint.py and the queries share out between them: no builtin is renamed
\* as it stands, getattr has two arguments, a literal key is plain, and no text
\* looks like an alias.
InReach(t) ==
  /\ HasPlainTexts(t)
  /\ \A a \in DOMAIN t :
       LET node == t[a]
           PlainIfLiteral(key) ==
             Kid(t, a, key).type = "string" /\ Kid(t, a, key).val # Formatted => IsPlainKey(Kid(t, a, key))
       IN  /\ node.type = "assignment" =>
                /\ Kid(t, a, 2).type = "identifier" => Kid(t, a, 2).val \notin Builtins \cup DangerFunc
                /\ Kid(t, a, 2).type = "subscript" => Kid(t, Append(a, 2), 2).type # "string"
           /\ node.type = "call" /\ Kid(t, a, 1).type = "identifier" /\ Kid(t, a, 1).val = Getattr =>
                /\ node.size = 3 /\ Kid(t, a, 3).type \in {"identifier", "string", "binary_operator"}
                /\ PlainIfLiteral(3)
           /\ node.type = "subscript" => PlainIfLiteral(2)
-----------------------------------------------------------------------------
\* Every extracted piece is judged by what it does.  A straight Python program
\* that calls a dangerous builtin is blocked, whatever texts and names it was
\* reached through, if no pass raises; and the taint pass reports only calls that
\* do so.  SQL with an error below a destructive keyword is blocked, if the guard
\* runs, unless another error is below a scope that starts at the same place.
CodeIsJudgedByItsEffect ==
  \A i \in DOMAIN gateFragments :
    LET code == gateFragments[i].code
        program == Code[code].program
        sql == Code[code].sql
    IN  code \in DOMAIN Code =>
          /\ gateFragments[i].lang = "python" /\ Straight(program) /\ InReach(program) =>
               /\ AnalyzeTaint(program) \subseteq HarmfulCalls(program)
               /\ HarmfulCalls(program) # {} /\ Code[code].raises = {} => gateBlocks
          /\ gateFragments[i].lang = "sql" /\ Code[code].raises \cap {"parser", "guard"} = {} =>
               \A err \in Errors(sql) :
                 sql[Scope(sql, err)].keyword =>
                   \/ gateBlocks
                   \/ \E other \in Errors(sql) :
                        Scope(sql, other) # Scope(sql, err) /\ SameStart(sql, other, err)
=============================================================================
