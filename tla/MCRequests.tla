----------------------------- MODULE MCRequests -----------------------------
(***************************************************************************)
(* What a request meets around the handlers of Gateway, as TLC runs it:    *)
(* headers and keys, the code gate, the policy engine, the tools of a chat *)
(* request, protocol declarations, and the two hot reloads.  The parts     *)
(* share no state: each behaviour exercises one of them, and the others    *)
(* keep their initial state.                                               *)
(***************************************************************************)
EXTENDS MCTraceContext, CodeEffects, ChatTools, Codegen, SelfAudit, PolicyReload,
  LethalityReload, TLC

VARIABLE part    \* the component a behaviour is about

-----------------------------------------------------------------------------
(* JSON values of PolicyMatch and ChatTools                                *)

Tree(kind, val, kids) ==
  LET below == UNION {{<<k>> \o a : a \in DOMAIN kids[k]} : k \in DOMAIN kids}
  IN  [a \in {<<>>} \cup below |-> IF a = <<>> THEN [kind |-> kind, val |-> val]
                                   ELSE kids[Head(a)][Tail(a)]]
Word(w) == Tree("str", w, <<>>)
Num == Tree("num", "7", <<>>)
Dict(kids) == Tree("dict", "", kids)
List(kids) == Tree("list", "", kids)
JsonText(kids) == Tree("text", "text", kids)
Declaration(fn) == Dict([function |-> Dict(fn)])
ToolCall(name, args) ==
  Dict([tool_calls |-> List("0" :> Declaration([name |-> Word(name), arguments |-> args]))])

\* Nothing, a scalar, objects and lists to walk, text that is JSON, and tool
\* calls at both places with arguments of both forms.
MCBody ==
  LET X == Word("x")
      Y == Word("y")
  IN  {NoBody, X, Dict("a" :> X), Dict("a" :> Y @@ "b" :> X), Dict("a" :> Dict("b" :> X)),
       Dict("b" :> List("0" :> X @@ "1" :> Dict("b" :> Y))), List("0" :> Dict("a" :> X)),
       JsonText("a" :> X), Dict("a" :> JsonText("b" :> X)),
       ToolCall("rm", Dict("a" :> X)), ToolCall("rm", JsonText("a" :> Y)),
       ToolCall("ls", JsonText("a" :> X)),
       Dict([messages |-> List("0" :> ToolCall("rm", JsonText("a" :> X)))])}

\* Rules of the kinds the generator compiles (two of one name), one of each
\* other condition, words in lower case and left out, patterns with a backslash
\* (one of which is no expression once it is doubled), and one that does not load.
MCRule ==
  LET Anywhere == [kind |-> "glob", at |-> <<>>]
      base == [name |-> "r", path |-> Anywhere, method |-> NoCondition, action |-> "DENY",
               priority |-> 2, jsonPath |-> NoCondition, pattern |-> NoCondition,
               tenant |-> NoTenant, toolArgs |-> NoCondition]
      Path(kind, at) == [kind |-> kind, at |-> at]
      Key(k) == [op |-> "key", at |-> k]
      Deep == [op |-> "descend", at |-> ""]
      Each == [op |-> "wild", at |-> ""]
      Pattern(words) == [words |-> words, doubled |-> words]
      Tool == [base EXCEPT !.name = "tool", !.method = "POST", !.jsonPath = <<Deep, Key("name")>>,
                           !.pattern = Pattern({"rm"}), !.priority = 1]
  IN  {[base EXCEPT !.name = "a-b", !.path = Path("exact", <<"a">>), !.method = "POST", !.action = "ALLOW"],
       [base EXCEPT !.name = "a_b", !.path = Path("glob", <<"a">>), !.method = "POST", !.priority = 1],
       Tool, [Tool EXCEPT !.pattern.doubled = {"\\rm"}, !.name = "r"],
       [Tool EXCEPT !.pattern.doubled = NoCondition, !.method = NoCondition],
       [base EXCEPT !.name = "a-b", !.path = Path("prefix", <<"a">>), !.method = "GET"],
       [base EXCEPT !.action = "escalate"],
       [base EXCEPT !.path = Path("exact", <<"a">>), !.jsonPath = <<Key("a")>>, !.pattern = Pattern({"x"})],
       [base EXCEPT !.priority = 1, !.jsonPath = <<Deep, Key("b")>>, !.action = "SUSPEND"],
       [base EXCEPT !.tenant = "t1", !.path = Path("prefix", <<"a">>), !.method = "post",
                    !.action = NoCondition],
       [base EXCEPT !.jsonPath = <<[op |-> "idx", at |-> "0"], Each>>, !.pattern = Pattern({"x"}),
                    !.tenant = "t2"],
       [base EXCEPT !.jsonPath = <<Each, Each>>, !.action = "ALLOW"],
       [base EXCEPT !.jsonPath = <<>>, !.pattern = Pattern({"y"}), !.action = "ALLOW"],
       [base EXCEPT !.priority = 1,
                    !.toolArgs = [name |-> {"rm"}, args |-> {[path |-> <<Key("a")>>, glob |-> {"x"}]}]],
       [base EXCEPT !.action = "BLOCK"]}
MCIdent == [n \in {"r", "a-b", "a_b", "tool"} |-> IF n = "a-b" THEN "a_b" ELSE n]

MCFile == {EmptyFile} \cup UNION {[1..n -> MCRule] : n \in 0..2}
MCMethod == {"GET", "POST", "post"}
MCUpperOf ==
  [w \in MCMethod \cup {"escalate", "ESCALATE", "ALLOW", "DENY", "SUSPEND", "BLOCK"} |->
     CASE w = "post" -> "POST" [] w = "escalate" -> "ESCALATE" [] OTHER -> w]
MCPath == {<<"a">>, <<"a", "b">>, <<"b", "..", "a", ".">>}
MCTenant == {NoTenant, "t1", "t2"}
MCFieldName == STRING

\* Tools declared, called in messages, or both; malformed at every level.
MCChatBody ==
  LET Names == {Word("rm"), Word("Rm"), Word("ls"), Word("x"), Num}
      Decl(n) == Declaration([name |-> n])
      One(n) == List("0" :> Decl(n))
      Two(n, m) == List("0" :> Decl(n) @@ "1" :> Decl(m))
      Calls(n) == List("0" :> Dict([tool_calls |-> One(n)]))
      LateCall(n) == List("0" :> Word("x") @@ "1" :> Dict([tool_calls |-> One(n)]))
  IN  {Dict([tools |-> Two(n, m)]) : n, m \in Names}
      \cup {Dict([tools |-> One(n), messages |-> Calls(m)]) : n, m \in Names}
      \cup {Dict([messages |-> LateCall(n)]) : n \in Names}
      \cup {JsonText([tools |-> One(n)]) : n \in Names}
      \cup {Word("x"), Dict(<<>>), Dict([a |-> Decl(Word("ls")), b |-> Dict([name |-> Word("rm")])]),
            Dict([name |-> Dict([name |-> Word("x")])]), Dict([tools |-> Decl(Word("ls"))]),
            Dict([tools |-> List("0" :> Word("ls"))]),
            Dict([tools |-> List("0" :> Dict([function |-> Word("rm")]))]),
            Dict([messages |-> List("0" :> Dict([tool_calls |-> Decl(Word("ls"))]))])}
MCLethality == "rm" :> 9 @@ "ls" :> 1
MCNormName == [n \in {"rm", "Rm", "ls", "x", "7", "json", "text"} |-> IF n = "Rm" THEN "rm" ELSE n]
-----------------------------------------------------------------------------
(* bodies of CodeGate                                                      *)

MCHint == "code" :> "python" @@ "sql" :> "sql" @@ "query" :> "sql"
MCAlias == <<"py">> :> "python" @@ <<"sql">> :> "sql"
MCTypeHint == {<<"sql">>}

\* Python: x and f, each a text, an alias or neither, then a statement that
\* uses them; getattr and items of the builtins and of another object; keys
\* whose source is escaped, an f-string, and text that looks like an alias.
Graft(node, kids) ==
  LET below == UNION {{<<i>> \o a : a \in DOMAIN kids[i]} : i \in DOMAIN kids}
  IN  [a \in {<<>>} \cup below |-> IF a = <<>> THEN node ELSE kids[Head(a)][Tail(a)]]
Expr(type, val, kids) == Graft([type |-> type, val |-> val, raw |-> <<>>, size |-> Len(kids)], kids)
Source(val, raw) == Graft([type |-> "string", val |-> val, raw |-> raw, size |-> 0], <<>>)
Name(n) == Expr("identifier", <<n>>, <<>>)
Literal(t) == Source(t, <<"'">> \o t \o <<"'">>)
Escaped(t) == Source(t, <<"'", "escapes", "'">>)
FString(t) == Source(Formatted, <<"f", "'">> \o t \o <<"'">>)
Plus(a, b) == Expr("binary_operator", <<"+">>, <<a, b>>)
CallOf(fn, args) == Expr("call", <<>>, <<fn>> \o args)
GetattrOf(of, key) == CallOf(Name("getattr"), <<of, key>>)
ItemOf(of, key) == Expr("subscript", <<>>, <<of, key>>)
Assign(n, e) == Expr("assignment", <<>>, <<Name(n), e>>)
Program(statements) == Expr("module", <<>>, statements)

MCQueriedFunc == {<<"ev", "al">>}
MCDangerFunc == MCQueriedFunc \cup {<<"globals">>}
MCBuiltins == {<<"builtins">>}
MCAliasMark == <<"built", "ins.">>
EvalText == Literal(<<"ev", "al">>)
Keys == <<Name("x"), EvalText, Plus(Literal(<<"ev">>), Literal(<<"al">>)), Plus(Name("x"), Literal(<<"al">>)),
          Plus(Literal(<<"ev">>), FString(<<"al">>)), Escaped(<<"ev", "al">>)>>
Aliases == [i \in 1..12 |-> IF i > 6 THEN ItemOf(Name("builtins"), Keys[i - 6])
                            ELSE GetattrOf(Name("builtins"), Keys[i])]
First == <<Literal(<<"ev">>), EvalText, Plus(Escaped(<<"ev">>), Literal(<<"al">>)), CallOf(Name("f"), <<>>)>>
Second == Aliases \o <<Name("x"), GetattrOf(Name("object"), Name("x")), Plus(Literal(<<"built">>), Aliases[1]),
                      Plus(Literal(<<"built">>), Literal(<<"ins.", "ev", "al">>))>>
Third == [i \in 1..12 |-> CallOf(Aliases[i], <<>>)]
           \o <<CallOf(Name("f"), <<>>), CallOf(Name("x"), <<>>), Assign("y", CallOf(Name("f"), <<Name("x")>>)),
                Assign("f", Literal(<<"al">>)), CallOf(Expr("identifier", <<"ev", "al">>, <<>>), <<>>)>>
MCPrograms ==
  [n \in 1..(4 * 16 * 17) |->
     Program(<<Assign("x", First[(n % 4) + 1]), Assign("f", Second[((n \div 4) % 16) + 1]), Third[((n \div 64) % 17) + 1]>>)]

\* SQL: up to three statements or stray errors; statements with an error, with
\* one in a statement of their own that starts with them or later, and updates.
MCSql ==
  LET Sql(type, where, start, keyword, kids) ==
        Graft([type |-> type, where |-> where, start |-> start, keyword |-> keyword, size |-> Len(kids)], kids)
      Error(start) == Sql("ERROR", "none", start, FALSE, <<Sql("ERROR", "none", start, FALSE, <<>>)>>)
      Update(where, start) == Sql("update_statement", where, start, TRUE, <<>>)
      Broken(start, keyword) == Sql("statement", "none", start, keyword, <<Error(start + 1)>>)
      Within(start, kids) == Sql("statement", "none", start, FALSE, kids)
      Element(s) ==
        <<Sql("statement", "none", s, FALSE, <<>>), Broken(s, FALSE), Broken(s, TRUE),
          Within(s, <<Broken(s + 1, TRUE)>>), Within(s, <<Error(s + 1), Broken(s, TRUE)>>),
          Update("bounded", s), Update("tautology", s), Update("too deep", s), Error(s)>>
      Keywords == {3, 6, 7, 8}
      File(e) ==
        Sql("source_file", "none", 10, \E i \in DOMAIN e : e[i] \in Keywords,
            [i \in DOMAIN e |-> Element(10 * i)[e[i]]])
  IN  [e \in UNION {[1..n -> 1..9] : n \in 1..3} |-> File(e)]

\* Code around the limit of its length, of which the end, or what is left, is bad.
BadCodes ==
  {<<"bad">>, <<"py", "py", "bad">>, <<"py", "py", "py", "bad">>, <<"bad", "py", "py", "py">>,
   <<"bad", "py", "py", "cut">>}

\* Code that other queries capture in either language, these trees, and code on
\* which a pass raises.
MCPieces ==
  BadCodes \cup {<<"py">>, <<"py", "py", "py", "cut">>} \cup ({"p"} \X DOMAIN MCPrograms) \cup ({"s"} \X DOMAIN MCSql)
    \cup ({"raises"} \X {"parser", "query", "taint", "guard"} \X {9, 196})
MCCode ==
  [c \in MCPieces |->
     [captures |-> IF c \in BadCodes THEN {"python", "sql"} ELSE {},
      program |-> CASE c[1] = "p" -> MCPrograms[c[2]]
                    [] c[1] = "raises" -> MCPrograms[c[3]]
                    [] OTHER -> Program(<<>>),
      sql |-> CASE c[1] = "s" -> MCSql[c[2]]
                [] c[1] = "raises" -> MCSql[<<3>>]
                [] OTHER -> MCSql[<<1>>],
      raises |-> IF c[1] = "raises" THEN {c[2]} ELSE {}]]

GateNode(kind, val, items) ==
  LET below == UNION {{<<items[i].key>> \o a : a \in DOMAIN items[i].node} : i \in DOMAIN items}
      Under(k) == CHOOSE i \in DOMAIN items : items[i].key = k
  IN  [a \in {<<>>} \cup below |->
         IF a = <<>> THEN [kind |-> kind, val |-> val, keys |-> [i \in DOMAIN items |-> items[i].key]]
         ELSE items[Under(Head(a))].node[Tail(a)]]
Str(v) == GateNode("str", v, <<>>)
At(k, node) == [key |-> k, node |-> node]
Obj(items) == GateNode("dict", <<>>, items)
GateKeys == DOMAIN MCHint \cup {"arguments", "x", "language"}
Holders == {"code", "sql", "arguments", "x"}
Pairs(K, L) == {q \in K \X L : q[1] # q[2]}

GateCodes == {Str(v) : v \in {<<"bad">>, <<"p", 1>>, <<"s", <<7>>>>}}
FewCodes == {Str(<<"bad">>), Str(<<"py">>)}
Single == {Obj(<<At(k, n)>>) : k \in GateKeys, n \in FewCodes}
Flat ==
  {Obj(<<At(k, n)>>) : k \in GateKeys, n \in GateCodes \cup {Str(<<>>), Str(<<"py">>), GateNode("num", <<>>, <<>>)}}
    \cup {Obj(<<At(q[1], n), At(q[2], m)>>) : q \in Pairs(GateKeys, GateKeys), n, m \in FewCodes}
Inner ==
  Flat \cup {[d EXCEPT ![<<>>].kind = "text", ![<<>>].val = <<"json">>] : d \in Single}
       \cup {GateNode(kind, IF kind = "list" THEN <<>> ELSE <<"json">>, <<At("0", n)>>) :
               kind \in {"list", "textlist"}, n \in Single \cup FewCodes}
Nested ==
  {Obj(<<At(k, n)>>) : k \in Holders, n \in Inner}
    \cup {Obj(<<At(q[1], n), At(q[2], Str(<<"bad">>))>>) : q \in Pairs(Holders, GateKeys), n \in Single}
Deep ==
  {Obj(<<At(k, Obj(<<At(l, n)>>))>>) : k \in {"x", "sql"}, l \in {"x", "code"}, n \in Inner}
    \cup {Obj(<<At(k, Obj(<<At("x", Obj(<<At(l, n)>>))>>))>>) : k \in {"x", "sql"}, l \in GateKeys, n \in Single}
Lists == {GateNode("list", <<>>, <<At("0", a), At("1", b), At("2", c)>>) : a, b, c \in Single}
Pieces == {Obj(<<At(k, Str(v))>>) : k \in {"code", "sql"}, v \in MCPieces}
MCGateBody == UNION {FewCodes, Inner, Nested, Deep, Lists, Pieces}
-----------------------------------------------------------------------------
(* protocol files and declarations                                         *)

MCProtoDir ==
  LET P(module, level) == [module |-> module, level |-> level, sound |-> TRUE]
  IN  {<<P("a", "L2"), P("b", "L3")>>, <<P("b", "L3"), P("a", "L3")>>, <<P("a", "L2")>>,
       <<P("a", "L2"), P("c-1", "L2")>>, <<P("a", "L2"), P("b", "L2"), P("c", "L3")>>,
       <<P("a", "L2"), P("a", "L3")>>, <<P("a", "L4")>>,
       <<[P("a", "L2") EXCEPT !.sound = FALSE]>>, <<>>}

MCProtoBody ==
  LET F(key, val) == [key |-> key, val |-> val, nested |-> FALSE]
      triggered == F("triggered", "true")
      satisfied == F("satisfied", "true")
      evidence == F("evidence", "text")
      decls ==
        {<<>>, <<triggered>>, <<triggered, F("satisfied", "false")>>,
         <<triggered, satisfied, evidence>>, <<satisfied, triggered, evidence>>,
         <<satisfied, F("evidence", "empty")>>, <<F("satisfied", "text"), triggered>>,
         <<F("violation", "text"), satisfied, evidence>>, <<F("violation", "null")>>,
         <<F("violation", "empty"), satisfied, F("evidence", "false")>>,
         <<F("satisfied", "text"), triggered, evidence>>,
         <<[satisfied EXCEPT !.nested = TRUE], [evidence EXCEPT !.nested = TRUE]>>,
         <<F("satisfied", "false"), [satisfied EXCEPT !.nested = TRUE]>>}
  IN  UNION {[s -> decls] : s \in SUBSET {"a", "b"}}
-----------------------------------------------------------------------------
requestVars ==
  <<part, traceContextVars, gateVars, policyVars, chatVars, protoVars, policyReloadVars, lethVars>>

\* A component that is not the subject starts, and stays, in one initial state.
Init ==
  /\ part \in {"headers", "gate", "policy", "chat", "protocol", "reload", "weights"}
  /\ TraceContextInit /\ GateInit /\ PolicyMatchInit /\ ChatInit /\ ProtocolInit
  /\ PolicyReloadInit /\ LethInit
  /\ part = "headers" \/ (~hmacOn /\ tenantOf = <<>>)
  /\ part \in {"policy", "chat"} \/ polFile = CHOOSE f \in PolicyFile : Loadable(f)
  /\ part = "protocol" \/ protoRules = CompileProtocols(CHOOSE d \in ProtoDir : ProtocolsLoad(d))

Next ==
  /\ UNCHANGED part
  /\ \/ /\ part = "headers" /\ TraceContextNext
        /\ UNCHANGED <<gateVars, policyVars, chatVars, protoVars, policyReloadVars, lethVars>>
     \/ /\ part = "gate" /\ GateNext
        /\ UNCHANGED <<traceContextVars, policyVars, chatVars, protoVars, policyReloadVars, lethVars>>
     \/ /\ part = "policy" /\ PolicyMatchNext
        /\ UNCHANGED <<traceContextVars, gateVars, chatVars, protoVars, policyReloadVars, lethVars>>
     \/ /\ part = "chat" /\ ChatNext
        /\ UNCHANGED <<traceContextVars, gateVars, protoVars, policyReloadVars, lethVars>>
     \/ /\ part = "protocol" /\ ProtocolNext
        /\ UNCHANGED <<traceContextVars, gateVars, policyVars, chatVars, policyReloadVars, lethVars>>
     \/ /\ part = "reload" /\ PolicyReloadNext
        /\ UNCHANGED <<traceContextVars, gateVars, policyVars, chatVars, protoVars, lethVars>>
     \/ /\ part = "weights" /\ LethNext
        /\ UNCHANGED <<traceContextVars, gateVars, policyVars, chatVars, protoVars, policyReloadVars>>

Spec == Init /\ [][Next]_requestVars
=============================================================================
