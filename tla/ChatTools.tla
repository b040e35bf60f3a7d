------------------------------ MODULE ChatTools ------------------------------
(***************************************************************************)
(* What /v1/chat/completions does with the tools a request declares        *)
(* (src/main.py) in front of the policy engine of PolicyMatch: a           *)
(* declaration that cannot be read refuses the request, a dangerous name   *)
(* refuses it, everything else goes to the engine, and the decision        *)
(* records the most lethal tool of the request.                            *)
(***************************************************************************)
EXTENDS PolicyMatch

CONSTANTS
  ChatBody,        \* bodies of chat requests
  NormName,        \* norm_tool_name: the normal form of every name, "json" included
  DangerNorms,     \* normal forms of DANGEROUS_TOOL_NAMES
  LethalityOf,     \* TOOL_LETHALITY: from normal forms to weights
  DefaultLethality,
  NoTool

ASSUME ChatAssumption ==
  /\ "tools" \in FieldName
  /\ NoBody \notin ChatBody
  /\ \A body \in ChatBody : IsJson(body)

VARIABLES
  chatBody,        \* the request, NoBody between requests
  chatDecision     \* verdict, tool_name and tool_lethality of the record

chatVars == <<chatBody, chatDecision>>
-----------------------------------------------------------------------------
IsList(body, a) == a \in DOMAIN body /\ body[a].kind = "list"
Entries(body, a) == IF IsList(body, a) THEN Children(body, a) ELSE {}

Messages(body) == {m \in Entries(body, <<"messages">>) : IsDict(body, m)}
CallsIn(body) == UNION {Entries(body, Append(m, "tool_calls")) : m \in Messages(body)}

\* One declared tool or call: an object, its function one too, its name a string.
FunctionAt(d) == Append(d, "function")
NameAt(d) == Append(FunctionAt(d), "name")

NamesOf(body, decls) ==
  LET named == {d \in decls : /\ IsDict(body, d) /\ IsDict(body, FunctionAt(d))
                              /\ IsString(body, NameAt(d))}
  IN  {body[NameAt(d)].val : d \in named} \ {""}

\* Mutant: the calls in the messages count only when no tools are declared.
ExtractToolNames_ToolsFirst(body) ==
  IF ~IsDict(body, <<>>) THEN {}
  ELSE NamesOf(body, IF Entries(body, <<"tools">>) # {} THEN Entries(body, <<"tools">>)
                     ELSE CallsIn(body))

ExtractToolNames(body) ==
  IF ~IsDict(body, <<>>) THEN {}
  ELSE NamesOf(body, Entries(body, <<"tools">>) \cup CallsIn(body))

BadEntry(body, d) ==
  \/ ~IsDict(body, d)
  \/ FunctionAt(d) \in DOMAIN body /\ ~IsDict(body, FunctionAt(d))
  \/ /\ IsDict(body, FunctionAt(d))
     /\ NameAt(d) \in DOMAIN body /\ ~IsString(body, NameAt(d))

\* JSON null counts as no field: there is no node for it.
MalformedDeclaration(body) ==
  LET NotAList(a) == a \in DOMAIN body /\ ~IsList(body, a)
  IN  /\ IsDict(body, <<>>)
      /\ \/ NotAList(<<"tools">>) \/ NotAList(<<"messages">>)
         \/ \E d \in Entries(body, <<"tools">>) \cup CallsIn(body) : BadEntry(body, d)
         \/ \E m \in Messages(body) : NotAList(Append(m, "tool_calls"))

Lethality(name) ==
  IF NormName[name] \in DOMAIN LethalityOf THEN LethalityOf[NormName[name]]
  ELSE DefaultLethality

\* _audit_tool_fields: the names of the declarations, or whatever stands under
\* a key "name" anywhere; max keeps one of the most lethal.
AuditNames(body) ==
  LET everywhere == JsonExtract(body, <<[op |-> "descend", at |-> ""], [op |-> "key", at |-> "name"]>>)
      Dump(a) == IF Container(body[a]) THEN "json" ELSE body[a].val
  IN  IF ExtractToolNames(body) # {} THEN ExtractToolNames(body)
      ELSE IF IsDict(body, <<>>) THEN {Dump(a) : a \in everywhere} \ {""} ELSE {}

Worst(names) == {n \in names : \A m \in names : Lethality(m) <= Lethality(n)}

ChatVerdictOf(body, answer) ==
  IF \/ MalformedDeclaration(body)
     \/ \E n \in ExtractToolNames(body) : NormName[n] \in DangerNorms
    THEN "DENY"
  ELSE IF answer = NoRule THEN "ALLOW"
  ELSE IF answer # AstBlock /\ answer.action \in {"ALLOW", "ALLOW_WITH_WARNING", "SUSPEND"}
    THEN answer.action
  ELSE "ESCALATE"

ChatInit == chatBody = NoBody /\ chatDecision = NoTool

\* The handler reads a body that is JSON text in JSON as what the text says.
Chat(body) ==
  /\ chatBody' = body
  /\ \E tenant \in PolicyTenant, block \in BOOLEAN :
       LET read == Parsed(body)
           answer == Evaluate(polRules, [path |-> <<"v1", "chat", "completions">>, method |-> "POST",
                                         body |-> body, tenant |-> tenant, astBlock |-> block])
           verdict == ChatVerdictOf(read, answer)
       IN  \/ /\ AuditNames(read) = {}
              /\ chatDecision' = [verdict |-> verdict, tool |-> NoTool, lethality |-> 0]
           \/ \E worst \in Worst(AuditNames(read)) :
                chatDecision' = [verdict |-> verdict, tool |-> worst, lethality |-> Lethality(worst)]
  /\ UNCHANGED policyVars

ChatDone ==
  /\ chatBody' = NoBody /\ chatDecision' = NoTool
  /\ UNCHANGED policyVars

ChatNext ==
  \/ /\ chatBody = NoBody
     /\ \/ \E b \in ChatBody : Chat(b)
        \/ \E f \in PolicyFile : Reload(f) /\ UNCHANGED chatVars
  \/ chatBody # NoBody /\ ChatDone

ChatSpec == PolicyMatchInit /\ ChatInit /\ [][ChatNext]_<<policyVars, chatVars>>
-----------------------------------------------------------------------------
\* Where the name of a tool may stand, tools[i].function.name, and that of a
\* call, messages[i].tool_calls[j].function.name, if the message is an object.
NamePlaces(body) ==
  {a \in DOMAIN body :
     /\ \A n \in 0..(Len(a) - 1) : Container(body[SubSeq(a, 1, n)])
     /\ \/ Len(a) = 4 /\ a[1] = "tools" /\ a[3] = "function" /\ a[4] = "name"
        \/ /\ Len(a) = 6 /\ a[1] = "messages" /\ a[3] = "tool_calls"
           /\ a[5] = "function" /\ a[6] = "name" /\ IsDict(body, SubSeq(a, 1, 2))}

\* The lists there are lists, and the objects are objects.
WellPlaced(body, a) ==
  LET Kinds == IF Len(a) = 4 THEN <<"list", "dict", "dict">>
               ELSE <<"list", "dict", "list", "dict", "dict">>
  IN  \A n \in 1..(Len(a) - 1) : body[SubSeq(a, 1, n)].kind = Kinds[n]

\* A chat request that is not refused declares, at every place where a tool or
\* a call may be declared, nothing or a name that is no dangerous one in any
\* spelling; and the decision of a request that declares tools, refused or not,
\* records one of them, with the largest weight of all.
ToolsAreJudged ==
  chatBody # NoBody =>
    LET body == Parsed(chatBody)
        Declares(a) == IsString(body, a) /\ body[a].val # ""
        named == {a \in NamePlaces(body) : WellPlaced(body, a) /\ Declares(a)}
    IN  IsDict(body, <<>>) =>
        /\ chatDecision.verdict # "DENY" =>
             \A a \in NamePlaces(body) :
               /\ IsString(body, a)
               /\ Declares(a) => NormName[body[a].val] \notin DangerNorms
        /\ named # {} =>
             /\ \E a \in named : chatDecision.tool = body[a].val
             /\ \A a \in named : Lethality(body[a].val) <= chatDecision.lethality
=============================================================================
