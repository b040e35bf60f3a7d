------------------------------- MODULE CodeGate -------------------------------
(***************************************************************************)
(* The gate in front of the policy engine: src/payload_extractor.py takes  *)
(* code fragments out of a request body, ASTGuard.analyze judges each, and *)
(* the engine blocks a request with one bad fragment.                      *)
(*                                                                         *)
(* A body is a function from addresses to nodes [kind, val, keys]: the     *)
(* whole is at <<>>, and what a "dict" or a "list" at a holds under a key, *)
(* or under an index, is at Append(a, key); keys has the keys in their     *)
(* order.  A "text" is a string that parses as a dict and a "textlist" one *)
(* that parses as a list: they hold what they parse as, and like a "str"   *)
(* have a val, a sequence of pieces.                                       *)
(***************************************************************************)
EXTENDS AstGuard

CONSTANTS
  GateBody,        \* request bodies
  GateKey,         \* keys of dicts, and indices of lists
  Hint,            \* _KEY_HINTS: from code keys to languages
  JsonKey,         \* _JSON_CONTAINER_KEYS
  Alias,           \* _LANG_ALIASES: the values of a language field it knows
  TypeHint,        \* _TYPE_HINT_VALUES
  MaxFragments, MaxDepth,
  MaxCodeLen,      \* MAX_CODE_LEN, in pieces
  Truncated,       \* the note left where code is cut
  NoLang

ListLike(node) == node.kind \in {"list", "textlist"}
StringLike(node) == node.kind \in {"str", "text", "textlist"}

IsGateBody(body) ==
  /\ IsFiniteSet(DOMAIN body) /\ <<>> \in DOMAIN body
  /\ \A a \in DOMAIN body :
       LET keys == body[a].keys
       IN  /\ a \in Seq(GateKey) /\ keys \in Seq(GateKey)
           /\ \A n \in 0..(Len(a) - 1) :
                /\ SubSeq(a, 1, n) \in DOMAIN body
                /\ a[n + 1] \in ToSet(body[SubSeq(a, 1, n)].keys)
           /\ \A i, j \in DOMAIN keys : keys[i] = keys[j] => i = j
           /\ \A k \in ToSet(keys) : Append(a, k) \in DOMAIN body
           /\ ListLike(body[a]) => ToSet(keys) \cap (JsonKey \cup DOMAIN Hint) = {}

ASSUME GateAssumption ==
  /\ MaxFragments \in Nat /\ MaxDepth \in Nat /\ MaxCodeLen \in Nat
  /\ JsonKey \cap DOMAIN Hint = {}
  /\ \A body \in GateBody : IsGateBody(body)

VARIABLES
  gateBody,        \* the request being checked, <<>> between requests
  gateFragments,   \* what extract returned: a sequence of [lang, code]
  gateBlocks       \* check_request returned a block

gateVars == <<gateBody, gateFragments, gateBlocks>>
-----------------------------------------------------------------------------
(* extracting                                                              *)

IsText(node) == StringLike(node) /\ node.val # <<>>
NormLang(node) == IF IsText(node) /\ node.val \in DOMAIN Alias THEN Alias[node.val] ELSE NoLang
FirstOf(keys, set) == keys[Min({i \in DOMAIN keys : keys[i] \in set})]

\* What the first of the language fields, else "type", says of the dict at a.
Declares(body, a) ==
  LET keys == ToSet(body[a].keys)
      fields == <<"language", "lang", "language_name">>
      Says(k) == NormLang(body[Append(a, k)])
      named == IF keys \cap ToSet(fields) = {} THEN NoLang ELSE Says(FirstOf(fields, keys))
  IN  IF named # NoLang THEN named
      ELSE IF "type" \in keys /\ body[Append(a, "type")].val \in TypeHint THEN Says("type") ELSE NoLang

\* _is_code_container: only a dict with a code key, in the declared language,
\* else in that of its first code key.
Coded(body, a) == ToSet(body[a].keys) \cap DOMAIN Hint
ContainerLang(body, a) ==
  IF Coded(body, a) = {} THEN NoLang
  ELSE IF Declares(body, a) # NoLang THEN Declares(body, a)
  ELSE Hint[FirstOf(body[a].keys, DOMAIN Hint)]

\* The keys of its language that hold some text.
Texts(body, a) ==
  {k \in Coded(body, a) : Hint[k] = ContainerLang(body, a) /\ IsText(body[Append(a, k)])}

\* A string is parsed if it is the body, or under a key of tool arguments in a
\* plain dict.
Opened(body, a) ==
  a # <<>> => Last(a) \in JsonKey /\ ContainerLang(body, Front(a)) = NoLang
IsObject(body, a) == body[a].kind = "dict" \/ (body[a].kind = "text" /\ Opened(body, a))
IsArray(body, a) == body[a].kind = "list" \/ (body[a].kind = "textlist" /\ Opened(body, a))

\* _collect goes on to what is under an index of a list or a key of a plain
\* dict, and of a code container that has no text in its language under the
\* keys of it.
GoesOn(body, a, k) ==
  \/ IsArray(body, a)
  \/ /\ IsObject(body, a)
     /\ \/ ContainerLang(body, a) = NoLang
        \/ k \in DOMAIN Hint /\ Hint[k] = ContainerLang(body, a) /\ Texts(body, a) = {}

\* Mutant: off by one at the depth limit.
TooDeep_ByOne(depth) == depth >= MaxDepth

TooDeep(depth) == depth > MaxDepth

Visited(body) ==
  {a \in DOMAIN body :
     ~TooDeep(Len(a)) /\ \A n \in 0..(Len(a) - 1) : GoesOn(body, SubSeq(a, 1, n), a[n + 1])}

\* Where the code stands that a visit takes: the first text of a container, or
\* a string under a code key.
CodeTaken(body, a) ==
  IF IsObject(body, a)
  THEN IF Texts(body, a) = {} THEN {} ELSE {Append(a, FirstOf(body[a].keys, Texts(body, a)))}
  ELSE {b \in {a} \ {<<>>} : IsText(body[b]) /\ Last(b) \in DOMAIN Hint}

CodeFound(body) == UNION {CodeTaken(body, a) : a \in Visited(body)}

\* a stands before b in the body.
Precedes(body, a, b) ==
  \E n \in 0..(Len(a) - 1) :
    /\ n < Len(b) /\ SubSeq(a, 1, n) = SubSeq(b, 1, n)
    /\ LET keys == body[SubSeq(a, 1, n)].keys
       IN  \E i, j \in DOMAIN keys : i < j /\ keys[i] = a[n + 1] /\ keys[j] = b[n + 1]

Cut(code) ==
  IF Len(code) > MaxCodeLen THEN SubSeq(code, 1, MaxCodeLen) \o <<Truncated>> ELSE code

\* In the order of the body, until there are enough.
Extract(body) ==
  LET found == CodeFound(body)
      before == {e \in found \X found : Precedes(body, e[1], e[2])}
      At(n) == AtRank(found, before, n)
  IN  [n \in 1..Min({MaxFragments, Cardinality(found)}) |->
         [lang |-> Hint[Last(At(n))], code |-> Cut(body[At(n)].val)]]
-----------------------------------------------------------------------------
GateInit == gateBody = <<>> /\ gateFragments = <<>> /\ gateBlocks = FALSE

CheckRequest(body) ==
  /\ gateBody' = <<body>>
  /\ gateFragments' = Extract(body)
  /\ gateBlocks' = \E i \in DOMAIN gateFragments' :
                     Dangerous(gateFragments'[i].lang, gateFragments'[i].code)

GateDone ==
  /\ gateBody' = <<>> /\ gateFragments' = <<>> /\ gateBlocks' = FALSE

GateNext ==
  \/ gateBody = <<>> /\ \E b \in GateBody : CheckRequest(b)
  \/ gateBody # <<>> /\ GateDone

GateSpec == GateInit /\ [][GateNext]_gateVars
-----------------------------------------------------------------------------
(* where code stands in a body, without visiting it                        *)

\* The addresses where a dict has some non-empty text under a code key, looking
\* into JSON text only if it is the body or under a key of tool arguments.
CodeAt(body) ==
  {a \in DOMAIN body \ {<<>>} :
     /\ Last(a) \in DOMAIN Hint /\ IsText(body[a])
     /\ \A n \in 0..(Len(a) - 1) :
          \/ body[SubSeq(a, 1, n)].kind \in {"dict", "list"}
          \/ body[SubSeq(a, 1, n)].kind \in {"text", "textlist"} /\ (n = 0 \/ a[n] \in JsonKey)}

\* The way there is plain: no dict on it declares a language or has another
\* code key, and it is no deeper than the limit.
PlainWay(body, a) ==
  /\ Len(a) <= MaxDepth + 1
  /\ \A n \in 0..(Len(a) - 1) :
       LET d == SubSeq(a, 1, n)
       IN  ~ListLike(body[d]) => Declares(body, d) = NoLang /\ Coded(body, d) \subseteq {a[n + 1]}

\* A request with code in plain sight of which the part that is read is
\* dangerous, at the deepest level that is visited, in a list, in nested code
\* keys or in the JSON text of tool arguments, is blocked, unless there is more
\* code than is read; and a request is blocked only for code that stands under
\* a key of its language.
GateSeesCode ==
  gateBody # <<>> =>
    LET body == gateBody[1]
        bad == {a \in CodeAt(body) : Dangerous(Hint[Last(a)], Cut(body[a].val))}
    IN  /\ ~gateBlocks => \/ \A a \in bad : ~PlainWay(body, a)
                          \/ Len(gateFragments) = MaxFragments
        /\ gateBlocks => bad # {}
=============================================================================
