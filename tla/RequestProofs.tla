---------------------------- MODULE RequestProofs ----------------------------
(***************************************************************************)
(* Proofs about what a request declares and carries.  TraceContext, for    *)
(* any tenant files, keys, clock skew, and any number of decisions,        *)
(* signatures and repeated headers; ProtocolGateway and SelfAudit, for any *)
(* directories of protocols and any bodies; CodeGate with AstGuard, for any*)
(* bodies, keys, limits and code; CodeEffects, for any Python programs and *)
(* dangerous names.                                                        *)
(***************************************************************************)
EXTENDS TraceContext, SelfAudit, CodeEffects, RankProofs

-----------------------------------------------------------------------------
(* The headers of a request                                                *)

TraceValue == Id \cup Nat \cup {Absent, TooLong, EmptyText, NullParent}
Row == [trace : TraceValue, parent : TraceValue,
        sent : [trace : TraceValue, parent : TraceValue],
        at : Nat, key : ApiKey \cup {Absent},
        declared : {Absent} \cup {tenantOf[x] : x \in DOMAIN tenantOf}]

RowsTyped == traceNow \in Nat /\ traceRows \in Seq(Row)

\* A signature's text is that of the headers it was made for: this is what
\* makes a verified signature speak for the headers it came with.
SignaturesSpeak ==
  \A s \in traceSigs : s.text.trace = s.trace /\ s.text.parent = s.parent

\* No short key was ever loaded.
KeysAreLong == DOMAIN tenantOf \cap ShortKey = {}

TraceContextInv == RowsTyped /\ SignaturesSpeak /\ KeysAreLong /\ ChainsAreVouched

-----------------------------------------------------------------------------
\* What _trace_context stores for a request when signing is on: a chain that a
\* signature of the request's own headers stands for, or a new one.
Vouched(h) ==
  \E s \in traceSigs :
    /\ s.trace = h.trace /\ s.parent = h.parent
    /\ traceNow - s.ts \in -ClockSkew..ClockSkew

LEMMA ContextIsVouched ==
  ASSUME SignaturesSpeak, hmacOn, NEW h \in Headers, NEW n
  PROVE  Vouched(h) \/ (ContextOf(h, n).trace = n /\ ContextOf(h, n).parent = NullParent)
<1>1. CASE VerifyHeaders(h)
  <2>1. h.sig \in traceSigs /\ h.sig.text = Canonical(h)
    BY <1>1 DEF VerifyHeaders, Headers
  <2>2. h.sig.text.trace = h.trace /\ h.sig.text.parent = h.parent
    BY <2>1 DEF Canonical
  <2>3. h.sig.trace = h.trace /\ h.sig.parent = h.parent
    BY <2>1, <2>2 DEF SignaturesSpeak
  <2> QED
    BY <1>1, <2>1, <2>3 DEF Vouched, VerifyHeaders
<1>2. CASE ~VerifyHeaders(h)
  <2>1. ValidateTraceHeaders(h) = Nobody
    BY <1>2 DEF ValidateTraceHeaders
  <2>2. ContextOf(h, n) = LengthChecked([trace |-> n, parent |-> NullParent], n)
    BY <2>1 DEF ContextOf
  <2> QED
    BY <2>2 DEF LengthChecked
<1> QED
  BY <1>1, <1>2

\* It is always a pair of header values, the decision's own number or NULL.
LEMMA ContextTyped ==
  ASSUME NEW h \in Headers, NEW n \in Nat
  PROVE  ContextOf(h, n).trace \in TraceValue /\ ContextOf(h, n).parent \in TraceValue
<1> DEFINE Pair == [trace : TraceValue, parent : TraceValue]
<1>1. h.trace \in TraceValue /\ h.parent \in TraceValue /\ n \in TraceValue
  BY DEF Headers, TraceValue
<1>2. EmptyText \in TraceValue /\ NullParent \in TraceValue
  BY DEF TraceValue
<1>3. Nobody \in Pair
  BY <1>2 DEF Nobody
<1>4. ValidateTraceHeaders(h) \in Pair
  BY <1>1, <1>2, <1>3 DEF ValidateTraceHeaders, Text
<1>5. ASSUME NEW ctx \in Pair
      PROVE  LengthChecked(ctx, n).trace \in TraceValue /\ LengthChecked(ctx, n).parent \in TraceValue
  BY <1>1, <1>2 DEF LengthChecked
<1>6. /\ [trace |-> n, parent |-> NullParent] \in Pair
      /\ [trace |-> IF h.trace = Absent THEN n ELSE h.trace,
          parent |-> IF h.parent = Absent THEN NullParent ELSE h.parent] \in Pair
  BY <1>1, <1>2
<1> QED
  BY <1>4, <1>5, <1>6 DEF ContextOf

\* TenantAuth.from_dict: the keys of a file that loads are all long enough.
LEMMA LoadedKeysAreLong ==
  ASSUME NEW config, AuthLoads(config)
  PROVE  DOMAIN KeysOf(config) \cap ShortKey = {}
BY DEF AuthLoads, KeysOf

LEMMA TraceContextInvInit == TraceContextInit => TraceContextInv
<1>1. ASSUME TraceContextInit PROVE TraceContextInv
  <2>1. traceRows = <<>> /\ traceSigs = {} /\ traceNow = 0
    BY <1>1 DEF TraceContextInit
  <2>2. RowsTyped
    BY <2>1 DEF RowsTyped
  <2>3. SignaturesSpeak
    BY <2>1 DEF SignaturesSpeak
  <2>4. KeysAreLong
    <3>1. CASE tenantOf = <<>>
      BY <3>1 DEF KeysAreLong
    <3>2. CASE \E c \in TenantConfig : AuthLoads(c) /\ tenantOf = KeysOf(c)
      BY <3>2, LoadedKeysAreLong DEF KeysAreLong
    <3> QED
      BY <1>1, <3>1, <3>2 DEF TraceContextInit
  <2>5. ChainsAreVouched
    BY <2>1 DEF ChainsAreVouched
  <2> QED
    BY <2>2, <2>3, <2>4, <2>5 DEF TraceContextInv
<1> QED
  BY <1>1

-----------------------------------------------------------------------------
\* What ChainsAreVouched says of one row.
RowIsVouched(i) ==
  /\ hmacOn =>
       \/ \E s \in traceSigs :
            /\ s.trace = traceRows[i].sent.trace /\ s.parent = traceRows[i].sent.parent
            /\ traceRows[i].at - s.ts \in -ClockSkew..ClockSkew
       \/ traceRows[i].trace = i /\ traceRows[i].parent = NullParent
  /\ tenantOf # <<>> =>
       /\ traceRows[i].key \in DOMAIN tenantOf \ ShortKey
       /\ traceRows[i].declared \in {Absent, tenantOf[traceRows[i].key]}

LEMMA VouchedRows == ChainsAreVouched <=> \A i \in DOMAIN traceRows : RowIsVouched(i)
BY DEF ChainsAreVouched, RowIsVouched

LEMMA VouchedRowsNext == ChainsAreVouched' <=> \A i \in DOMAIN traceRows' : RowIsVouched(i)'
BY DEF ChainsAreVouched, RowIsVouched

\* Signatures are never taken back: a row that was vouched for stays so.
LEMMA RowStaysVouched ==
  ASSUME NEW i \in DOMAIN traceRows, RowIsVouched(i), traceRows'[i] = traceRows[i],
         traceSigs \subseteq traceSigs', UNCHANGED <<hmacOn, tenantOf>>
  PROVE  RowIsVouched(i)'
BY DEF RowIsVouched

LEMMA DecisionStep ==
  ASSUME TraceContextInv, NEW h \in Headers, NEW key \in ApiKey \cup {Absent},
         NEW declared \in {Absent} \cup {tenantOf[x] : x \in DOMAIN tenantOf},
         Decision(h, key, declared)
  PROVE  TraceContextInv'
<1>0. PICK n : n = Len(traceRows) + 1
  OBVIOUS
<1> DEFINE ctx == ContextOf(h, n)
           row == [trace |-> ctx.trace, parent |-> ctx.parent,
                   sent |-> [trace |-> h.trace, parent |-> h.parent],
                   at |-> traceNow, key |-> key, declared |-> declared]
           signature == SignHeaders([trace |-> ctx.trace, parent |-> Absent, span |-> n])
<1>1. /\ Admitted(key, declared)
      /\ traceRows' = Append(traceRows, row)
      /\ traceSigs' = IF hmacOn THEN traceSigs \cup {signature} ELSE traceSigs
      /\ UNCHANGED <<hmacOn, tenantOf, traceNow>>
  BY <1>0 DEF Decision
<1>2. /\ n \in Nat /\ traceNow \in Nat
      /\ ctx.trace \in TraceValue /\ ctx.parent \in TraceValue
  BY <1>0, ContextTyped DEF TraceContextInv, RowsTyped
<1>3. h.trace \in TraceValue /\ h.parent \in TraceValue
  BY DEF Headers, TraceValue
<1>4. row \in Row
  BY <1>2, <1>3 DEF Row
<1>5. /\ row.trace = ctx.trace /\ row.parent = ctx.parent
      /\ row.sent.trace = h.trace /\ row.sent.parent = h.parent
      /\ row.at = traceNow /\ row.key = key /\ row.declared = declared
  OBVIOUS
<1>6. signature.text.trace = signature.trace /\ signature.text.parent = signature.parent
  BY DEF SignHeaders, Canonical
<1>7. Vouched(h) \/ ~hmacOn \/ (ctx.trace = n /\ ctx.parent = NullParent)
  BY ContextIsVouched DEF TraceContextInv
<1> HIDE DEF ctx, row, signature
<1>8. /\ traceRows' \in Seq(Row) /\ DOMAIN traceRows' = DOMAIN traceRows \cup {n}
      /\ traceRows'[n] = row /\ n \notin DOMAIN traceRows
      /\ \A i \in DOMAIN traceRows : traceRows'[i] = traceRows[i]
  BY <1>0, <1>1, <1>4 DEF TraceContextInv, RowsTyped
<1>9. RowsTyped'
  <2>1. Row' = Row
    BY <1>1 DEF Row
  <2> QED
    BY <1>1, <1>2, <1>8, <2>1 DEF RowsTyped
<1>10. SignaturesSpeak' /\ KeysAreLong'
  BY <1>1, <1>6 DEF TraceContextInv, SignaturesSpeak, KeysAreLong
<1>11. RowIsVouched(n)'
  <2>1. hmacOn' => \/ \E s \in traceSigs' :
                        /\ s.trace = row.sent.trace /\ s.parent = row.sent.parent
                        /\ row.at - s.ts \in -ClockSkew..ClockSkew
                   \/ row.trace = n /\ row.parent = NullParent
    BY <1>1, <1>5, <1>7 DEF Vouched
  <2>2. tenantOf # <<>> => /\ row.key \in DOMAIN tenantOf \ ShortKey
                           /\ row.declared \in {Absent, tenantOf[row.key]}
    BY <1>1, <1>5 DEF Admitted, TraceContextInv, KeysAreLong
  <2> QED
    BY <1>1, <1>8, <2>1, <2>2 DEF RowIsVouched
<1>12. \A i \in DOMAIN traceRows : RowIsVouched(i)'
  <2>1. \A i \in DOMAIN traceRows : RowIsVouched(i)
    BY VouchedRows DEF TraceContextInv
  <2>2. traceSigs \subseteq traceSigs'
    BY <1>1
  <2> QED
    BY <1>1, <1>8, <2>1, <2>2, RowStaysVouched
<1> QED
  BY <1>8, <1>9, <1>10, <1>11, <1>12, VouchedRowsNext DEF TraceContextInv

LEMMA ServiceSignsStep ==
  ASSUME TraceContextInv, NEW h \in Headers, ServiceSigns(h)
  PROVE  TraceContextInv'
<1>1. /\ traceSigs' = traceSigs \cup {SignHeaders(h)}
      /\ UNCHANGED <<hmacOn, tenantOf, traceRows, traceNow>>
  BY DEF ServiceSigns
<1>2. SignHeaders(h).text.trace = SignHeaders(h).trace
      /\ SignHeaders(h).text.parent = SignHeaders(h).parent
  BY DEF SignHeaders, Canonical
<1>3. RowsTyped' /\ KeysAreLong'
  BY <1>1 DEF TraceContextInv, RowsTyped, Row, KeysAreLong
<1>4. SignaturesSpeak'
  BY <1>1, <1>2 DEF TraceContextInv, SignaturesSpeak
<1>5. ChainsAreVouched'
  BY <1>1, VouchedRows, VouchedRowsNext, RowStaysVouched DEF TraceContextInv
<1> QED
  BY <1>3, <1>4, <1>5 DEF TraceContextInv

LEMMA TraceContextInvStep ==
  TraceContextInv /\ [TraceContextNext]_traceContextVars => TraceContextInv'
<1> SUFFICES ASSUME TraceContextInv, [TraceContextNext]_traceContextVars
             PROVE  TraceContextInv'
  OBVIOUS
<1>1. CASE \E h \in Headers, k \in IF tenantOf = <<>> THEN {Absent} ELSE ApiKey,
              d \in {Absent} \cup {tenantOf[x] : x \in DOMAIN tenantOf} : Decision(h, k, d)
  BY <1>1, DecisionStep
<1>2. CASE \E h \in Headers : ServiceSigns(h)
  BY <1>2, ServiceSignsStep
<1>3. CASE TraceTick
  <2>1. RowsTyped'
    BY <1>3 DEF TraceTick, TraceContextInv, RowsTyped, Row
  <2>2. SignaturesSpeak' /\ KeysAreLong'
    BY <1>3 DEF TraceTick, TraceContextInv, SignaturesSpeak, KeysAreLong
  <2>3. ChainsAreVouched'
    BY <1>3 DEF TraceTick, TraceContextInv, ChainsAreVouched
  <2> QED
    BY <2>1, <2>2, <2>3 DEF TraceContextInv
<1>4. CASE UNCHANGED traceContextVars
  BY <1>4 DEF traceContextVars, TraceContextInv, RowsTyped, Row, SignaturesSpeak, KeysAreLong,
     ChainsAreVouched
<1> QED
  BY <1>1, <1>2, <1>3, <1>4 DEF TraceContextNext

\* What the signatures, the stored decisions and the loaded keys keep.
THEOREM TraceContextInvariant == TraceContextSpec => []TraceContextInv
BY TraceContextInvInit, TraceContextInvStep, PTL DEF TraceContextSpec

\* _trace_context, context_hmac and TenantAuth: no decision joins a chain nobody
\* with the key signed it into, and none is admitted without a tenant's key.
THEOREM TraceChainsVouched == TraceContextSpec => []ChainsAreVouched
<1>1. TraceContextInv => ChainsAreVouched
  BY DEF TraceContextInv
<1> QED
  BY <1>1, TraceContextInvariant, PTL

-----------------------------------------------------------------------------
(* Operators of ProtocolGateway                                            *)

\* The rules a directory compiles to: three kinds with actions and priorities of
\* their own, all three for each protocol, in the order of the priorities.
RulesSound(rules) ==
  /\ \E N \in Nat : DOMAIN rules = 1..N
  /\ \A n \in DOMAIN rules :
       \/ rules[n].kind = "ethics" /\ rules[n].action = "DENY" /\ rules[n].priority = 5
       \/ rules[n].kind = "enforce" /\ rules[n].action = "ESCALATE" /\ rules[n].priority \in {15, 20}
       \/ rules[n].kind = "ok" /\ rules[n].action = "ALLOW_WITH_WARNING" /\ rules[n].priority \in {25, 30}
  /\ \A n \in DOMAIN rules, kind \in {"ethics", "enforce", "ok"} :
       \E m \in DOMAIN rules : rules[m].module = rules[n].module /\ rules[m].kind = kind
  /\ \A m, n \in DOMAIN rules : m < n => rules[m].priority <= rules[n].priority

\* compile_protocol_rules makes such rules of every directory that loads.
LEMMA CompiledAreSound ==
  ASSUME NEW dir \in ProtoDir, ProtocolsLoad(dir)
  PROVE  RulesSound(CompileProtocols(dir))
<1> DEFINE at == (DOMAIN dir) \X (1..3)
           Rule(q) == RulesOf(dir[q[1]])[q[2]]
           before == {e \in at \X at :
                        LET p == Rule(e[1]).priority
                            q == Rule(e[2]).priority
                        IN  p < q \/ (p = q /\ e[1][1] < e[2][1])}
           total == 3 * Len(dir)
           rules == CompileProtocols(dir)
<1>1. Len(dir) \in Nat /\ DOMAIN dir = 1..Len(dir)
  BY ProtocolAssumption
<1>2. ASSUME NEW i \in DOMAIN dir
      PROVE  LET R == RulesOf(dir[i])
             IN  /\ \A k \in 1..3 : R[k].module = dir[i].module
                 /\ R[1].kind = "enforce" /\ R[1].action = "ESCALATE" /\ R[1].priority \in {15, 20}
                 /\ R[2].kind = "ethics" /\ R[2].action = "DENY" /\ R[2].priority = 5
                 /\ R[3].kind = "ok" /\ R[3].action = "ALLOW_WITH_WARNING" /\ R[3].priority \in {25, 30}
  <2>1. dir[i].level \in {"L2", "L3"}
    BY DEF ProtocolsLoad, EnforcePriority
  <2>2. EnforcePriority[dir[i].level] \in {15, 20} /\ OkPriority[dir[i].level] \in {25, 30}
    BY <2>1 DEF EnforcePriority, OkPriority
  <2> DEFINE f == dir[i]
             e == EnforcePriority[dir[i].level]
             o == OkPriority[dir[i].level]
  <2>3. RulesOf(dir[i]) =
          <<[module |-> f.module, kind |-> "enforce", action |-> "ESCALATE", priority |-> e],
            [module |-> f.module, kind |-> "ethics", action |-> "DENY", priority |-> 5],
            [module |-> f.module, kind |-> "ok", action |-> "ALLOW_WITH_WARNING", priority |-> o]>>
    BY DEF RulesOf, EthicsPriority
  <2>4. e \in {15, 20} /\ o \in {25, 30}
    BY <2>2
  <2> HIDE DEF f, e, o
  <2>5. f.module = dir[i].module
    BY DEF f
  <2> QED
    BY <2>3, <2>4, <2>5
<1>3. ASSUME NEW q \in at
      PROVE  /\ q[1] \in DOMAIN dir /\ q[1] \in Int /\ q[2] \in 1..3
             /\ Rule(q).priority \in {5, 15, 20, 25, 30} /\ Rule(q).priority \in Int
  <2>1. q[1] \in DOMAIN dir /\ q[1] \in Int /\ q[2] \in {1, 2, 3}
    BY <1>1
  <2>2. RulesOf(dir[q[1]])[q[2]].priority \in {5, 15, 20, 25, 30}
    BY <1>2, <2>1
  <2> QED
    BY <2>1, <2>2
<1>4. ASSUME NEW p \in at, NEW q \in at, Rule(p).priority = Rule(q).priority, p[1] = q[1]
      PROVE  p = q
  <2>1. p[2] \in {1, 2, 3} /\ q[2] \in {1, 2, 3} /\ p[1] \in DOMAIN dir
    BY <1>3
  <2>2. RulesOf(dir[p[1]])[p[2]].priority = RulesOf(dir[p[1]])[q[2]].priority
    BY <1>4
  <2>3. p[2] = q[2]
    BY <1>2, <2>1, <2>2
  <2> QED
    BY <1>4, <2>3
<1>5. \A p, q \in at : <<p, q>> \in before <=>
        \/ Rule(p).priority < Rule(q).priority
        \/ Rule(p).priority = Rule(q).priority /\ p[1] < q[1]
  OBVIOUS
<1> HIDE DEF before, Rule
<1>6. /\ \A x \in at : <<x, x>> \notin before
      /\ \A x, y, z \in at : <<x, y>> \in before /\ <<y, z>> \in before => <<x, z>> \in before
      /\ \A x, y \in at : x # y => <<x, y>> \in before \/ <<y, x>> \in before
  BY <1>3, <1>4, <1>5
<1>7. IsFiniteSet(at) /\ Cardinality(at) = total
  <2> DEFINE files == DOMAIN dir
             three == 1..3
  <2>1. IsFiniteSet(three) /\ Cardinality(three) = 3
    BY IntervalSize
  <2>2. files = 1..Len(dir)
    BY <1>1
  <2>3. IsFiniteSet(files) /\ Cardinality(files) = Len(dir)
    BY <1>1, <2>2, IntervalSize
  <2> HIDE DEF files, three
  <2>4. /\ IsFiniteSet(files \X three)
        /\ Cardinality(files \X three) = Cardinality(files) * Cardinality(three)
    BY <2>1, <2>3, FS_Product, Zenon
  <2>5. Cardinality(files) * Cardinality(three) = total
    BY <1>1, <2>1, <2>3
  <2> QED
    BY <2>4, <2>5 DEF files, three
<1> HIDE DEF at
<1>8. /\ \A n \in 1..Cardinality(at) : AtRank(at, before, n) \in at
      /\ \A x \in at : \E n \in 1..Cardinality(at) : AtRank(at, before, n) = x
      /\ \A m, n \in 1..Cardinality(at) :
           m < n => <<AtRank(at, before, m), AtRank(at, before, n)>> \in before
  BY <1>6, <1>7, Ranking
<1>9. rules = [n \in 1..total |-> Rule(AtRank(at, before, n))]
  BY DEF CompileProtocols, at, Rule, before
<1> HIDE DEF rules
<1>10. total \in Nat /\ DOMAIN rules = 1..total
  BY <1>1, <1>9
<1> HIDE DEF total
<1>11. \A n \in DOMAIN rules : \E q \in at : rules[n] = Rule(q)
  BY <1>7, <1>8, <1>9
<1>12. \A q \in at : \E n \in DOMAIN rules : rules[n] = Rule(q)
  BY <1>7, <1>8, <1>9, <1>10
<1>13. \A m, n \in DOMAIN rules : m < n => rules[m].priority <= rules[n].priority
  <2> SUFFICES ASSUME NEW m \in DOMAIN rules, NEW n \in DOMAIN rules, m < n
               PROVE  rules[m].priority <= rules[n].priority
    OBVIOUS
  <2> DEFINE p == AtRank(at, before, m)
             q == AtRank(at, before, n)
  <2>1. p \in at /\ q \in at /\ <<p, q>> \in before /\ rules[m] = Rule(p) /\ rules[n] = Rule(q)
    BY <1>7, <1>8, <1>9, <1>10
  <2> HIDE DEF p, q
  <2> QED
    BY <1>3, <1>5, <2>1
<1>14. ASSUME NEW q \in at
       PROVE  /\ \/ Rule(q).kind = "ethics" /\ Rule(q).action = "DENY" /\ Rule(q).priority = 5
                 \/ Rule(q).kind = "enforce" /\ Rule(q).action = "ESCALATE" /\ Rule(q).priority \in {15, 20}
                 \/ Rule(q).kind = "ok" /\ Rule(q).action = "ALLOW_WITH_WARNING" /\ Rule(q).priority \in {25, 30}
              /\ \A kind \in {"ethics", "enforce", "ok"} :
                   \E p \in at : Rule(p).module = Rule(q).module /\ Rule(p).kind = kind
  <2> DEFINE i == q[1]
  <2>1. i \in DOMAIN dir /\ q[2] \in {1, 2, 3}
    BY <1>3
  <2>2. Rule(q) = RulesOf(dir[i])[q[2]]
    BY DEF Rule
  <2>3. \A k \in 1..3 : <<i, k>> \in at /\ Rule(<<i, k>>) = RulesOf(dir[i])[k]
    BY <2>1 DEF at, Rule
  <2> HIDE DEF i
  <2>4. 1 \in 1..3 /\ 2 \in 1..3 /\ 3 \in 1..3
    OBVIOUS
  <2>5. Rule(q).module = dir[i].module /\ \A k \in 1..3 : Rule(<<i, k>>).module = dir[i].module
    BY <1>2, <2>1, <2>2, <2>3
  <2>6. Rule(<<i, 1>>).kind = "enforce" /\ Rule(<<i, 2>>).kind = "ethics" /\ Rule(<<i, 3>>).kind = "ok"
    BY <1>2, <2>1, <2>3, <2>4
  <2>7. \A kind \in {"ethics", "enforce", "ok"} :
          \E p \in at : Rule(p).module = Rule(q).module /\ Rule(p).kind = kind
    BY <2>3, <2>4, <2>5, <2>6
  <2>8. RulesOf(dir[i])[q[2]] \in {RulesOf(dir[i])[1], RulesOf(dir[i])[2], RulesOf(dir[i])[3]}
    BY <2>1
  <2> QED
    BY <1>2, <2>1, <2>2, <2>7, <2>8
<1>15. \A n \in DOMAIN rules, kind \in {"ethics", "enforce", "ok"} :
         \E m \in DOMAIN rules : rules[m].module = rules[n].module /\ rules[m].kind = kind
  <2> SUFFICES ASSUME NEW n \in DOMAIN rules, NEW kind \in {"ethics", "enforce", "ok"}
               PROVE  \E m \in DOMAIN rules : rules[m].module = rules[n].module /\ rules[m].kind = kind
    OBVIOUS
  <2>1. PICK q \in at : rules[n] = Rule(q)
    BY <1>11
  <2>2. \A k \in {"ethics", "enforce", "ok"} :
          \E p \in at : Rule(p).module = Rule(q).module /\ Rule(p).kind = k
    BY <1>14
  <2>3. PICK p \in at : Rule(p).module = Rule(q).module /\ Rule(p).kind = kind
    BY <2>2, Zenon
  <2>4. PICK m \in DOMAIN rules : rules[m] = Rule(p)
    BY <1>12
  <2> QED
    BY <2>1, <2>3, <2>4
<1>16. \A n \in DOMAIN rules :
         \/ rules[n].kind = "ethics" /\ rules[n].action = "DENY" /\ rules[n].priority = 5
         \/ rules[n].kind = "enforce" /\ rules[n].action = "ESCALATE" /\ rules[n].priority \in {15, 20}
         \/ rules[n].kind = "ok" /\ rules[n].action = "ALLOW_WITH_WARNING" /\ rules[n].priority \in {25, 30}
  <2> SUFFICES ASSUME NEW n \in DOMAIN rules
               PROVE  \/ rules[n].kind = "ethics" /\ rules[n].action = "DENY" /\ rules[n].priority = 5
                      \/ rules[n].kind = "enforce" /\ rules[n].action = "ESCALATE" /\ rules[n].priority \in {15, 20}
                      \/ rules[n].kind = "ok" /\ rules[n].action = "ALLOW_WITH_WARNING"
                         /\ rules[n].priority \in {25, 30}
    OBVIOUS
  <2>1. PICK q \in at : rules[n] = Rule(q)
    BY <1>11
  <2>2. \/ Rule(q).kind = "ethics" /\ Rule(q).action = "DENY" /\ Rule(q).priority = 5
        \/ Rule(q).kind = "enforce" /\ Rule(q).action = "ESCALATE" /\ Rule(q).priority \in {15, 20}
        \/ Rule(q).kind = "ok" /\ Rule(q).action = "ALLOW_WITH_WARNING" /\ Rule(q).priority \in {25, 30}
    BY <1>14
  <2> QED
    BY <2>1, <2>2
<1>17. RulesSound(rules)
  BY <1>10, <1>13, <1>15, <1>16 DEF RulesSound
<1> QED
  BY <1>17 DEF rules

\* PolicyEngine's loop: the hit matches, and no rule that matches comes before it.
LEMMA FirstHitIs ==
  ASSUME NEW rules, NEW body, RulesSound(rules)
  PROVE  \/ /\ FirstHit(rules, body) = <<>>
            /\ \A n \in DOMAIN rules : ~RuleMatches(rules[n], body)
         \/ \E n \in DOMAIN rules :
              /\ FirstHit(rules, body) = <<rules[n]>> /\ RuleMatches(rules[n], body)
              /\ \A m \in DOMAIN rules :
                   RuleMatches(rules[m], body) => rules[n].priority <= rules[m].priority
<1> DEFINE hits == {i \in DOMAIN rules : RuleMatches(rules[i], body)}
<1>1. CASE hits = {}
  BY <1>1 DEF FirstHit
<1>2. CASE hits # {}
  <2>1. PICK N \in Nat : DOMAIN rules = 1..N
    BY DEF RulesSound
  <2>2. hits \in SUBSET Nat /\ hits \in SUBSET (1..N)
    BY <2>1
  <2>3. IsFiniteSet(1..N)
    BY <2>1, FS_Interval
  <2>4. IsFiniteSet(hits)
    BY <2>2, <2>3, FS_Subset
  <2>5. Min(hits) \in hits /\ \A n \in hits : Min(hits) <= n
    BY <1>2, <2>2, <2>4, LeastIndex
  <2>6. FirstHit(rules, body) = <<rules[Min(hits)]>>
    BY <1>2 DEF FirstHit
  <2>7. PICK n : n = Min(hits)
    OBVIOUS
  <2>8. n \in DOMAIN rules /\ RuleMatches(rules[n], body)
    BY <2>5, <2>7
  <2>9. ASSUME NEW m \in DOMAIN rules, RuleMatches(rules[m], body)
        PROVE  rules[n].priority <= rules[m].priority
    <3>1. n <= m /\ n \in Int /\ m \in Int
      BY <2>1, <2>5, <2>7, <2>8, <2>9
    <3>2. rules[n].priority \in {5, 15, 20, 25, 30}
      BY <2>8, Zenon DEF RulesSound
    <3>3. CASE n = m
      <4>1. \A p \in {5, 15, 20, 25, 30} : p <= p
        OBVIOUS
      <4> QED
        BY <3>2, <3>3, <4>1, Zenon
    <3>4. CASE n < m
      BY <2>8, <3>4 DEF RulesSound
    <3> QED
      BY <3>1, <3>3, <3>4
  <2> QED
    BY <2>6, <2>7, <2>8, <2>9
<1> QED
  BY <1>1, <1>2

\* A field of a state object that is there is the one that is read.
LEMMA FieldIs ==
  ASSUME NEW body \in ProtoBody, NEW m \in DOMAIN body, NEW key
  PROVE  /\ \A i \in DOMAIN body[m] :
              ~body[m][i].nested /\ body[m][i].key = key => Field(body[m], key) = body[m][i].val
         /\ Field(body[m], key) # "absent" =>
              \E i \in DOMAIN body[m] : /\ ~body[m][i].nested /\ body[m][i].key = key
                                        /\ body[m][i].val = Field(body[m], key)
<1> DEFINE decl == body[m]
           at == {i \in DOMAIN decl : decl[i].key = key /\ ~decl[i].nested}
           c == CHOOSE i \in at : TRUE
<1>1. CASE at = {}
  BY <1>1 DEF Field
<1>2. CASE at # {}
  <2>1. c \in at
    BY <1>2
  <2>2. Field(decl, key) = decl[c].val
    BY <1>2 DEF Field
  <2>3. \A i \in at : i = c
    BY <2>1, ProtocolAssumption
  <2> HIDE DEF c
  <2> QED
    BY <2>1, <2>2, <2>3
<1> QED
  BY <1>1, <1>2

-----------------------------------------------------------------------------
(* The verdict of the protocols                                            *)

\* What evaluate found, and what validate said of it, if one validator was set.
HitIsFirst ==
  LET hit == FirstHit(protoRules, protoBody)
  IN  /\ hit = <<>> => protoHit = <<>>
      /\ hit # <<>> =>
           /\ protoHit # <<>> /\ protoHit[1] = hit[1]
           /\ protoHit[2] = "raised" => hit[1].kind # "ethics"
           /\ ~protoSwitched /\ protoValidator # "none" =>
                protoHit[2] \in {"refused", "raised", Baseline(hit[1], protoBody, "object")}

\* Only a warning is ever downgraded, and one that stays was verified.
VerdictIsOfHit ==
  /\ protoHit = <<>> => protoVerdict = "none"
  /\ protoHit # <<>> =>
       /\ \/ protoVerdict = protoHit[1].action
          \/ protoHit[1].action = "ALLOW_WITH_WARNING" /\ protoVerdict = "ESCALATE"
          \/ protoHit[1].kind # "ethics" /\ protoVerdict = "raised"
       /\ protoVerdict = "ALLOW_WITH_WARNING" /\ ~protoSwitched /\ protoValidator # "none" =>
            protoHit[2] \in {"trivial", "anchored"}
  /\ protoAudit \in {"none", protoVerdict}

ProtocolInv ==
  /\ RulesSound(protoRules)
  /\ protoPc \in {"idle", "judged", "settled"}
  /\ protoValidator \in {"none", "baseline", "semantic-llm"}
  /\ protoSwitched \in BOOLEAN
  /\ protoPc # "idle" => protoBody \in ProtoBody /\ HitIsFirst
  /\ protoPc = "settled" => VerdictIsOfHit

LEMMA ProtocolInvInit == ProtocolInit => ProtocolInv
BY CompiledAreSound DEF ProtocolInit, ProtocolInv

\* A provider that is asked can only refuse what the baseline verifies.
LEMMA ValidateRefusesOnly ==
  ASSUME NEW v \in {"none", "baseline", "semantic-llm"}, NEW rule, NEW body,
         NEW form \in {"object", "text"}, NEW reply
  PROVE  LET said == Validate(v, rule, body, form, reply)
         IN  /\ v # "none" => said \in {"refused", "raised", Baseline(rule, body, "object")}
             /\ said = "raised" => rule.kind # "ethics"
<1> DEFINE said == Validate(v, rule, body, form, reply)
<1>1. Baseline(rule, body, form) \in {"refused", Baseline(rule, body, "object")}
  BY DEF Baseline
<1>2. Baseline(rule, body, form) = "anchored" => rule.kind # "ethics"
  BY DEF Baseline
<1>3. Baseline(rule, body, form) # "raised"
  BY DEF Baseline
<1>4. v # "none" => said \in {"refused", "raised", Baseline(rule, body, "object")}
  BY <1>1 DEF Validate
<1>5. said = "raised" => rule.kind # "ethics"
  BY <1>2, <1>3 DEF Validate
<1> QED
  BY <1>4, <1>5

LEMMA JudgeStep ==
  ASSUME ProtocolInv, NEW body \in ProtoBody, NEW form \in {"object", "text"}, NEW reply,
         Judge(body, form, reply)
  PROVE  ProtocolInv'
<1> DEFINE hit == FirstHit(protoRules, body)
           said == Validate(protoValidator, hit[1], body, form, reply)
<1>1. /\ protoBody' = body /\ protoPc' = "judged" /\ protoSwitched' = FALSE
      /\ UNCHANGED <<protoRules, protoValidator, protoVerdict, protoAudit>>
  BY DEF Judge
<1>2. protoHit' = IF hit = <<>> THEN <<>> ELSE <<hit[1], said>>
  BY DEF Judge
<1>3. protoValidator \in {"none", "baseline", "semantic-llm"}
  BY DEF ProtocolInv
<1>4. /\ protoValidator # "none" => said \in {"refused", "raised", Baseline(hit[1], body, "object")}
      /\ said = "raised" => hit[1].kind # "ethics"
  <2> DEFINE rule == hit[1]
  <2> HIDE DEF rule
  <2>1. LET s == Validate(protoValidator, rule, body, form, reply)
        IN  /\ protoValidator # "none" => s \in {"refused", "raised", Baseline(rule, body, "object")}
            /\ s = "raised" => rule.kind # "ethics"
    BY <1>3, ValidateRefusesOnly
  <2> QED
    BY <2>1 DEF rule
<1>5. FirstHit(protoRules, protoBody)' = hit
  BY <1>1
<1> HIDE DEF hit, said
<1>6. hit # <<>> => protoHit' # <<>> /\ protoHit'[1] = hit[1] /\ protoHit'[2] = said
  BY <1>2
<1>7. HitIsFirst'
  BY <1>1, <1>2, <1>4, <1>5, <1>6 DEF HitIsFirst
<1> QED
  BY <1>1, <1>3, <1>7 DEF ProtocolInv

LEMMA SettleStep ==
  ASSUME ProtocolInv, NEW sink, Settle(sink)
  PROVE  ProtocolInv'
<1>1. /\ protoPc = "judged" /\ protoPc' = "settled"
      /\ UNCHANGED <<protoRules, protoValidator, protoBody, protoHit, protoSwitched>>
      /\ protoAudit' \in {"none", protoVerdict'}
  BY DEF Settle
<1>2. protoHit = <<>> => protoVerdict' = "none"
  BY DEF Settle, ActionOf
<1>6. protoHit # <<>> /\ protoHit[2] = "raised" => protoHit[1].kind # "ethics"
  BY <1>1 DEF ProtocolInv, HitIsFirst
<1>3. protoHit # <<>> =>
        /\ \/ protoVerdict' = protoHit[1].action
           \/ protoHit[1].action = "ALLOW_WITH_WARNING" /\ protoVerdict' = "ESCALATE"
           \/ protoHit[1].kind # "ethics" /\ protoVerdict' = "raised"
        /\ protoVerdict' = "ALLOW_WITH_WARNING" /\ ~protoSwitched /\ protoValidator # "none" =>
             protoHit[2] \in {"trivial", "anchored"}
  <2> SUFFICES ASSUME protoHit # <<>>
               PROVE  /\ \/ protoVerdict' = protoHit[1].action
                         \/ protoHit[1].action = "ALLOW_WITH_WARNING" /\ protoVerdict' = "ESCALATE"
                         \/ protoHit[1].kind # "ethics" /\ protoVerdict' = "raised"
                      /\ protoVerdict' = "ALLOW_WITH_WARNING" /\ protoValidator # "none" =>
                           protoHit[2] \in {"trivial", "anchored"}
    OBVIOUS
  <2> DEFINE verified == protoHit[2] \in {"trivial", "anchored"}
  <2>1. protoVerdict' = IF protoHit[2] = "raised" THEN "raised"
                        ELSE IF Downgraded(protoHit[1], verified) THEN "ESCALATE" ELSE protoHit[1].action
    BY DEF Settle, ActionOf
  <2> QED
    BY <1>6, <2>1 DEF Downgraded
<1>4. VerdictIsOfHit'
  BY <1>1, <1>2, <1>3 DEF VerdictIsOfHit
<1>5. HitIsFirst'
  BY <1>1 DEF ProtocolInv, HitIsFirst
<1> QED
  BY <1>1, <1>4, <1>5 DEF ProtocolInv

LEMMA SetValidatorStep ==
  ASSUME ProtocolInv, NEW v \in {"none", "baseline", "semantic-llm"}, SetValidator(v)
  PROVE  ProtocolInv'
<1>1. /\ protoValidator' = v /\ protoSwitched' = TRUE
      /\ UNCHANGED <<protoRules, protoPc, protoBody, protoHit, protoVerdict, protoAudit>>
  BY DEF SetValidator
<1>2. HitIsFirst => HitIsFirst'
  BY <1>1 DEF HitIsFirst
<1>3. VerdictIsOfHit => VerdictIsOfHit'
  BY <1>1 DEF VerdictIsOfHit
<1> QED
  BY <1>1, <1>2, <1>3 DEF ProtocolInv

LEMMA ProtocolInvStep == ProtocolInv /\ [ProtocolNext]_protoVars => ProtocolInv'
<1> SUFFICES ASSUME ProtocolInv, [ProtocolNext]_protoVars PROVE ProtocolInv'
  OBVIOUS
<1>1. CASE \E body \in ProtoBody, form \in {"object", "text"},
              reply \in {"supports", "refutes", "fails", "garbled"} : Judge(body, form, reply)
  BY <1>1, JudgeStep
<1>2. CASE \E sink \in {"none", "keeps", "raises"} : Settle(sink)
  BY <1>2, SettleStep
<1>3. CASE Done
  BY <1>3 DEF Done, ProtocolInv
<1>4. CASE \E v \in {"none", "baseline", "semantic-llm"} : SetValidator(v)
  BY <1>4, SetValidatorStep
<1>5. CASE UNCHANGED protoVars
  BY <1>5 DEF protoVars, ProtocolInv, HitIsFirst, VerdictIsOfHit
<1> QED
  BY <1>1, <1>2, <1>3, <1>4, <1>5 DEF ProtocolNext

\* What a hit says of the module it is about, if its state object is plain.
LEMMA HitTells ==
  ASSUME ProtocolInv, protoPc = "settled", \A m \in Declared : Plain(protoBody[m]),
         NEW n \in DOMAIN protoRules, RuleMatches(protoRules[n], protoBody)
  PROVE  /\ protoRules[n].module \in Declared
         /\ protoRules[n].kind = "ethics" => protoRules[n].module \in Violated
         /\ protoRules[n].kind = "ok" => Claims(protoRules[n].module, "satisfied")
<1> DEFINE m == protoRules[n].module
           decl == protoBody[m]
<1>1. m \in DOMAIN protoBody /\ protoBody \in ProtoBody
  BY DEF RuleMatches, ProtocolInv
<1>2. m \in Declared
  BY <1>1 DEF Declared
<1>3. ASSUME protoRules[n].kind = "ethics" PROVE m \in Violated
  BY <1>2, <1>3 DEF RuleMatches, Violated
<1>4. ASSUME protoRules[n].kind = "ok" PROVE Claims(m, "satisfied")
  <2>1. PICK j \in 1..Len(decl) : decl[j].key = "satisfied" /\ decl[j].val = "true"
    BY <1>4 DEF RuleMatches, SaysFrom
  <2>2. j \in DOMAIN decl
    BY <1>1, ProtocolAssumption
  <2>3. ~decl[j].nested
    BY <1>2, <2>2 DEF Plain
  <2> QED
    BY <1>1, <2>1, <2>2, <2>3, FieldIs DEF Claims
<1> QED
  BY <1>2, <1>3, <1>4

\* Each kind of claim in a plain declaration is met by its rule.
LEMMA ClaimIsHit ==
  ASSUME ProtocolInv, protoPc = "settled", NEW m \in Declared, Plain(protoBody[m]),
         NEW kind \in {"ethics", "enforce", "ok"},
         \/ kind = "ethics" /\ m \in Violated
         \/ kind = "enforce" /\ Claims(m, "triggered") /\ ~Claims(m, "satisfied")
         \/ kind = "ok" /\ Claims(m, "satisfied")
  PROVE  \E n \in DOMAIN protoRules :
           /\ protoRules[n].module = m /\ protoRules[n].kind = kind
           /\ RuleMatches(protoRules[n], protoBody)
<1> DEFINE decl == protoBody[m]
<1>1. m \in DOMAIN protoBody /\ protoBody \in ProtoBody
  BY DEF Declared, ProtocolInv
<1>2. decl \in Seq([key : STRING, val : STRING, nested : BOOLEAN])
  BY <1>1, ProtocolAssumption
<1>3. DOMAIN decl = 1..Len(decl) /\ Len(decl) \in Nat
  BY <1>2
<1>4. PICK n \in DOMAIN protoRules : protoRules[n].module = m /\ protoRules[n].kind = kind
  <2>1. PICK l \in DOMAIN protoRules : protoRules[l].module = m
    BY DEF Declared
  <2>2. \A i \in DOMAIN protoRules, k \in {"ethics", "enforce", "ok"} :
          \E j \in DOMAIN protoRules :
            protoRules[j].module = protoRules[i].module /\ protoRules[j].kind = k
    BY Zenon DEF ProtocolInv, RulesSound
  <2> QED
    BY <2>1, <2>2
<1>5. CASE kind = "ethics"
  BY <1>1, <1>4, <1>5 DEF RuleMatches, Violated
<1>6. CASE kind = "enforce"
  <2>1. Field(decl, "triggered") = "true" /\ Field(decl, "satisfied") # "true"
    BY <1>6 DEF Claims
  <2>2. PICK i \in DOMAIN decl : ~decl[i].nested /\ decl[i].key = "triggered" /\ decl[i].val = "true"
    BY <1>1, <2>1, FieldIs
  <2>3. \A j \in DOMAIN decl : decl[j].key = "satisfied" => decl[j].val # "true"
    BY <1>1, <2>1, FieldIs DEF Plain
  <2>4. i \in i..Len(decl) /\ i..Len(decl) \subseteq DOMAIN decl
    BY <1>3
  <2>5. SaysFrom(decl, i, "triggered")
    BY <2>2, <2>4 DEF SaysFrom
  <2>6. ~SaysFrom(decl, i, "satisfied")
    BY <2>3, <2>4 DEF SaysFrom
  <2>7. EnforceMatches(decl)
    BY <2>5, <2>6 DEF EnforceMatches
  <2> QED
    BY <1>1, <1>4, <1>6, <2>7 DEF RuleMatches
<1>7. CASE kind = "ok"
  <2>1. Field(decl, "satisfied") = "true"
    BY <1>7 DEF Claims
  <2>2. PICK i \in DOMAIN decl : ~decl[i].nested /\ decl[i].key = "satisfied" /\ decl[i].val = "true"
    BY <1>1, <2>1, FieldIs
  <2>3. SaysFrom(decl, 1, "satisfied")
    BY <1>3, <2>2 DEF SaysFrom
  <2> QED
    BY <1>1, <1>4, <1>7, <2>3 DEF RuleMatches
<1> QED
  BY <1>5, <1>6, <1>7

LEMMA ProtocolInvVerdict == ProtocolInv => VerdictFollowsDeclarations
<1> DEFINE open == {m \in Declared : Claims(m, "triggered") /\ ~Claims(m, "satisfied")}
<1> SUFFICES ASSUME ProtocolInv, protoPc = "settled", \A m \in Declared : Plain(protoBody[m])
             PROVE  /\ protoVerdict = "DENY" <=> Violated # {}
                    /\ Violated = {} /\ open # {} => protoVerdict \in {"ESCALATE", "raised"}
                    /\ protoVerdict = "ALLOW_WITH_WARNING" /\ protoValidator # "none" /\ ~protoSwitched
                         => \E m \in Declared : Claims(m, "satisfied") /\ Anchored(m)
                    /\ protoVerdict = "none" => \A m \in Declared : ~Claims(m, "satisfied")
                    /\ protoAudit \in {"none", protoVerdict}
  BY DEF VerdictFollowsDeclarations
<1>1. HitIsFirst /\ VerdictIsOfHit /\ RulesSound(protoRules)
  BY DEF ProtocolInv
<1>2. protoAudit \in {"none", protoVerdict}
  BY <1>1 DEF VerdictIsOfHit
<1>3. CASE /\ FirstHit(protoRules, protoBody) = <<>>
           /\ \A n \in DOMAIN protoRules : ~RuleMatches(protoRules[n], protoBody)
  <2>1. protoVerdict = "none"
    BY <1>1, <1>3 DEF HitIsFirst, VerdictIsOfHit
  <2>2. Violated = {}
    <3>1. \A m \in Violated : m \in Declared
      BY DEF Violated
    <3> QED
      BY <1>3, <3>1, ClaimIsHit
  <2>3. open = {} /\ \A m \in Declared : ~Claims(m, "satisfied")
    BY <1>3, ClaimIsHit
  <2> QED
    BY <1>2, <2>1, <2>2, <2>3
<1>4. CASE \E n \in DOMAIN protoRules :
             /\ FirstHit(protoRules, protoBody) = <<protoRules[n]>>
             /\ RuleMatches(protoRules[n], protoBody)
             /\ \A m \in DOMAIN protoRules :
                  RuleMatches(protoRules[m], protoBody) => protoRules[n].priority <= protoRules[m].priority
  <2>1. PICK n \in DOMAIN protoRules :
             /\ FirstHit(protoRules, protoBody) = <<protoRules[n]>>
             /\ RuleMatches(protoRules[n], protoBody)
             /\ \A m \in DOMAIN protoRules :
                  RuleMatches(protoRules[m], protoBody) => protoRules[n].priority <= protoRules[m].priority
    BY <1>4
  <2> DEFINE r == protoRules[n]
  <2>2. /\ protoHit # <<>> /\ protoHit[1] = r
        /\ ~protoSwitched /\ protoValidator # "none" => 
             protoHit[2] \in {"refused", "raised", Baseline(r, protoBody, "object")}
    BY <1>1, <2>1 DEF HitIsFirst
  <2>3. /\ \/ protoVerdict = r.action
           \/ r.action = "ALLOW_WITH_WARNING" /\ protoVerdict = "ESCALATE"
           \/ r.kind # "ethics" /\ protoVerdict = "raised"
        /\ protoVerdict = "ALLOW_WITH_WARNING" /\ ~protoSwitched /\ protoValidator # "none" =>
             protoHit[2] \in {"trivial", "anchored"}
    BY <1>1, <2>2 DEF VerdictIsOfHit
  <2>4. \/ r.kind = "ethics" /\ r.action = "DENY" /\ r.priority = 5
        \/ r.kind = "enforce" /\ r.action = "ESCALATE" /\ r.priority \in {15, 20}
        \/ r.kind = "ok" /\ r.action = "ALLOW_WITH_WARNING" /\ r.priority \in {25, 30}
    BY <1>1 DEF RulesSound
  <2>5. /\ r.module \in Declared
        /\ r.kind = "ethics" => r.module \in Violated
        /\ r.kind = "ok" => Claims(r.module, "satisfied")
    BY <2>1, HitTells
  <2>6. ASSUME NEW m \in Violated
        PROVE  r.priority <= 5
    <3>1. m \in Declared
      BY DEF Violated
    <3>2. PICK k \in DOMAIN protoRules :
            protoRules[k].kind = "ethics" /\ RuleMatches(protoRules[k], protoBody)
      BY <3>1, ClaimIsHit
    <3>3. protoRules[k].priority = 5
      BY <1>1, <3>2 DEF RulesSound
    <3> QED
      BY <2>1, <3>2, <3>3
  <2>7. ASSUME NEW m \in open
        PROVE  r.priority <= 20
    <3>1. PICK k \in DOMAIN protoRules :
            protoRules[k].kind = "enforce" /\ RuleMatches(protoRules[k], protoBody)
      BY ClaimIsHit
    <3>2. protoRules[k].priority \in {15, 20}
      BY <1>1, <3>1 DEF RulesSound
    <3>3. r.priority <= protoRules[k].priority
      BY <2>1, <3>1
    <3> HIDE DEF r
    <3>4. r.priority \in {5, 15, 20, 25, 30}
      BY <2>4
    <3> QED
      BY <3>2, <3>3, <3>4
  <2> HIDE DEF r, open
  <2>8. CASE r.kind = "ethics"
    <3>1. protoVerdict = "DENY" /\ Violated # {}
      BY <2>3, <2>4, <2>5, <2>8
    <3> QED
      BY <1>2, <3>1
  <2>9. CASE r.kind = "enforce"
    <3>1. protoVerdict \in {"ESCALATE", "raised"} /\ r.priority \in {15, 20}
      BY <2>3, <2>4, <2>9
    <3>2. Violated = {}
      BY <2>6, <3>1
    <3> QED
      BY <1>2, <3>1, <3>2
  <2>10. CASE r.kind = "ok"
    <3>1. protoVerdict \in {"ALLOW_WITH_WARNING", "ESCALATE", "raised"} /\ r.priority \in {25, 30}
      BY <2>3, <2>4, <2>10
    <3>2. Violated = {} /\ open = {}
      BY <2>6, <2>7, <3>1
    <3>3. ASSUME protoVerdict = "ALLOW_WITH_WARNING", protoValidator # "none", ~protoSwitched
          PROVE  \E m \in Declared : Claims(m, "satisfied") /\ Anchored(m)
      <4>1. Baseline(r, protoBody, "object") \in {"trivial", "anchored"}
        BY <2>2, <2>3, <3>3
      <4>2. r.kind # "ethics" /\ Truthy(Field(protoBody[r.module], "satisfied"))
        BY <2>5, <2>10 DEF Claims, Truthy
      <4>3. Field(protoBody[r.module], "evidence") \notin {"absent", "empty", "null"}
        BY <4>1, <4>2 DEF Baseline
      <4> QED
        BY <2>5, <2>10, <4>3 DEF Anchored
    <3> QED
      BY <1>2, <3>1, <3>2, <3>3
  <2> QED
    BY <2>4, <2>8, <2>9, <2>10
<1> QED
  BY <1>1, <1>3, <1>4, FirstHitIs

\* What evaluate_verified knows of the rule it found while it waits.
THEOREM ProtocolInvariant == ProtocolSpec => []ProtocolInv
BY ProtocolInvInit, ProtocolInvStep, PTL DEF ProtocolSpec

\* compile_protocol_rules, evaluate and evaluate_verified: whatever protocols a
\* directory has and a request declares, a violation denies, an open protocol
\* escalates, and what passes under a validator has evidence.
THEOREM ProtocolVerdictFollows == ProtocolSpec => []VerdictFollowsDeclarations
BY ProtocolInvariant, ProtocolInvVerdict, PTL

-----------------------------------------------------------------------------
(* What the gateway reports about itself                                   *)

\* introspect lists the rules it can name, and nothing else.
LEMMA IntrospectLists ==
  ASSUME NEW rules, NEW N \in Nat, DOMAIN rules = 1..N
  PROVE  LET mces == Introspect(rules)
         IN  /\ \E M \in Nat : DOMAIN mces = 1..M
             /\ \A n \in DOMAIN mces :
                  /\ DOMAIN mces[n] = {"module", "kind"}
                  /\ \E i \in DOMAIN rules : /\ rules[i].module \in Spelled
                                             /\ mces[n].module = rules[i].module
                                             /\ mces[n].kind = rules[i].kind
             /\ \A i \in DOMAIN rules : rules[i].module \in Spelled =>
                  \E n \in DOMAIN mces : /\ mces[n].module = rules[i].module
                                         /\ mces[n].kind = rules[i].kind
<1> DEFINE at == {i \in DOMAIN rules : rules[i].module \in Spelled}
           inOrder == {e \in at \X at : e[1] < e[2]}
           read == [n \in 1..Cardinality(at) |-> rules[AtRank(at, inOrder, n)]]
           mces == Introspect(rules)
<1>1. at \in SUBSET (1..N) /\ \A i \in at : i \in Int
  OBVIOUS
<1>2. IsFiniteSet(at) /\ Cardinality(at) \in Nat
  <2>1. IsFiniteSet(1..N)
    BY IntervalSize
  <2>2. IsFiniteSet(at)
    BY <1>1, <2>1, FS_Subset
  <2> QED
    BY <2>2, FS_CardinalityType
<1>3. \A x, y \in at : <<x, y>> \in inOrder <=> x < y
  OBVIOUS
<1>4. mces = [n \in DOMAIN read |-> [module |-> read[n].module, kind |-> read[n].kind]]
  BY DEF Introspect
<1>5. \A i \in at : i \in DOMAIN rules /\ rules[i].module \in Spelled
  OBVIOUS
<1>6. \A i \in DOMAIN rules : rules[i].module \in Spelled => i \in at
  OBVIOUS
<1> HIDE DEF at, inOrder
<1>7. /\ \A x \in at : <<x, x>> \notin inOrder
      /\ \A x, y, z \in at : <<x, y>> \in inOrder /\ <<y, z>> \in inOrder => <<x, z>> \in inOrder
      /\ \A x, y \in at : x # y => <<x, y>> \in inOrder \/ <<y, x>> \in inOrder
  BY <1>1, <1>3
<1>8. /\ \A n \in 1..Cardinality(at) : AtRank(at, inOrder, n) \in at
      /\ \A x \in at : \E n \in 1..Cardinality(at) : AtRank(at, inOrder, n) = x
  BY <1>2, <1>7, Ranking
<1>9. DOMAIN read = 1..Cardinality(at) /\ DOMAIN mces = 1..Cardinality(at)
  BY <1>4
<1>10. \A n \in DOMAIN mces : /\ read[n] = rules[AtRank(at, inOrder, n)]
                              /\ mces[n] = [module |-> read[n].module, kind |-> read[n].kind]
  BY <1>4, <1>9
<1> HIDE DEF mces, read
<1>11. ASSUME NEW n \in DOMAIN mces
       PROVE  /\ DOMAIN mces[n] = {"module", "kind"}
              /\ \E i \in DOMAIN rules : /\ rules[i].module \in Spelled
                                         /\ mces[n].module = rules[i].module
                                         /\ mces[n].kind = rules[i].kind
  <2>1. DOMAIN mces[n] = {"module", "kind"} /\ mces[n].module = read[n].module /\ mces[n].kind = read[n].kind
    BY <1>10
  <2>2. AtRank(at, inOrder, n) \in DOMAIN rules /\ rules[AtRank(at, inOrder, n)].module \in Spelled
    BY <1>5, <1>8, <1>9
  <2> QED
    BY <1>10, <2>1, <2>2
<1>12. ASSUME NEW i \in DOMAIN rules, rules[i].module \in Spelled
       PROVE  \E n \in DOMAIN mces : mces[n].module = rules[i].module /\ mces[n].kind = rules[i].kind
  <2>1. PICK n \in 1..Cardinality(at) : AtRank(at, inOrder, n) = i
    BY <1>6, <1>8, <1>12
  <2>2. n \in DOMAIN mces /\ read[n] = rules[i]
    BY <1>9, <1>10, <2>1
  <2>3. mces[n].module = read[n].module /\ mces[n].kind = read[n].kind
    BY <1>10, <2>2
  <2> QED
    BY <2>2, <2>3
<1> QED
  BY <1>2, <1>9, <1>11, <1>12 DEF mces

\* The protocols that are loaded, and those that can be named.
Loaded == {protoRules[i].module : i \in DOMAIN protoRules}
Named == Loaded \cap Spelled

\* Every protocol that is named is listed with its three kinds of rules.
LEMMA EveryKindIsListed ==
  ASSUME RulesSound(protoRules)
  PROVE  LET mces == Introspect(protoRules)
         IN  /\ ScannedModules(mces) = Named
             /\ \A m \in Named : KindsOf(mces, m) = {"ethics", "enforce", "ok"}
<1> DEFINE mces == Introspect(protoRules)
<1>1. PICK N \in Nat : DOMAIN protoRules = 1..N
  BY DEF RulesSound
<1>2. /\ \A n \in DOMAIN mces :
           \E i \in DOMAIN protoRules : /\ protoRules[i].module \in Spelled
                                       /\ mces[n].module = protoRules[i].module
                                       /\ mces[n].kind = protoRules[i].kind
      /\ \A i \in DOMAIN protoRules : protoRules[i].module \in Spelled =>
           \E n \in DOMAIN mces : /\ mces[n].module = protoRules[i].module
                                  /\ mces[n].kind = protoRules[i].kind
  BY <1>1, IntrospectLists
<1>3. /\ \A i \in DOMAIN protoRules : protoRules[i].kind \in {"ethics", "enforce", "ok"}
      /\ \A i \in DOMAIN protoRules, kind \in {"ethics", "enforce", "ok"} :
           \E j \in DOMAIN protoRules : /\ protoRules[j].module = protoRules[i].module
                                       /\ protoRules[j].kind = kind
  BY DEF RulesSound
<1> HIDE DEF mces
<1>4. ScannedModules(mces) = Named
  BY <1>2 DEF ScannedModules, Named, Loaded
<1>5. ASSUME NEW m \in Named
      PROVE  KindsOf(mces, m) = {"ethics", "enforce", "ok"}
  <2>1. KindsOf(mces, m) \subseteq {"ethics", "enforce", "ok"}
    <3>1. \A n \in DOMAIN mces : mces[n].kind \in {"ethics", "enforce", "ok"}
      BY <1>2, <1>3, Zenon
    <3> QED
      BY <3>1 DEF KindsOf
  <2>2. ASSUME NEW kind \in {"ethics", "enforce", "ok"}
        PROVE  kind \in KindsOf(mces, m)
    <3>1. PICK i \in DOMAIN protoRules : protoRules[i].module = m /\ m \in Spelled
      BY DEF Named, Loaded
    <3>2. PICK j \in DOMAIN protoRules : protoRules[j].module = m /\ protoRules[j].kind = kind
      BY <1>3, <3>1
    <3>3. PICK n \in DOMAIN mces : mces[n].module = m /\ mces[n].kind = kind
      BY <1>2, <3>1, <3>2
    <3> QED
      BY <3>3 DEF KindsOf
  <2> QED
    BY <2>1, <2>2
<1> QED
  BY <1>4, <1>5 DEF mces

\* A protocol has a first rule in the list, and no protocol two.
LEMMA FirstsAreModules ==
  ASSUME NEW mces, NEW M \in Nat, DOMAIN mces = 1..M
  PROVE  LET firsts == {i \in DOMAIN mces : \A j \in 1..i - 1 : mces[j].module # mces[i].module}
         IN  /\ IsFiniteSet(firsts) /\ Cardinality(firsts) = Cardinality(ScannedModules(mces))
             /\ \A m \in ScannedModules(mces) : \E i \in firsts : mces[i].module = m
<1> DEFINE firsts == {i \in DOMAIN mces : \A j \in 1..i - 1 : mces[j].module # mces[i].module}
           moduleOf == [i \in firsts |-> mces[i].module]
<1>1. firsts \in SUBSET (1..M)
  OBVIOUS
<1>2. IsFiniteSet(firsts) /\ IsFiniteSet(1..M)
  <2>1. IsFiniteSet(1..M)
    BY IntervalSize
  <2> QED
    BY <1>1, <2>1, FS_Subset
<1>3. ASSUME NEW m \in ScannedModules(mces)
      PROVE  \E i \in firsts : mces[i].module = m
  <2> DEFINE S == {i \in DOMAIN mces : mces[i].module = m}
  <2>1. S \in SUBSET Nat /\ S \in SUBSET (1..M) /\ S # {}
    BY DEF ScannedModules
  <2>2. IsFiniteSet(S)
    BY <1>2, <2>1, FS_Subset
  <2>3. PICK i \in S : \A n \in S : i <= n
    BY <2>1, <2>2, LeastIndex
  <2>4. \A j \in 1..i - 1 : j \in DOMAIN mces /\ ~(i <= j)
    BY <2>1
  <2>5. \A j \in 1..i - 1 : mces[j].module # m
    BY <2>3, <2>4
  <2> QED
    BY <2>3, <2>5
<1>4. ASSUME NEW i \in firsts, NEW j \in firsts, mces[i].module = mces[j].module
      PROVE  i = j
  <2>1. i \in 1..M /\ j \in 1..M
    OBVIOUS
  <2>2. ~(i < j)
    <3>1. i < j => i \in 1..j - 1
      BY <2>1
    <3> QED
      BY <1>4, <3>1
  <2>3. ~(j < i)
    <3>1. j < i => j \in 1..i - 1
      BY <2>1
    <3> QED
      BY <1>4, <3>1
  <2> QED
    BY <2>1, <2>2, <2>3
<1>5. \A i \in firsts : mces[i].module \in ScannedModules(mces)
  BY DEF ScannedModules
<1> HIDE DEF firsts
<1>6. moduleOf \in Bijection(firsts, ScannedModules(mces))
  <2>1. moduleOf \in [firsts -> ScannedModules(mces)]
    BY <1>5
  <2>2. moduleOf \in Injection(firsts, ScannedModules(mces))
    BY <1>4, <2>1 DEF Injection, IsInjective
  <2>3. moduleOf \in Surjection(firsts, ScannedModules(mces))
    BY <1>3, <2>1 DEF Surjection
  <2> QED
    BY <2>2, <2>3 DEF Bijection
<1>7. ExistsBijection(firsts, ScannedModules(mces))
  BY <1>6 DEF ExistsBijection
<1>8. Cardinality(firsts) = Cardinality(ScannedModules(mces))
  BY <1>2, <1>7, FS_Bijection
<1> QED
  BY <1>2, <1>3, <1>8 DEF firsts

\* A bare claim on a protocol meets its ok rule first.
LEMMA BareClaimIsOk ==
  ASSUME RulesSound(protoRules), NEW m, NEW decl \in Declarations, BareClaim(decl),
         \/ m \in Loaded /\ Field(decl, "violation") \in {"absent", "empty"}
         \/ LetsPass(m, decl)
  PROVE  \E n \in DOMAIN protoRules :
           /\ FirstHit(protoRules, [x \in {m} |-> decl]) = <<protoRules[n]>>
           /\ protoRules[n].kind = "ok" /\ protoRules[n].action = "ALLOW_WITH_WARNING"
           /\ protoRules[n].module = m
<1> DEFINE body == [x \in {m} |-> decl]
           hit == FirstHit(protoRules, body)
<1>1. DOMAIN body = {m} /\ body[m] = decl
  OBVIOUS
<1>2. /\ \A n \in DOMAIN protoRules :
           \/ protoRules[n].kind = "ethics" /\ protoRules[n].action = "DENY"
           \/ protoRules[n].kind = "enforce" /\ protoRules[n].action = "ESCALATE"
           \/ protoRules[n].kind = "ok" /\ protoRules[n].action = "ALLOW_WITH_WARNING"
      /\ \A n \in DOMAIN protoRules :
           \E i \in DOMAIN protoRules : /\ protoRules[i].module = protoRules[n].module
                                       /\ protoRules[i].kind = "ok"
  BY DEF RulesSound
<1>3. \/ hit = <<>> /\ \A n \in DOMAIN protoRules : ~RuleMatches(protoRules[n], body)
      \/ \E n \in DOMAIN protoRules : hit = <<protoRules[n]>> /\ RuleMatches(protoRules[n], body)
  BY FirstHitIs
<1>4. CASE LetsPass(m, decl)
  <2>1. hit # <<>> /\ hit[1].action = "ALLOW_WITH_WARNING"
    BY <1>4 DEF LetsPass
  <2>2. PICK n \in DOMAIN protoRules : hit = <<protoRules[n]>> /\ RuleMatches(protoRules[n], body)
    BY <1>3, <2>1
  <2>3. protoRules[n].action = "ALLOW_WITH_WARNING"
    BY <2>1, <2>2
  <2>4. protoRules[n].kind = "ok"
    BY <1>2, <2>3
  <2>5. protoRules[n].module = m
    BY <1>1, <2>2 DEF RuleMatches
  <2> QED
    BY <2>2, <2>3, <2>4, <2>5
<1>5. CASE m \in Loaded /\ Field(decl, "violation") \in {"absent", "empty"}
  <2>1. PICK b \in ProtoBody : \E k \in DOMAIN b : decl = b[k]
    BY DEF Declarations
  <2> PICK k \in DOMAIN b : decl = b[k]
    BY <2>1
  <2>2. decl \in Seq([key : STRING, val : STRING, nested : BOOLEAN])
    BY ProtocolAssumption
  <2>3. PICK s \in DOMAIN decl : decl[s].key = "satisfied" /\ decl[s].val = "true"
    <3>1. Field(b[k], "satisfied") # "absent" /\ Field(b[k], "satisfied") = "true"
      BY DEF BareClaim
    <3> QED
      BY <3>1, FieldIs
  <2>4. SaysFrom(decl, 1, "satisfied")
    BY <2>2, <2>3 DEF SaysFrom
  <2>5. ~EnforceMatches(decl)
    <3> SUFFICES ASSUME NEW i \in DOMAIN decl, SaysFrom(decl, i, "triggered"), ~SaysFrom(decl, i, "satisfied")
                 PROVE  FALSE
      BY DEF EnforceMatches
    <3>1. DOMAIN decl = 1..Len(decl) /\ Len(decl) \in Nat
      BY <2>2
    <3>2. PICK j \in i..Len(decl) : decl[j].key = "triggered"
      BY DEF SaysFrom
    <3>3. i \in Int /\ j \in DOMAIN decl /\ i <= j
      BY <3>1, <3>2
    <3>4. j < s
      BY <2>3, <3>2, <3>3 DEF BareClaim, Plain
    <3>5. s \in i..Len(decl)
      BY <3>1, <3>3, <3>4
    <3> QED
      BY <2>3, <3>5 DEF SaysFrom
  <2>6. PICK o \in DOMAIN protoRules : protoRules[o].module = m /\ protoRules[o].kind = "ok"
    BY <1>2, <1>5 DEF Loaded
  <2>7. RuleMatches(protoRules[o], body)
    BY <1>1, <2>4, <2>6 DEF RuleMatches
  <2>8. PICK n \in DOMAIN protoRules : hit = <<protoRules[n]>> /\ RuleMatches(protoRules[n], body)
    BY <1>3, <2>7
  <2>9. protoRules[n].module = m
    BY <1>1, <2>8 DEF RuleMatches
  <2>10. protoRules[n].kind # "ethics" /\ protoRules[n].kind # "enforce"
    BY <1>1, <1>5, <2>5, <2>8, <2>9 DEF RuleMatches
  <2> QED
    BY <1>2, <2>8, <2>9, <2>10
<1> QED
  BY <1>4, <1>5

\* Without a validator a bare claim is enough, with one it never is.
LEMMA BareClaimsPass ==
  ASSUME RulesSound(protoRules), protoValidator \in {"none", "baseline", "semantic-llm"}, NEW m,
         NEW decl \in Declarations, BareClaim(decl)
  PROVE  /\ protoValidator = "none" /\ Field(decl, "violation") \in {"absent", "empty"} /\ m \in Loaded
              => LetsPass(m, decl)
         /\ LetsPass(m, decl) => protoValidator = "none"
<1> DEFINE body == [x \in {m} |-> decl]
           hit == FirstHit(protoRules, body)
<1>1. ASSUME protoValidator = "none", Field(decl, "violation") \in {"absent", "empty"}, m \in Loaded
      PROVE  LetsPass(m, decl)
  <2>1. PICK n \in DOMAIN protoRules :
          /\ hit = <<protoRules[n]>>
          /\ protoRules[n].kind = "ok" /\ protoRules[n].action = "ALLOW_WITH_WARNING"
          /\ protoRules[n].module = m
    <3>1. m \in Loaded /\ Field(decl, "violation") \in {"absent", "empty"}
      BY <1>1
    <3> QED
      BY <3>1, BareClaimIsOk, Zenon
  <2>2. hit # <<>> /\ hit[1].action = "ALLOW_WITH_WARNING"
    BY <2>1
  <2> QED
    BY <1>1, <2>2 DEF LetsPass, Downgraded
<1>2. ASSUME LetsPass(m, decl), protoValidator # "none"
      PROVE  FALSE
  <2>1. PICK n \in DOMAIN protoRules :
          /\ hit = <<protoRules[n]>> /\ protoRules[n].action = "ALLOW_WITH_WARNING"
          /\ protoRules[n].kind = "ok" /\ protoRules[n].module = m
    BY <1>2, BareClaimIsOk
  <2> DEFINE rule == protoRules[n]
  <2>2. hit[1] = rule /\ rule.action = "ALLOW_WITH_WARNING"
    BY <2>1
  <2>3. body[m] = decl /\ rule.kind = "ok" /\ rule.module = m
    BY <2>1
  <2>4. Baseline(rule, body, "object") = "refused"
    BY <2>3 DEF Baseline, Truthy, BareClaim
  <2>5. Validate(protoValidator, rule, body, "object", "fails") \in {"refused", "raised"}
    <3>1. Validate(protoValidator, rule, body, "object", "fails")
            \in {"refused", "raised", Baseline(rule, body, "object")}
      BY <1>2, ValidateRefusesOnly
    <3> QED
      BY <2>4, <3>1
  <2>6. Downgraded(rule, FALSE)
    BY <1>2, <2>2 DEF Downgraded
  <2>7. ~Downgraded(hit[1], Validate(protoValidator, hit[1], body, "object", "fails") \in {"trivial", "anchored"})
    BY <1>2 DEF LetsPass
  <2> HIDE DEF rule
  <2> QED
    BY <2>2, <2>5, <2>6, <2>7 DEF Downgraded
<1> QED
  BY <1>1, <1>2

\* Some declaration meets both rules of a protocol that are said to overlap.
LEMMA RulesMeet ==
  ASSUME RulesSound(protoRules), NEW m \in Named
  PROVE  Meet(m, "enforce", "ok") /\ Meet(m, "ethics", "ok")
<1>1. ASSUME NEW kind \in {"ethics", "enforce", "ok"}
      PROVE  RuleOf(m, kind).module = m /\ RuleOf(m, kind).kind = kind
  <2>1. PICK i \in DOMAIN protoRules : protoRules[i].module = m
    BY DEF Named, Loaded
  <2>2. \E j \in DOMAIN protoRules : protoRules[j].module = m /\ protoRules[j].kind = kind
    <3>1. \A n \in DOMAIN protoRules, k \in {"ethics", "enforce", "ok"} :
            \E j \in DOMAIN protoRules : /\ protoRules[j].module = protoRules[n].module
                                        /\ protoRules[j].kind = k
      BY Zenon DEF RulesSound
    <3> QED
      BY <2>1, <3>1
  <2> QED
    BY <2>2 DEF RuleOf
<1>2. \A decl : LET body == [n \in {m} |-> decl] IN DOMAIN body = {m} /\ body[m] = decl
  OBVIOUS
<1>3. ASSUME NEW decl
      PROVE  /\ EnforceMatches(decl) => RuleMatches(RuleOf(m, "enforce"), [n \in {m} |-> decl])
             /\ SaysFrom(decl, 1, "satisfied") => RuleMatches(RuleOf(m, "ok"), [n \in {m} |-> decl])
             /\ Field(decl, "violation") \notin {"absent", "empty"} =>
                  RuleMatches(RuleOf(m, "ethics"), [n \in {m} |-> decl])
  <2> DEFINE body == [n \in {m} |-> decl]
  <2>1. DOMAIN body = {m} /\ body[m] = decl
    OBVIOUS
  <2> HIDE DEF body
  <2>2. /\ EnforceMatches(decl) => RuleMatches(RuleOf(m, "enforce"), body)
        /\ SaysFrom(decl, 1, "satisfied") => RuleMatches(RuleOf(m, "ok"), body)
        /\ Field(decl, "violation") \notin {"absent", "empty"} => RuleMatches(RuleOf(m, "ethics"), body)
    BY <1>1, <2>1 DEF RuleMatches
  <2> QED
    BY <2>2 DEF body
<1> QED
  BY <1>3, SelfAuditAssumption DEF Meet

\* What the report says of the rules, in terms of the protocols.
LEMMA ConflictsFound ==
  ASSUME RulesSound(protoRules)
  PROVE  LET mces == Introspect(protoRules)
         IN  /\ {e \in ScannedModules(mces) \X ToSet(RuleKind) : e[2] \notin KindsOf(mces, e[1])} = {}
             /\ FindConflicts(mces) = {<<"condition_overlap", m>> : m \in Named}
                                        \cup {<<"action_ambiguity", m>> : m \in Named}
<1> DEFINE mces == Introspect(protoRules)
           ranked == {i \in DOMAIN mces : "priority" \in DOMAIN mces[i]}
           overlaps == {n \in ScannedModules(mces) : {"enforce", "ok"} \subseteq KindsOf(mces, n)}
           ambiguous == {n \in ScannedModules(mces) : {"ethics", "ok"} \subseteq KindsOf(mces, n)}
           collisions == {i \in ranked : \E k \in ranked : /\ mces[k].priority = mces[i].priority
                                                           /\ mces[k].kind # mces[i].kind}
<1>1. ScannedModules(mces) = Named /\ \A m \in Named : KindsOf(mces, m) = {"ethics", "enforce", "ok"}
  BY EveryKindIsListed
<1>2. ranked = {}
  <2>1. PICK N \in Nat : DOMAIN protoRules = 1..N
    BY DEF RulesSound
  <2>2. \A n \in DOMAIN mces : DOMAIN mces[n] = {"module", "kind"}
    BY <2>1, IntrospectLists
  <2> QED
    BY <2>2
<1> HIDE DEF mces
<1>3. ToSet(RuleKind) = {"ethics", "enforce", "ok"}
  BY DEF ToSet, RuleKind
<1>4. {e \in ScannedModules(mces) \X ToSet(RuleKind) : e[2] \notin KindsOf(mces, e[1])} = {}
  BY <1>1, <1>3
<1>5. overlaps = Named /\ ambiguous = Named
  BY <1>1
<1>6. collisions = {}
  BY <1>2
<1>7. FindConflicts(mces) = {<<"condition_overlap", m>> : m \in overlaps}
                              \cup {<<"action_ambiguity", m>> : m \in ambiguous}
                              \cup {<<"priority_collision", mces[i].module>> : i \in collisions}
  BY DEF FindConflicts
<1> HIDE DEF overlaps, ambiguous, collisions
<1>8. {<<"priority_collision", mces[i].module>> : i \in collisions} = {}
  BY <1>6
<1> QED
  BY <1>4, <1>5, <1>7, <1>8 DEF mces

LEMMA ProtocolInvScan == ProtocolInv => ScanTellsWhatPasses
<1> SUFFICES ASSUME ProtocolInv PROVE ScanTellsWhatPasses
  OBVIOUS
<1> DEFINE mces == Introspect(protoRules)
           trusting == {m \in Named : \E decl \in Declarations : BareClaim(decl) /\ LetsPass(m, decl)}
           missing == {e \in ScannedModules(mces) \X ToSet(RuleKind) : e[2] \notin KindsOf(mces, e[1])}
           firsts == {i \in DOMAIN mces : \A j \in 1..i - 1 : mces[j].module # mces[i].module}
           Place(i) == Cardinality(missing) + Cardinality({j \in firsts : j <= i})
           listed == {mces[i].module : i \in {j \in firsts : Place(j) <= MaxSpots}}
           colliding == {n \in Named : \E i, j \in DOMAIN protoRules :
                           /\ protoRules[i].module = n /\ protoRules[i].priority = protoRules[j].priority
                           /\ protoRules[i].kind # protoRules[j].kind}
<1>1. RulesSound(protoRules) /\ protoValidator \in {"none", "baseline", "semantic-llm"}
  BY DEF ProtocolInv
<1>2. /\ missing = {}
      /\ FindConflicts(mces) = {<<"condition_overlap", m>> : m \in Named}
                                 \cup {<<"action_ambiguity", m>> : m \in Named}
  BY <1>1, ConflictsFound
<1>3. trusting = IF protoValidator = "none" THEN Named ELSE {}
  <2>1. CASE protoValidator = "none"
    <3>1. PICK decl \in Declarations : BareClaim(decl) /\ Field(decl, "violation") \in {"absent", "empty"}
      BY SelfAuditAssumption
    <3>2. \A m \in Named : LetsPass(m, decl)
      BY <1>1, <2>1, <3>1, BareClaimsPass DEF Named
    <3> QED
      BY <2>1, <3>1, <3>2
  <2>2. CASE protoValidator # "none"
    <3>1. \A m \in Named, decl \in Declarations : BareClaim(decl) => ~LetsPass(m, decl)
      BY <1>1, <2>2, BareClaimsPass
    <3> QED
      BY <2>2, <3>1
  <2> QED
    BY <2>1, <2>2
<1>4. ScannedModules(mces) = Named
  BY <1>1, EveryKindIsListed
<1>5. /\ IsFiniteSet(firsts) /\ Cardinality(firsts) = Cardinality(Named)
      /\ \A m \in Named : \E i \in firsts : mces[i].module = m
  <2>1. PICK M \in Nat : DOMAIN mces = 1..M
    <3>1. PICK N \in Nat : DOMAIN protoRules = 1..N
      BY <1>1 DEF RulesSound
    <3> QED
      BY <3>1, IntrospectLists
  <2> HIDE DEF mces
  <2>2. /\ IsFiniteSet(firsts) /\ Cardinality(firsts) = Cardinality(ScannedModules(mces))
        /\ \A m \in ScannedModules(mces) : \E i \in firsts : mces[i].module = m
    BY <2>1, FirstsAreModules
  <2> HIDE DEF firsts
  <2> QED
    BY <1>4, <2>2
<1>6. listed \subseteq Named
  <2>1. \A i \in firsts : mces[i].module \in ScannedModules(mces)
    BY DEF ScannedModules
  <2> HIDE DEF mces, firsts, Place
  <2> QED
    BY <1>4, <2>1
<1>7. ASSUME Cardinality(Named) <= MaxSpots
      PROVE  listed = Named
  <2>1. ASSUME NEW i \in firsts
        PROVE  Place(i) <= MaxSpots
    <3> DEFINE upTo == {j \in firsts : j <= i}
    <3>1. upTo \in SUBSET firsts
      OBVIOUS
    <3> HIDE DEF upTo, firsts
    <3>2. IsFiniteSet(upTo) /\ Cardinality(upTo) <= Cardinality(firsts)
      BY <1>5, <3>1, FS_Subset
    <3>3. Cardinality(upTo) \in Nat /\ Cardinality(firsts) \in Nat
      BY <1>5, <3>2, FS_CardinalityType
    <3> HIDE DEF missing
    <3>4. Cardinality(missing) = 0
      BY <1>2, FS_EmptySet
    <3>5. Cardinality(missing) + Cardinality(upTo) <= MaxSpots
      BY <1>5, <1>7, <3>2, <3>3, <3>4, SelfAuditAssumption
    <3> QED
      BY <3>5 DEF upTo
  <2> HIDE DEF mces, firsts, Place
  <2>2. Named \subseteq listed
    BY <1>5, <2>1
  <2> QED
    BY <1>6, <2>2
<1>8. colliding = {}
  <2> SUFFICES ASSUME NEW i \in DOMAIN protoRules, NEW j \in DOMAIN protoRules,
                      protoRules[i].priority = protoRules[j].priority,
                      protoRules[i].kind # protoRules[j].kind
               PROVE  FALSE
    OBVIOUS
  <2>1. \A n \in DOMAIN protoRules :
          \/ protoRules[n].kind = "ethics" /\ protoRules[n].priority = 5
          \/ protoRules[n].kind = "enforce" /\ protoRules[n].priority \in {15, 20}
          \/ protoRules[n].kind = "ok" /\ protoRules[n].priority \in {25, 30}
    BY <1>1 DEF RulesSound
  <2> QED
    BY <2>1
<1>9. /\ {n \in Named : Meet(n, "enforce", "ok")} = Named
      /\ {n \in Named : Meet(n, "ethics", "ok")} = Named
  BY <1>1, RulesMeet
<1>10. /\ Scan.spots.missing = missing
       /\ Scan.spots.declared = (IF HasChannel(protoValidator) THEN {} ELSE listed)
       /\ Scan.channel = HasChannel(protoValidator)
       /\ Scan.conflicts = FindConflicts(mces)
  BY DEF Scan, VceScanRules, FindBlindspots
<1> HIDE DEF missing, listed, mces, trusting, colliding
<1>11. HasChannel(protoValidator) <=> protoValidator # "none"
  BY DEF HasChannel
<1>12. /\ Scan.spots.declared \subseteq trusting
       /\ Cardinality(trusting) <= MaxSpots => Scan.spots.declared = trusting
       /\ Scan.channel => trusting = {}
       /\ Scan.spots.missing = {}
  BY <1>2, <1>3, <1>6, <1>7, <1>10, <1>11
<1>13. Scan.conflicts = {<<"condition_overlap", m>> : m \in {n \in Named : Meet(n, "enforce", "ok")}}
         \cup {<<"action_ambiguity", m>> : m \in {n \in Named : Meet(n, "ethics", "ok")}}
         \cup {<<"priority_collision", m>> : m \in colliding}
  <2>1. {<<"priority_collision", m>> : m \in colliding} = {}
    BY <1>8
  <2> QED
    BY <1>2, <1>9, <1>10, <2>1
<1> QED
  BY <1>12, <1>13 DEF ScanTellsWhatPasses, trusting, colliding, Named, Loaded

\* For any directories of protocols, any requests that may declare what they
\* like and any length of the list: what scan reports about the claims that
\* pass, the verification channel and the rules that overlap is what the rules
\* and the validator do.
THEOREM ProtocolScanTells == ProtocolSpec => []ScanTellsWhatPasses
BY ProtocolInvScan, ProtocolInvariant, PTL


-----------------------------------------------------------------------------
(* The code gate                                                           *)

\* The node before the last key of an address, and that key.
LEMMA FrontLast ==
  ASSUME NEW S, NEW a \in Seq(S), a # <<>>
  PROVE  /\ Len(a) \in Nat \ {0} /\ Len(a) - 1 \in 0..(Len(a) - 1)
         /\ Front(a) = SubSeq(a, 1, Len(a) - 1) /\ Last(a) = a[(Len(a) - 1) + 1]
         /\ Front(a) \in Seq(S) /\ Len(Front(a)) = Len(a) - 1
         /\ Append(Front(a), Last(a)) = a
<1>1. Len(a) \in Nat \ {0}
  BY EmptySeq, LenProperties
<1> DEFINE n == Len(a) - 1
<1>2. n \in 0..(Len(a) - 1) /\ n \in 0..Len(a) /\ n + 1 = Len(a)
  BY <1>1
<1>3. SubSeq(a, 1, n) \in Seq(S) /\ Len(SubSeq(a, 1, n)) = n
  BY <1>2, Beginning
<1>4. SubSeq(a, 1, n + 1) = Append(SubSeq(a, 1, n), a[n + 1])
  BY <1>2, BeginningNext
<1>5. SubSeq(a, 1, n + 1) = a
  BY <1>2, SubSeqFull
<1> QED
  BY <1>1, <1>2, <1>3, <1>4, <1>5 DEF Front, Last

\* One of the keys that count, if any does.
LEMMA FirstOfIs ==
  ASSUME NEW S, NEW keys \in Seq(S), NEW set, NEW k \in set, k \in ToSet(keys)
  PROVE  FirstOf(keys, set) \in set /\ FirstOf(keys, set) \in ToSet(keys)
<1> DEFINE I == {i \in DOMAIN keys : keys[i] \in set}
<1>1. Len(keys) \in Nat /\ DOMAIN keys = 1..Len(keys)
  BY LenProperties
<1>2. I \in SUBSET (1..Len(keys)) /\ I # {}
  BY <1>1 DEF ToSet
<1>3. Min(I) \in I
  <2> DEFINE N == Len(keys)
  <2> HIDE DEF I
  <2>1. IsFiniteSet(1..N)
    BY <1>1, IntervalSize
  <2>2. IsFiniteSet(I)
    BY <1>2, <2>1, FS_Subset
  <2>3. I \in SUBSET Nat
    BY <1>1, <1>2
  <2> QED
    BY <1>2, <2>2, <2>3, LeastIndex
<1>4. FirstOf(keys, set) = keys[Min(I)]
  BY DEF FirstOf
<1> QED
  BY <1>3, <1>4 DEF ToSet

\* What IsGateBody says of one address.
LEMMA GateAddress ==
  ASSUME NEW body, IsGateBody(body), NEW a \in DOMAIN body
  PROVE  /\ a \in Seq(GateKey) /\ Len(a) \in Nat
         /\ body[a].keys \in Seq(GateKey)
         /\ \A n \in 0..(Len(a) - 1) :
              /\ SubSeq(a, 1, n) \in DOMAIN body
              /\ a[n + 1] \in ToSet(body[SubSeq(a, 1, n)].keys)
         /\ \A i, j \in DOMAIN body[a].keys : body[a].keys[i] = body[a].keys[j] => i = j
         /\ \A k \in ToSet(body[a].keys) : Append(a, k) \in DOMAIN body /\ k \in GateKey
         /\ ListLike(body[a]) => ToSet(body[a].keys) \cap (JsonKey \cup DOMAIN Hint) = {}
<1>1. /\ a \in Seq(GateKey) /\ body[a].keys \in Seq(GateKey)
      /\ \A n \in 0..(Len(a) - 1) :
           /\ SubSeq(a, 1, n) \in DOMAIN body
           /\ a[n + 1] \in ToSet(body[SubSeq(a, 1, n)].keys)
      /\ \A i, j \in DOMAIN body[a].keys : body[a].keys[i] = body[a].keys[j] => i = j
      /\ \A k \in ToSet(body[a].keys) : Append(a, k) \in DOMAIN body
      /\ ListLike(body[a]) => ToSet(body[a].keys) \cap (JsonKey \cup DOMAIN Hint) = {}
  BY DEF IsGateBody
<1>2. \A k \in ToSet(body[a].keys) : k \in GateKey
  BY <1>1, ElementOfSeq DEF ToSet
<1> QED
  BY <1>1, <1>2, LenProperties

\* The order of the body is one: no address precedes itself,
LEMMA PrecedesNotItself ==
  ASSUME NEW body, IsGateBody(body), NEW a \in DOMAIN body, Precedes(body, a, a)
  PROVE  FALSE
<1>1. PICK n \in 0..(Len(a) - 1) :
        \E i, j \in DOMAIN body[SubSeq(a, 1, n)].keys :
          /\ i < j
          /\ body[SubSeq(a, 1, n)].keys[i] = a[n + 1] /\ body[SubSeq(a, 1, n)].keys[j] = a[n + 1]
  BY DEF Precedes
<1> DEFINE d == SubSeq(a, 1, n)
           keys == body[d].keys
<1>2. d \in DOMAIN body
  BY GateAddress
<1>3. keys \in Seq(GateKey) /\ \A i, j \in DOMAIN keys : keys[i] = keys[j] => i = j
  BY <1>2, GateAddress
<1>4. PICK i \in DOMAIN keys, j \in DOMAIN keys : i < j /\ keys[i] = a[n + 1] /\ keys[j] = a[n + 1]
  BY <1>1
<1> HIDE DEF keys
<1>5. i = j /\ i \in Int
  BY <1>3, <1>4
<1> QED
  BY <1>4, <1>5

\* it passes on,
LEMMA PrecedesOn ==
  ASSUME NEW body, IsGateBody(body), NEW a \in DOMAIN body, NEW b \in DOMAIN body,
         NEW c \in DOMAIN body, Precedes(body, a, b), Precedes(body, b, c)
  PROVE  Precedes(body, a, c)
<1> DEFINE Keys(x, n) == body[SubSeq(x, 1, n)].keys
           Apart(x, y, n) == /\ n < Len(y) /\ SubSeq(x, 1, n) = SubSeq(y, 1, n)
                             /\ \E i, j \in DOMAIN Keys(x, n) :
                                  i < j /\ Keys(x, n)[i] = x[n + 1] /\ Keys(x, n)[j] = y[n + 1]
<1>1. \A x, y : Precedes(body, x, y) <=> \E n \in 0..(Len(x) - 1) : Apart(x, y, n)
  BY DEF Precedes
<1>2. PICK n \in 0..(Len(a) - 1) : Apart(a, b, n)
  BY DEF Precedes
<1>3. PICK m \in 0..(Len(b) - 1) : Apart(b, c, m)
  BY DEF Precedes
<1>4. /\ a \in Seq(GateKey) /\ b \in Seq(GateKey) /\ c \in Seq(GateKey)
      /\ Len(a) \in Nat /\ Len(b) \in Nat /\ Len(c) \in Nat
  BY GateAddress
<1>5. n \in Nat /\ m \in Nat /\ n < Len(a) /\ n < Len(b) /\ m < Len(b) /\ m < Len(c)
  BY <1>2, <1>3, <1>4
<1>6. SubSeq(a, 1, n) = SubSeq(b, 1, n) /\ SubSeq(b, 1, m) = SubSeq(c, 1, m)
  BY <1>2, <1>3
<1>7. ASSUME NEW x \in Seq(GateKey), NEW y \in Seq(GateKey), NEW k \in Nat, NEW l \in Nat,
             k < l, l < Len(x), l < Len(y), SubSeq(x, 1, l) = SubSeq(y, 1, l)
      PROVE  x[k + 1] = y[k + 1] /\ SubSeq(x, 1, k) = SubSeq(y, 1, k)
  <2>1. /\ k + 1 \in 1..l /\ k \in 0..l /\ l \in 0..Len(x) /\ l \in 0..Len(y)
    BY <1>7
  <2>2. /\ SubSeq(x, 1, l)[k + 1] = x[k + 1] /\ SubSeq(SubSeq(x, 1, l), 1, k) = SubSeq(x, 1, k)
        /\ SubSeq(y, 1, l)[k + 1] = y[k + 1] /\ SubSeq(SubSeq(y, 1, l), 1, k) = SubSeq(y, 1, k)
    BY <2>1, Beginning
  <2> QED
    BY <1>7, <2>2
<1>8. CASE n < m
  <2>1. b[n + 1] = c[n + 1] /\ SubSeq(b, 1, n) = SubSeq(c, 1, n)
    BY <1>4, <1>5, <1>6, <1>7, <1>8
  <2>2. Apart(a, c, n)
    <3>1. n < Len(c)
      BY <1>4, <1>5, <1>8
    <3> QED
      BY <1>2, <1>6, <2>1, <3>1
  <2> HIDE DEF Apart
  <2> QED
    BY <1>1, <2>2
<1>9. CASE m < n
  <2>1. a[m + 1] = b[m + 1] /\ SubSeq(a, 1, m) = SubSeq(b, 1, m)
    BY <1>4, <1>5, <1>6, <1>7, <1>9
  <2>2. Apart(a, c, m)
    BY <1>3, <1>5, <1>6, <2>1
  <2>3. m \in 0..(Len(a) - 1)
    BY <1>4, <1>5, <1>9
  <2> HIDE DEF Apart
  <2> QED
    BY <1>1, <2>2, <2>3
<1>10. CASE n = m
  <2> DEFINE d == SubSeq(a, 1, n)
             keys == body[d].keys
  <2>1. d \in DOMAIN body
    BY GateAddress
  <2>2. keys \in Seq(GateKey) /\ \A i, j \in DOMAIN keys : keys[i] = keys[j] => i = j
    BY <2>1, GateAddress
  <2>3. d = SubSeq(b, 1, n) /\ d = SubSeq(c, 1, n)
    BY <1>6, <1>10
  <2>4. PICK i \in DOMAIN keys, j \in DOMAIN keys : i < j /\ keys[i] = a[n + 1] /\ keys[j] = b[n + 1]
    BY <1>2
  <2>5. PICK k \in DOMAIN keys, l \in DOMAIN keys : k < l /\ keys[k] = b[n + 1] /\ keys[l] = c[n + 1]
    BY <1>3, <1>10, <2>3
  <2>6. i < l
    <3> HIDE DEF keys
    <3>1. k = j /\ i \in Int /\ j \in Int /\ l \in Int
      BY <2>2, <2>4, <2>5
    <3> QED
      BY <2>4, <2>5, <3>1
  <2>7. Apart(a, c, n)
    BY <1>5, <1>10, <2>3, <2>4, <2>5, <2>6
  <2> HIDE DEF Apart
  <2> QED
    BY <1>1, <2>7
<1> QED
  BY <1>5, <1>8, <1>9, <1>10

\* and of two addresses one precedes the other, unless one lies below the other.
LEMMA PrecedesEither ==
  ASSUME NEW body, IsGateBody(body), NEW a \in DOMAIN body, NEW b \in DOMAIN body,
         ~(Len(a) <= Len(b) /\ SubSeq(b, 1, Len(a)) = a),
         ~(Len(b) <= Len(a) /\ SubSeq(a, 1, Len(b)) = b)
  PROVE  Precedes(body, a, b) \/ Precedes(body, b, a)
<1>1. a \in Seq(GateKey) /\ b \in Seq(GateKey) /\ Len(a) \in Nat /\ Len(b) \in Nat
  BY GateAddress
<1> DEFINE D == {n \in 0..(Len(a) - 1) : n < Len(b) /\ a[n + 1] # b[n + 1]}
           d == Min(D)
<1>2. ASSUME NEW x \in Seq(GateKey), NEW y \in Seq(GateKey), NEW k \in Nat, k <= Len(x), k <= Len(y),
             \A n \in 0..(k - 1) : x[n + 1] = y[n + 1]
      PROVE  SubSeq(x, 1, k) = SubSeq(y, 1, k)
  <2> DEFINE p == SubSeq(x, 1, k)
             q == SubSeq(y, 1, k)
  <2>1. k \in 0..Len(x) /\ k \in 0..Len(y)
    BY <1>2, LenProperties
  <2>2. /\ p \in Seq(GateKey) /\ Len(p) = k /\ \A i \in 1..k : p[i] = x[i]
        /\ q \in Seq(GateKey) /\ Len(q) = k /\ \A i \in 1..k : q[i] = y[i]
    BY <2>1, Beginning
  <2> HIDE DEF p, q
  <2>3. \A i \in 1..k : x[i] = y[i]
    <3> SUFFICES ASSUME NEW i \in 1..k PROVE x[i] = y[i]
      OBVIOUS
    <3>1. i - 1 \in 0..(k - 1) /\ (i - 1) + 1 = i
      OBVIOUS
    <3> QED
      BY <1>2, <3>1
  <2>4. p = q
    BY <2>2, <2>3, SeqEqual
  <2> QED
    BY <2>4 DEF p, q
<1>3. D # {}
  <2> SUFFICES ASSUME D = {} PROVE FALSE
    OBVIOUS
  <2>1. \A n \in 0..(Len(a) - 1) : n < Len(b) => a[n + 1] = b[n + 1]
    OBVIOUS
  <2>2. CASE Len(a) <= Len(b)
    <3>1. ASSUME NEW n \in 0..(Len(a) - 1) PROVE b[n + 1] = a[n + 1]
      <4>1. n \in 0..(Len(a) - 1) /\ n < Len(b)
        BY <1>1, <2>2
      <4> QED
        BY <2>1, <4>1
    <3> DEFINE k == Len(a)
    <3>2. SubSeq(b, 1, k) = SubSeq(a, 1, k)
      <4>1. k \in Nat /\ k <= Len(a) /\ k <= Len(b) /\ \A n \in 0..(k - 1) : b[n + 1] = a[n + 1]
        BY <1>1, <2>2, <3>1
      <4> HIDE DEF k
      <4> QED
        BY <1>1, <1>2, <4>1
    <3>3. SubSeq(a, 1, k) = a
      BY <1>1, SubSeqFull
    <3> QED
      BY <2>2, <3>2, <3>3
  <2>3. CASE Len(b) <= Len(a)
    <3>1. ASSUME NEW n \in 0..(Len(b) - 1) PROVE a[n + 1] = b[n + 1]
      <4>1. n \in 0..(Len(a) - 1) /\ n < Len(b)
        BY <1>1, <2>3
      <4> QED
        BY <2>1, <4>1
    <3> DEFINE k == Len(b)
    <3>2. SubSeq(a, 1, k) = SubSeq(b, 1, k)
      <4>1. k \in Nat /\ k <= Len(a) /\ k <= Len(b) /\ \A n \in 0..(k - 1) : a[n + 1] = b[n + 1]
        BY <1>1, <2>3, <3>1
      <4> HIDE DEF k
      <4> QED
        BY <1>1, <1>2, <4>1
    <3>3. SubSeq(b, 1, k) = b
      BY <1>1, SubSeqFull
    <3> QED
      BY <2>3, <3>2, <3>3
  <2> QED
    BY <1>1, <2>2, <2>3
<1>4. d \in D /\ \A n \in D : d <= n
  <2>1. D \in SUBSET (0..(Len(a) - 1)) /\ D \in SUBSET Nat
    OBVIOUS
  <2>2. IsFiniteSet(0..(Len(a) - 1))
    BY <1>1, FS_Interval
  <2> HIDE DEF D
  <2>3. IsFiniteSet(D)
    BY <2>1, <2>2, FS_Subset
  <2> QED
    BY <1>3, <2>1, <2>3, LeastIndex
<1> HIDE DEF d
<1>5. d \in Nat /\ d < Len(a) /\ d < Len(b) /\ a[d + 1] # b[d + 1]
  BY <1>1, <1>4
<1>6. SubSeq(a, 1, d) = SubSeq(b, 1, d)
  <2>1. \A n \in 0..(d - 1) : a[n + 1] = b[n + 1]
    <3> SUFFICES ASSUME NEW n \in 0..(d - 1) PROVE a[n + 1] = b[n + 1]
      OBVIOUS
    <3>1. n \in 0..(Len(a) - 1) /\ n < Len(b) /\ ~(d <= n)
      BY <1>1, <1>5
    <3> QED
      BY <1>4, <3>1
  <2> QED
    BY <1>1, <1>2, <1>5, <2>1
<1>7. d \in 0..(Len(a) - 1) /\ d \in 0..(Len(b) - 1)
  BY <1>1, <1>5
<1> DEFINE p == SubSeq(a, 1, d)
           keys == body[p].keys
<1>8. p \in DOMAIN body /\ a[d + 1] \in ToSet(keys) /\ b[d + 1] \in ToSet(keys)
  <2>1. p \in DOMAIN body /\ a[d + 1] \in ToSet(keys)
    BY <1>7, GateAddress
  <2>2. b[d + 1] \in ToSet(body[SubSeq(b, 1, d)].keys)
    BY <1>7, GateAddress
  <2> QED
    BY <1>6, <2>1, <2>2
<1>9. PICK i \in DOMAIN keys, j \in DOMAIN keys : keys[i] = a[d + 1] /\ keys[j] = b[d + 1]
  BY <1>8 DEF ToSet
<1>10. i < j \/ j < i
  <2>1. keys \in Seq(GateKey)
    BY <1>8, GateAddress
  <2> HIDE DEF keys
  <2>2. i \in Int /\ j \in Int
    BY <2>1
  <2> QED
    BY <1>5, <1>9, <2>2
<1>11. CASE i < j
  BY <1>5, <1>6, <1>7, <1>9, <1>11 DEF Precedes
<1>12. CASE j < i
  <2>1. keys = body[SubSeq(b, 1, d)].keys
    BY <1>6
  <2> QED
    BY <1>5, <1>6, <1>7, <1>9, <1>12, <2>1 DEF Precedes
<1> QED
  BY <1>10, <1>11, <1>12

\* Going on by one key, and back.
LEMMA AppendAddress ==
  ASSUME NEW S, NEW a \in Seq(S), NEW k \in S
  PROVE  /\ Append(a, k) # <<>> /\ Front(Append(a, k)) = a /\ Last(Append(a, k)) = k
         /\ Len(Append(a, k)) = Len(a) + 1
         /\ \A n \in 0..Len(a) : SubSeq(Append(a, k), 1, n) = SubSeq(a, 1, n)
<1> DEFINE b == Append(a, k)
           l == Len(a)
<1>1. /\ b \in Seq(S) /\ Len(b) = l + 1 /\ l \in Nat
      /\ \A i \in 1..l : b[i] = a[i]
      /\ b[l + 1] = k
  BY AppendProperties, LenProperties
<1>2. b # <<>>
  BY AppendProperties
<1> HIDE DEF b
<1>3. \A n \in 0..l : SubSeq(b, 1, n) = SubSeq(a, 1, n)
  <2> SUFFICES ASSUME NEW n \in 0..l PROVE SubSeq(b, 1, n) = SubSeq(a, 1, n)
    OBVIOUS
  <2> DEFINE p == SubSeq(b, 1, n)
             q == SubSeq(a, 1, n)
  <2>1. n \in 0..Len(b) /\ n \in 0..Len(a) /\ n \in Nat
    BY <1>1
  <2>2. /\ p \in Seq(S) /\ Len(p) = n /\ \A i \in 1..n : p[i] = b[i]
        /\ q \in Seq(S) /\ Len(q) = n /\ \A i \in 1..n : q[i] = a[i]
    BY <1>1, <2>1, Beginning
  <2>3. \A i \in 1..n : i \in 1..l
    BY <1>1, <2>1
  <2> HIDE DEF p, q, l
  <2>4. \A i \in 1..n : p[i] = q[i]
    BY <1>1, <2>2, <2>3
  <2>5. p = q
    BY <2>2, <2>4, SeqEqual
  <2> QED
    BY <2>5 DEF p, q
<1>4. Front(b) = a
  <2>1. Len(b) - 1 = l /\ l \in 0..l
    BY <1>1
  <2>2. SubSeq(b, 1, l) = SubSeq(a, 1, l) /\ SubSeq(a, 1, l) = a
    BY <1>3, <2>1, SubSeqFull
  <2> QED
    BY <2>1, <2>2 DEF Front
<1>5. Last(b) = k
  BY <1>1 DEF Last
<1> QED
  BY <1>1, <1>2, <1>3, <1>4, <1>5 DEF b

\* The way to what _collect takes goes through lists and dicts that it opens.
WayIsRead(body, b) ==
  \A n \in 0..(Len(b) - 1) :
    IsArray(body, SubSeq(b, 1, n)) \/ IsObject(body, SubSeq(b, 1, n))

\* What _collect takes is text under a code key.
LEMMA TakenIs ==
  ASSUME NEW body, IsGateBody(body), NEW a \in Visited(body), NEW b \in CodeTaken(body, a)
  PROVE  /\ b \in DOMAIN body /\ b # <<>> /\ Last(b) \in DOMAIN Hint /\ IsText(body[b])
         /\ WayIsRead(body, b)
<1>1. a \in DOMAIN body /\ \A n \in 0..(Len(a) - 1) : GoesOn(body, SubSeq(a, 1, n), a[n + 1])
  BY DEF Visited
<1>2. a \in Seq(GateKey) /\ Len(a) \in Nat /\ body[a].keys \in Seq(GateKey)
      /\ \A k \in ToSet(body[a].keys) : Append(a, k) \in DOMAIN body /\ k \in GateKey
  BY <1>1, GateAddress
<1>3. \A n \in 0..(Len(a) - 1) :
        IsArray(body, SubSeq(a, 1, n)) \/ IsObject(body, SubSeq(a, 1, n))
  BY <1>1 DEF GoesOn
<1>4. CASE IsObject(body, a)
  <2> DEFINE T == Texts(body, a)
             k == FirstOf(body[a].keys, T)
  <2>1. T # {} /\ b = Append(a, k)
    BY <1>4 DEF CodeTaken
  <2>2. T \subseteq ToSet(body[a].keys)
    BY DEF Texts, Coded
  <2>3. k \in T
    <3>1. PICK j \in T : j \in ToSet(body[a].keys)
      BY <2>1, <2>2
    <3> HIDE DEF T
    <3> QED
      BY <1>2, <3>1, FirstOfIs
  <2>4. k \in ToSet(body[a].keys)
    BY <2>2, <2>3
  <2> HIDE DEF k
  <2>5. k \in DOMAIN Hint /\ IsText(body[Append(a, k)])
    BY <2>3 DEF Texts, Coded
  <2>6. b \in DOMAIN body /\ k \in GateKey
    BY <1>2, <2>1, <2>4
  <2>7. /\ b # <<>> /\ Front(b) = a /\ Last(b) = k /\ Len(b) = Len(a) + 1
        /\ \A n \in 0..Len(a) : SubSeq(b, 1, n) = SubSeq(a, 1, n)
    BY <1>2, <2>1, <2>6, AppendAddress
  <2>9. WayIsRead(body, b)
    <3> SUFFICES ASSUME NEW n \in 0..(Len(b) - 1)
                 PROVE  IsArray(body, SubSeq(b, 1, n)) \/ IsObject(body, SubSeq(b, 1, n))
      BY DEF WayIsRead
    <3>1. n \in 0..Len(a)
      BY <1>2, <2>7
    <3>2. SubSeq(b, 1, n) = SubSeq(a, 1, n)
      BY <2>7, <3>1
    <3>3. CASE n = Len(a)
      <4>1. SubSeq(a, 1, n) = a
        BY <1>2, <3>3, SubSeqFull
      <4> QED
        BY <1>4, <3>2, <4>1
    <3>4. CASE n # Len(a)
      <4>1. n \in 0..(Len(a) - 1)
        BY <1>2, <3>1, <3>4
      <4> QED
        BY <1>3, <3>2, <4>1
    <3> QED
      BY <3>3, <3>4
  <2> QED
    BY <2>1, <2>5, <2>6, <2>7, <2>9
<1>5. CASE ~IsObject(body, a)
  <2>1. /\ b = a /\ b # <<>> /\ IsText(body[b]) /\ Last(b) \in DOMAIN Hint
    BY <1>5 DEF CodeTaken
  <2>2. WayIsRead(body, b)
    BY <1>3, <2>1 DEF WayIsRead
  <2> QED
    BY <1>1, <2>1, <2>2
<1> QED
  BY <1>4, <1>5

\* So it stands where the code of the body stands.
LEMMA FoundIsCode ==
  ASSUME NEW body, IsGateBody(body), NEW b \in CodeFound(body)
  PROVE  b \in CodeAt(body) /\ WayIsRead(body, b)
<1>1. PICK a \in Visited(body) : b \in CodeTaken(body, a)
  BY DEF CodeFound
<1>2. /\ b \in DOMAIN body /\ b # <<>> /\ Last(b) \in DOMAIN Hint /\ IsText(body[b])
      /\ WayIsRead(body, b)
  BY <1>1, TakenIs
<1>3. b \in Seq(GateKey) /\ Len(b) \in Nat
  BY <1>2, GateAddress
<1>4. ASSUME NEW n \in 0..(Len(b) - 1)
      PROVE  \/ body[SubSeq(b, 1, n)].kind \in {"dict", "list"}
             \/ body[SubSeq(b, 1, n)].kind \in {"text", "textlist"} /\ (n = 0 \/ b[n] \in JsonKey)
  <2> DEFINE d == SubSeq(b, 1, n)
  <2>1. n \in 0..Len(b)
    BY <1>3
  <2>2. d \in Seq(GateKey) /\ Len(d) = n /\ \A i \in 1..n : d[i] = b[i]
    BY <1>3, <2>1, Beginning
  <2>3. IsArray(body, d) \/ IsObject(body, d)
    BY <1>2 DEF WayIsRead
  <2> HIDE DEF d
  <2>4. CASE Opened(body, d) /\ n # 0
    <3>1. d # <<>>
      BY <2>2, <2>4, EmptySeq
    <3>2. Last(d) \in JsonKey
      BY <2>4, <3>1 DEF Opened
    <3>3. Last(d) = b[n]
      <4>1. n \in 1..n
        BY <2>4
      <4> QED
        BY <2>2, <4>1 DEF Last
    <3> QED
      BY <2>3, <3>2, <3>3 DEF IsArray, IsObject, d
  <2>5. CASE Opened(body, d) /\ n = 0
    BY <2>3, <2>5 DEF IsArray, IsObject, d
  <2> QED
    BY <2>3, <2>4, <2>5 DEF IsArray, IsObject, d
<1>5. b \in CodeAt(body)
  BY <1>2, <1>4 DEF CodeAt
<1> QED
  BY <1>2, <1>5

\* No code that is found lies below other code that is.
LEMMA FoundNotBelow ==
  ASSUME NEW body, IsGateBody(body), NEW a \in CodeFound(body), NEW b \in CodeFound(body),
         Len(a) <= Len(b), SubSeq(b, 1, Len(a)) = a
  PROVE  a = b
<1>1. /\ a \in CodeAt(body) /\ b \in CodeAt(body) /\ WayIsRead(body, b)
  BY FoundIsCode
<1>2. /\ a \in DOMAIN body /\ b \in DOMAIN body /\ a # <<>>
      /\ Last(a) \in DOMAIN Hint /\ IsText(body[a])
  BY <1>1 DEF CodeAt
<1>3. Len(a) \in Nat /\ Len(b) \in Nat /\ b \in Seq(GateKey)
  BY <1>2, GateAddress
<1>4. CASE Len(a) = Len(b)
  <2>1. SubSeq(b, 1, Len(b)) = b
    BY <1>3, SubSeqFull
  <2> QED
    BY <1>4, <2>1
<1>5. CASE Len(a) # Len(b)
  <2>1. Len(a) \in 0..(Len(b) - 1)
    BY <1>3, <1>5
  <2>2. IsArray(body, a) \/ IsObject(body, a)
    BY <1>1, <2>1 DEF WayIsRead
  <2>3. Opened(body, a)
    BY <1>2, <2>2 DEF IsArray, IsObject, IsText, StringLike
  <2>4. Last(a) \in JsonKey
    BY <1>2, <2>3 DEF Opened
  <2> QED
    BY <1>2, <2>4, GateAssumption
<1> QED
  BY <1>4, <1>5

\* On a plain way a string under a key of tool arguments is parsed,
LEMMA PlainIsOpen ==
  ASSUME NEW body, IsGateBody(body), NEW a \in CodeAt(body), PlainWay(body, a),
         NEW n \in 0..(Len(a) - 1), n = 0 \/ a[n] \in JsonKey
  PROVE  Opened(body, SubSeq(a, 1, n))
<1>1. a \in DOMAIN body
  BY DEF CodeAt
<1>2. a \in Seq(GateKey) /\ Len(a) \in Nat
  BY <1>1, GateAddress
<1> DEFINE d == SubSeq(a, 1, n)
<1>3. n \in 0..Len(a)
  BY <1>2
<1>4. d \in Seq(GateKey) /\ Len(d) = n /\ \A i \in 1..n : d[i] = a[i]
  BY <1>2, <1>3, Beginning
<1>5. CASE n = 0
  <2>1. d = <<>>
    BY <1>4, <1>5, EmptySeq
  <2> QED
    BY <2>1 DEF Opened
<1>6. CASE n # 0
  <2> DEFINE m == n - 1
             e == SubSeq(a, 1, m)
  <2>1. m \in 0..(Len(a) - 1) /\ m + 1 = n /\ m \in 0..n
    BY <1>2, <1>6
  <2>2. Last(d) = a[n] /\ Front(d) = e
    <3>1. SubSeq(d, 1, m) = e
      BY <1>2, <1>3, <2>1, Beginning
    <3>2. n \in 1..n
      BY <1>6
    <3> QED
      BY <1>4, <3>1, <3>2 DEF Last, Front
  <2>3. a[n] \in JsonKey /\ a[n] \in ToSet(body[e].keys) /\ e \in DOMAIN body
    BY <1>1, <1>6, <2>1, GateAddress
  <2>4. ~ListLike(body[e])
    BY <2>3, GateAddress
  <2>5. Coded(body, e) \subseteq {a[n]}
    BY <2>1, <2>4 DEF PlainWay
  <2>6. ContainerLang(body, e) = NoLang
    <3>1. a[n] \notin DOMAIN Hint
      BY <2>3, GateAssumption
    <3>2. Coded(body, e) = {}
      BY <2>5, <3>1 DEF Coded
    <3> QED
      BY <3>2 DEF ContainerLang
  <2> QED
    BY <2>2, <2>3, <2>6 DEF Opened
<1> QED
  BY <1>5, <1>6

\* and every list and dict is read, and none is the container of any code but
\* what the way leads to.
LEMMA PlainStep ==
  ASSUME NEW body, IsGateBody(body), NEW a \in CodeAt(body), PlainWay(body, a),
         NEW n \in 0..(Len(a) - 1)
  PROVE  /\ ListLike(body[SubSeq(a, 1, n)]) => IsArray(body, SubSeq(a, 1, n))
         /\ ~ListLike(body[SubSeq(a, 1, n)]) =>
              /\ IsObject(body, SubSeq(a, 1, n))
              /\ a[n + 1] \notin DOMAIN Hint => ContainerLang(body, SubSeq(a, 1, n)) = NoLang
              /\ a[n + 1] \in DOMAIN Hint =>
                   /\ Coded(body, SubSeq(a, 1, n)) = {a[n + 1]}
                   /\ ContainerLang(body, SubSeq(a, 1, n)) = Hint[a[n + 1]]
<1>1. a \in DOMAIN body
  BY DEF CodeAt
<1> DEFINE d == SubSeq(a, 1, n)
           k == a[n + 1]
<1>2. d \in DOMAIN body /\ k \in ToSet(body[d].keys)
  BY <1>1, GateAddress
<1>3. /\ ListLike(body[d]) => IsArray(body, d)
      /\ ~ListLike(body[d]) => IsObject(body, d)
  <2>1. \/ body[d].kind \in {"dict", "list"}
        \/ body[d].kind \in {"text", "textlist"} /\ (n = 0 \/ a[n] \in JsonKey)
    BY DEF CodeAt
  <2>2. n = 0 \/ a[n] \in JsonKey => Opened(body, d)
    BY PlainIsOpen
  <2> HIDE DEF d
  <2> QED
    BY <2>1, <2>2 DEF ListLike, IsArray, IsObject
<1>4. CASE ListLike(body[d])
  BY <1>3, <1>4
<1>5. CASE ~ListLike(body[d])
  <2>1. Declares(body, d) = NoLang /\ Coded(body, d) \subseteq {k}
    BY <1>5 DEF PlainWay
  <2> HIDE DEF d, k
  <2>2. k \notin DOMAIN Hint => ContainerLang(body, d) = NoLang
    <3>1. k \notin DOMAIN Hint => Coded(body, d) = {}
      BY <2>1 DEF Coded
    <3> QED
      BY <3>1 DEF ContainerLang
  <2>3. ASSUME k \in DOMAIN Hint
        PROVE  Coded(body, d) = {k} /\ ContainerLang(body, d) = Hint[k]
    <3>1. Coded(body, d) = {k}
      BY <1>2, <2>1, <2>3 DEF Coded
    <3> DEFINE f == FirstOf(body[d].keys, DOMAIN Hint)
    <3>2. body[d].keys \in Seq(GateKey)
      BY <1>2, GateAddress
    <3>3. f \in DOMAIN Hint /\ f \in ToSet(body[d].keys)
      BY <1>2, <2>3, <3>2, FirstOfIs
    <3>4. f = k
      BY <3>1, <3>3 DEF Coded
    <3>5. ContainerLang(body, d) = Hint[f]
      BY <2>1, <3>1 DEF ContainerLang
    <3> HIDE DEF f
    <3> QED
      BY <3>1, <3>4, <3>5
  <2> QED
    BY <1>3, <1>5, <2>2, <2>3 DEF d, k
<1> QED
  BY <1>4, <1>5 DEF d, k

\* _collect finds what stands in plain sight.
LEMMA PlainIsFound ==
  ASSUME NEW body, IsGateBody(body), NEW a \in CodeAt(body), PlainWay(body, a)
  PROVE  a \in CodeFound(body)
<1>1. /\ a \in DOMAIN body /\ a # <<>> /\ Last(a) \in DOMAIN Hint /\ IsText(body[a])
      /\ \A n \in 0..(Len(a) - 1) :
           \/ body[SubSeq(a, 1, n)].kind \in {"dict", "list"}
           \/ body[SubSeq(a, 1, n)].kind \in {"text", "textlist"} /\ (n = 0 \/ a[n] \in JsonKey)
  BY DEF CodeAt
<1>2. a \in Seq(GateKey) /\ Len(a) \in Nat
  BY <1>1, GateAddress
<1> DEFINE f == Front(a)
           k == Last(a)
           l == Len(a) - 1
<1>3. /\ l \in 0..(Len(a) - 1) /\ l \in 0..Len(a) /\ l \in Nat
      /\ f = SubSeq(a, 1, l) /\ k = a[l + 1]
      /\ f \in Seq(GateKey) /\ Len(f) = l /\ Append(f, k) = a
  BY <1>1, <1>2, FrontLast
<1>4. f \in DOMAIN body
  BY <1>1, <1>3, GateAddress
<1>5. ~ListLike(body[f]) /\ k \in DOMAIN Hint
  <2>1. k \in ToSet(body[f].keys)
    <3>1. a[l + 1] \in ToSet(body[SubSeq(a, 1, l)].keys)
      BY <1>1, <1>3, GateAddress
    <3> QED
      BY <1>3, <3>1
  <2>2. k \in DOMAIN Hint
    BY <1>1
  <2> HIDE DEF f, k
  <2>3. ListLike(body[f]) => ToSet(body[f].keys) \cap (JsonKey \cup DOMAIN Hint) = {}
    BY <1>4, GateAddress
  <2> QED
    BY <2>1, <2>2, <2>3
<1> HIDE DEF f, k, l
<1>6. IsObject(body, f) /\ Coded(body, f) = {k} /\ ContainerLang(body, f) = Hint[k]
  BY <1>3, <1>5, PlainStep
<1>7. CodeTaken(body, f) = {a}
  <2>1. Texts(body, f) = {k}
    BY <1>1, <1>3, <1>6 DEF Texts
  <2>2. FirstOf(body[f].keys, Texts(body, f)) = k
    <3>1. k \in ToSet(body[f].keys)
      BY <1>6 DEF Coded
    <3>2. body[f].keys \in Seq(GateKey)
      BY <1>4, GateAddress
    <3>3. FirstOf(body[f].keys, {k}) \in {k}
      BY <3>1, <3>2, FirstOfIs
    <3> QED
      BY <2>1, <3>3
  <2> QED
    BY <1>3, <1>6, <2>1, <2>2 DEF CodeTaken
<1>8. ASSUME NEW n \in 0..(l - 1)
      PROVE  GoesOn(body, SubSeq(f, 1, n), f[n + 1])
  <2> DEFINE d == SubSeq(a, 1, n)
             j == a[n + 1]
  <2>1. n \in 0..l /\ n + 1 \in 1..l /\ n \in 0..(Len(a) - 1) /\ n + 1 \in 0..(Len(a) - 1)
        /\ n + 1 # 0
    BY <1>2, <1>3
  <2>2. SubSeq(f, 1, n) = d /\ f[n + 1] = j
    BY <1>2, <1>3, <2>1, Beginning
  <2>3. CASE ListLike(body[d])
    <3>1. IsArray(body, d)
      BY <2>1, <2>3, PlainStep
    <3> QED
      BY <2>2, <3>1 DEF GoesOn
  <2>4. CASE ~ListLike(body[d])
    <3>1. /\ IsObject(body, d)
          /\ j \notin DOMAIN Hint => ContainerLang(body, d) = NoLang
          /\ j \in DOMAIN Hint => Coded(body, d) = {j} /\ ContainerLang(body, d) = Hint[j]
      BY <2>1, <2>4, PlainStep
    <3>2. ASSUME j \in DOMAIN Hint PROVE Texts(body, d) = {}
      <4>1. Append(d, j) = SubSeq(a, 1, n + 1)
        BY <1>2, <2>1, BeginningNext
      <4>2. j \notin JsonKey
        BY <3>2, GateAssumption
      <4>3. body[SubSeq(a, 1, n + 1)].kind \in {"dict", "list"}
        BY <1>1, <2>1, <4>2
      <4>4. ~IsText(body[Append(d, j)])
        BY <4>1, <4>3 DEF IsText, StringLike
      <4> HIDE DEF d, j
      <4> QED
        BY <3>1, <3>2, <4>4 DEF Texts
    <3> HIDE DEF d, j
    <3> QED
      BY <2>2, <3>1, <3>2 DEF GoesOn
  <2> QED
    BY <2>3, <2>4
<1>9. ~TooDeep(Len(f))
  <2>1. Len(a) <= MaxDepth + 1 /\ MaxDepth \in Nat
    BY GateAssumption DEF PlainWay
  <2>2. l <= MaxDepth
    BY <1>2, <2>1 DEF l
  <2> QED
    BY <1>3, <2>1, <2>2 DEF TooDeep
<1>10. f \in Visited(body)
  BY <1>3, <1>4, <1>8, <1>9 DEF Visited
<1> QED
  BY <1>7, <1>10 DEF CodeFound

\* What extract returns of what stands at an address.
Fragment(body, a) == [lang |-> Hint[Last(a)], code |-> Cut(body[a].val)]

\* extract returns all that is found, unless there is more than it reads.
LEMMA ExtractIs ==
  ASSUME NEW body, IsGateBody(body)
  PROVE  LET fragments == Extract(body)
         IN  /\ \A i \in DOMAIN fragments : \E a \in CodeFound(body) : fragments[i] = Fragment(body, a)
             /\ \/ Len(fragments) = MaxFragments
                \/ \A a \in CodeFound(body) : \E i \in DOMAIN fragments : fragments[i] = Fragment(body, a)
<1> DEFINE S == CodeFound(body)
           R == {e \in S \X S : Precedes(body, e[1], e[2])}
           N == Cardinality(S)
           M == Min({MaxFragments, N})
           fragments == Extract(body)
<1>1. S \subseteq DOMAIN body /\ IsFiniteSet(DOMAIN body)
  BY FoundIsCode DEF IsGateBody, CodeAt
<1>2. \A a, b \in S : <<a, b>> \in R <=> Precedes(body, a, b)
  OBVIOUS
<1>3. fragments = [n \in 1..M |-> Fragment(body, AtRank(S, R, n))]
  BY DEF Extract, Fragment
<1> HIDE DEF R, fragments
<1>4. IsFiniteSet(S) /\ N \in Nat
  <2>1. IsFiniteSet(S)
    BY <1>1, FS_Subset
  <2> QED
    BY <2>1, FS_CardinalityType
<1>5. /\ \A a \in S : <<a, a>> \notin R
      /\ \A a, b, c \in S : <<a, b>> \in R /\ <<b, c>> \in R => <<a, c>> \in R
      /\ \A a, b \in S : a # b => <<a, b>> \in R \/ <<b, a>> \in R
  <2>1. \A a \in S : <<a, a>> \notin R
    BY <1>1, <1>2, PrecedesNotItself
  <2>2. \A a, b, c \in S : <<a, b>> \in R /\ <<b, c>> \in R => <<a, c>> \in R
    <3> SUFFICES ASSUME NEW a \in S, NEW b \in S, NEW c \in S, <<a, b>> \in R, <<b, c>> \in R
                 PROVE  <<a, c>> \in R
      OBVIOUS
    <3>1. Precedes(body, a, b) /\ Precedes(body, b, c)
      BY <1>2
    <3>2. a \in DOMAIN body /\ b \in DOMAIN body /\ c \in DOMAIN body
      BY <1>1
    <3>3. Precedes(body, a, c)
      BY <3>1, <3>2, PrecedesOn
    <3> QED
      BY <1>2, <3>3
  <2>3. \A a, b \in S : a # b => <<a, b>> \in R \/ <<b, a>> \in R
    <3> SUFFICES ASSUME NEW a \in S, NEW b \in S, a # b
                 PROVE  <<a, b>> \in R \/ <<b, a>> \in R
      OBVIOUS
    <3>1. a \in DOMAIN body /\ b \in DOMAIN body
      BY <1>1
    <3>2. /\ ~(Len(a) <= Len(b) /\ SubSeq(b, 1, Len(a)) = a)
          /\ ~(Len(b) <= Len(a) /\ SubSeq(a, 1, Len(b)) = b)
      BY FoundNotBelow
    <3>3. Precedes(body, a, b) \/ Precedes(body, b, a)
      BY <3>1, <3>2, PrecedesEither
    <3> QED
      BY <1>2, <3>3
  <2> QED
    BY <2>1, <2>2, <2>3
<1> HIDE DEF S
<1>6. /\ \A n \in 1..N : AtRank(S, R, n) \in S
      /\ \A a \in S : \E n \in 1..N : AtRank(S, R, n) = a
  BY <1>4, <1>5, Ranking
<1>7. M \in Nat /\ M <= N /\ (M = MaxFragments \/ M = N)
  <2>1. MaxFragments \in Nat
    BY GateAssumption
  <2> DEFINE P == {MaxFragments, N}
  <2>2. P \in SUBSET Nat /\ IsFiniteSet(P) /\ P # {}
    <3>1. P = {N} \cup {MaxFragments}
      OBVIOUS
    <3>2. IsFiniteSet({N} \cup {MaxFragments})
      BY FS_Singleton, FS_AddElement
    <3> QED
      BY <1>4, <2>1, <3>1, <3>2
  <2>3. N \in P /\ \A x \in P : x = MaxFragments \/ x = N
    OBVIOUS
  <2> HIDE DEF P, N
  <2>4. Min(P) \in P /\ \A n \in P : Min(P) <= n
    BY <2>2, LeastIndex
  <2> QED
    BY <2>2, <2>3, <2>4 DEF P
<1> HIDE DEF M
<1>8. DOMAIN fragments = 1..M /\ Len(fragments) = M
  <2> DEFINE V == {Fragment(body, AtRank(S, R, n)) : n \in 1..M}
  <2>1. fragments \in [1..M -> V]
    BY <1>3
  <2> HIDE DEF V
  <2>2. fragments \in Seq(V) /\ Len(fragments) = M
    BY <1>7, <2>1
  <2> QED
    BY <2>1, <2>2
<1>9. \A i \in DOMAIN fragments : \E a \in S : fragments[i] = Fragment(body, a)
  <2> SUFFICES ASSUME NEW i \in 1..M PROVE \E a \in S : fragments[i] = Fragment(body, a)
    BY <1>8
  <2>1. i \in 1..N
    BY <1>4, <1>7
  <2>2. fragments[i] = Fragment(body, AtRank(S, R, i))
    BY <1>3
  <2> QED
    BY <1>6, <2>1, <2>2
<1>10. ASSUME M = N
       PROVE  \A a \in S : \E i \in DOMAIN fragments : fragments[i] = Fragment(body, a)
  <2> SUFFICES ASSUME NEW a \in S PROVE \E i \in 1..M : fragments[i] = Fragment(body, a)
    BY <1>8
  <2>1. PICK i \in 1..N : AtRank(S, R, i) = a
    BY <1>6
  <2>2. i \in 1..M
    BY <1>10, <2>1
  <2>3. fragments[i] = Fragment(body, AtRank(S, R, i))
    BY <1>3, <2>2
  <2> QED
    BY <2>1, <2>2, <2>3
<1> QED
  BY <1>7, <1>8, <1>9, <1>10 DEF S, fragments

\* Between requests, and after a check: what the fragments and the answer are.
GateInv ==
  /\ gateBody = <<>> => gateFragments = <<>>
  /\ gateBody # <<>> =>
       \E body \in GateBody :
         /\ gateBody = <<body>>
         /\ gateFragments = Extract(body)
         /\ gateBlocks = \E i \in DOMAIN gateFragments :
                           Dangerous(gateFragments[i].lang, gateFragments[i].code)

\* There is no request at the start.
LEMMA GateInvInit == GateInit => GateInv
BY DEF GateInit, GateInv

\* A check leaves what it computed.
LEMMA GateInvStep == GateInv /\ [GateNext]_gateVars => GateInv'
<1> SUFFICES ASSUME GateInv, [GateNext]_gateVars PROVE GateInv'
  OBVIOUS
<1>1. ASSUME NEW body \in GateBody, CheckRequest(body) PROVE GateInv'
  BY <1>1 DEF CheckRequest, GateInv
<1>2. CASE GateDone
  BY <1>2 DEF GateDone, GateInv
<1>3. CASE UNCHANGED gateVars
  BY <1>3 DEF gateVars, GateInv
<1> QED
  BY <1>1, <1>2, <1>3 DEF GateNext

\* extract and check_request, whatever the bodies, the keys, the languages, the
\* limits and the code.
THEOREM GateInvariant == GateSpec => []GateInv
BY GateInvInit, GateInvStep, PTL DEF GateSpec

\* AST gate: dangerous code in plain sight is blocked unless the fragments are
\* full, and only code under a key of its language blocks, for any body.
THEOREM GateSees == GateSpec => []GateSeesCode
<1>1. GateInv => GateSeesCode
  <2> SUFFICES ASSUME GateInv, gateBody # <<>>
               PROVE  LET body == gateBody[1]
                          bad == {a \in CodeAt(body) : Dangerous(Hint[Last(a)], Cut(body[a].val))}
                      IN  /\ ~gateBlocks => \/ \A a \in bad : ~PlainWay(body, a)
                                            \/ Len(gateFragments) = MaxFragments
                          /\ gateBlocks => bad # {}
    BY DEF GateSeesCode
  <2>1. PICK body \in GateBody :
          /\ gateBody = <<body>>
          /\ gateFragments = Extract(body)
          /\ gateBlocks = \E i \in DOMAIN gateFragments :
                            Dangerous(gateFragments[i].lang, gateFragments[i].code)
    BY DEF GateInv
  <2>2. gateBody[1] = body
    BY <2>1
  <2> DEFINE bad == {a \in CodeAt(body) : Dangerous(Hint[Last(a)], Cut(body[a].val))}
  <2>3. IsGateBody(body)
    BY GateAssumption
  <2>4. /\ \A i \in DOMAIN gateFragments : \E a \in CodeFound(body) : gateFragments[i] = Fragment(body, a)
        /\ \/ Len(gateFragments) = MaxFragments
           \/ \A a \in CodeFound(body) : \E i \in DOMAIN gateFragments : gateFragments[i] = Fragment(body, a)
    BY <2>1, <2>3, ExtractIs
  <2>5. \A a : Fragment(body, a).lang = Hint[Last(a)] /\ Fragment(body, a).code = Cut(body[a].val)
    BY DEF Fragment
  <2>6. gateBlocks => bad # {}
    <3> SUFFICES ASSUME gateBlocks PROVE bad # {}
      OBVIOUS
    <3>1. PICK i \in DOMAIN gateFragments : Dangerous(gateFragments[i].lang, gateFragments[i].code)
      BY <2>1
    <3>2. PICK a \in CodeFound(body) : gateFragments[i] = Fragment(body, a)
      BY <2>4
    <3>3. Dangerous(Hint[Last(a)], Cut(body[a].val))
      BY <2>5, <3>1, <3>2, Zenon
    <3>4. a \in CodeAt(body)
      BY <2>3, <3>2, FoundIsCode
    <3> QED
      BY <3>3, <3>4
  <2>7. ASSUME ~gateBlocks, Len(gateFragments) # MaxFragments, NEW a \in bad, PlainWay(body, a)
        PROVE  FALSE
    <3>1. a \in CodeAt(body) /\ Dangerous(Hint[Last(a)], Cut(body[a].val))
      BY <2>7
    <3>2. a \in CodeFound(body)
      BY <2>3, <2>7, <3>1, PlainIsFound
    <3>3. PICK i \in DOMAIN gateFragments : gateFragments[i] = Fragment(body, a)
      BY <2>4, <2>7, <3>2
    <3>4. Dangerous(gateFragments[i].lang, gateFragments[i].code)
      BY <2>5, <3>1, <3>3, Zenon
    <3> QED
      BY <2>1, <2>7, <3>4
  <2> HIDE DEF bad
  <2>8. /\ ~gateBlocks => \/ \A a \in bad : ~PlainWay(body, a)
                          \/ Len(gateFragments) = MaxFragments
        /\ gateBlocks => bad # {}
    BY <2>6, <2>7
  <2> QED
    BY <2>2, <2>8 DEF bad
<1> QED
  BY <1>1, GateInvariant, PTL

-----------------------------------------------------------------------------
(* Trees and the values of their nodes                                     *)

\* The addresses of a tree: they are finite, its kids are there, and so is all
\* above them.
LEMMA TreeIs ==
  ASSUME NEW t, IsProgram(t)
  PROVE  /\ IsFiniteSet(DOMAIN t) /\ Cardinality(DOMAIN t) \in Nat
         /\ \A a \in DOMAIN t :
              /\ a \in Seq(Nat) /\ Len(a) \in Nat /\ Len(a) < Cardinality(DOMAIN t)
              /\ \A i \in 1..t[a].size : Append(a, i) \in DOMAIN t /\ Len(Append(a, i)) = Len(a) + 1
<1>1. IsFiniteSet(DOMAIN t) /\ Cardinality(DOMAIN t) \in Nat
  BY FS_CardinalityType DEF IsProgram, IsTree
<1>2. ASSUME NEW a \in DOMAIN t
      PROVE  /\ a \in Seq(Nat) /\ Len(a) \in Nat /\ Len(a) < Cardinality(DOMAIN t)
             /\ \A i \in 1..t[a].size : Append(a, i) \in DOMAIN t /\ Len(Append(a, i)) = Len(a) + 1
  <2>1. /\ a \in Seq(Nat) /\ Len(a) < Cardinality(DOMAIN t) /\ t[a].size \in Nat
        /\ \A i \in 1..t[a].size : Append(a, i) \in DOMAIN t
    BY DEF IsProgram, IsTree
  <2>2. ASSUME NEW i \in 1..t[a].size PROVE Len(Append(a, i)) = Len(a) + 1
    BY <2>1, AppendProperties
  <2> QED
    BY <2>1, <2>2, LenProperties
<1> QED
  BY <1>1, <1>2

\* What a set of nodes has that, with all kids of a node, has the node: all.
LEMMA FromBelow ==
  ASSUME NEW t, IsProgram(t), NEW S,
         \A a \in DOMAIN t : (\A i \in 1..t[a].size : Append(a, i) \in S) => a \in S
  PROVE  DOMAIN t \subseteq S
<1> DEFINE h == Cardinality(DOMAIN t)
           Deep(n) == {a \in DOMAIN t : Len(a) >= h - n}
           L == {n \in 0..h : Deep(n) \subseteq S}
<1>1. h \in Nat /\ \A a \in DOMAIN t : Len(a) \in Nat /\ Len(a) < h
  BY TreeIs
<1>2. 0 \in L
  BY <1>1
<1>3. ASSUME NEW n \in 0..(h - 1), n \in L PROVE n + 1 \in L
  <2>1. \A a \in DOMAIN t : \A i \in 1..t[a].size : Append(a, i) \in DOMAIN t /\ Len(Append(a, i)) = Len(a) + 1
    BY TreeIs
  <2>2. n + 1 \in 0..h /\ \A a \in Deep(n + 1) : \A i \in 1..t[a].size : Append(a, i) \in Deep(n)
    BY <1>1, <2>1
  <2>3. Deep(n) \subseteq S
    BY <1>3
  <2> HIDE DEF h
  <2>4. Deep(n + 1) \subseteq DOMAIN t
    OBVIOUS
  <2> HIDE DEF Deep
  <2> QED
    BY <2>2, <2>3, <2>4
<1>4. h \in L
  <2>1. h \in 0..h
    BY <1>1
  <2> HIDE DEF L, h
  <2> QED
    BY <1>1, <1>2, <1>3, <2>1, CountingUp DEF h
<1>5. DOMAIN t = Deep(h)
  <2>1. h - h = 0
    BY <1>1
  <2>2. \A a \in DOMAIN t : Len(a) >= 0
    BY <1>1
  <2> HIDE DEF h
  <2> QED
    BY <2>1, <2>2
<1> HIDE DEF Deep
<1> QED
  BY <1>4, <1>5

\* What FoldExpr is defined to be: every node folds from its kids.
LEMMA FoldIs ==
  ASSUME NEW t, IsProgram(t), NEW bindings
  PROVE  FoldExpr(t, bindings)
           = [a \in DOMAIN t |->
                Folded(t, a, [i \in 1..t[a].size |-> FoldExpr(t, bindings)[Append(a, i)]], bindings)]
<1> DEFINE h == Cardinality(DOMAIN t)
           Deep(n) == {a \in DOMAIN t : Len(a) >= h - n}
           From(a, kids) == Folded(t, a, kids, bindings)
           S == {n \in 0..h :
                   \E g : g = [a \in Deep(n) |-> From(a, [i \in 1..t[a].size |-> g[Append(a, i)]])]}
<1>1. /\ h \in Nat
      /\ \A a \in DOMAIN t : /\ Len(a) \in Nat /\ Len(a) < h
                             /\ \A i \in 1..t[a].size : Append(a, i) \in DOMAIN t /\ Len(Append(a, i)) = Len(a) + 1
  BY TreeIs
<1> HIDE DEF From
<1>2. 0 \in S
  <2>1. Deep(0) = {}
    BY <1>1
  <2> DEFINE g == [a \in Deep(0) |-> <<>>]
  <2>2. g = [a \in Deep(0) |-> From(a, [i \in 1..t[a].size |-> g[Append(a, i)]])]
    BY <2>1
  <2>3. 0 \in 0..h
    BY <1>1
  <2> HIDE DEF g, h, Deep
  <2> QED
    BY <2>2, <2>3
<1>3. ASSUME NEW n \in 0..(h - 1), n \in S PROVE n + 1 \in S
  <2>1. PICK g : g = [a \in Deep(n) |-> From(a, [i \in 1..t[a].size |-> g[Append(a, i)]])]
    BY <1>3
  <2> DEFINE k == [a \in Deep(n + 1) |-> From(a, [i \in 1..t[a].size |-> g[Append(a, i)]])]
  <2>2. /\ Deep(n) \subseteq Deep(n + 1) /\ n + 1 \in 0..h
        /\ \A a \in Deep(n + 1) : \A i \in 1..t[a].size : Append(a, i) \in Deep(n)
    BY <1>1
  <2> HIDE DEF Deep
  <2>3. \A a \in Deep(n) : k[a] = g[a]
    BY <2>1, <2>2
  <2>4. ASSUME NEW a \in Deep(n + 1)
        PROVE  From(a, [i \in 1..t[a].size |-> g[Append(a, i)]]) = From(a, [i \in 1..t[a].size |-> k[Append(a, i)]])
    <3>1. [i \in 1..t[a].size |-> g[Append(a, i)]] = [i \in 1..t[a].size |-> k[Append(a, i)]]
      <4> HIDE DEF k
      <4> QED
        BY <2>2, <2>3
    <3> QED
      BY <3>1
  <2>5. k = [a \in Deep(n + 1) |-> From(a, [i \in 1..t[a].size |-> k[Append(a, i)]])]
    <3>1. \A a \in Deep(n + 1) : k[a] = From(a, [i \in 1..t[a].size |-> k[Append(a, i)]])
      BY <2>4
    <3> QED
      BY <3>1
  <2> HIDE DEF k
  <2> QED
    BY <2>2, <2>5
<1>4. h \in S
  <2>1. h \in 0..h
    BY <1>1
  <2> HIDE DEF S, h
  <2> QED
    BY <1>1, <1>2, <1>3, <2>1, CountingUp DEF h
<1>5. DOMAIN t = Deep(h)
  <2>1. h - h = 0
    BY <1>1
  <2>2. \A a \in DOMAIN t : Len(a) >= 0
    BY <1>1
  <2> HIDE DEF h
  <2> QED
    BY <2>1, <2>2
<1>6. \E g : g = [a \in Deep(h) |-> From(a, [i \in 1..t[a].size |-> g[Append(a, i)]])]
  BY <1>4
<1> HIDE DEF Deep
<1>7. \E g : g = [a \in DOMAIN t |-> From(a, [i \in 1..t[a].size |-> g[Append(a, i)]])]
  BY <1>5, <1>6
<1> QED
  BY <1>7, Zenon DEF FoldExpr, From

\* What ValueOf is defined to be: every node has its value from its kids.
LEMMA ValueIs ==
  ASSUME NEW t, IsProgram(t), NEW env
  PROVE  ValueOf(t, env)
           = [a \in DOMAIN t |->
                Meaning(t, a, [i \in 1..t[a].size |-> ValueOf(t, env)[Append(a, i)]], env)]
<1> DEFINE h == Cardinality(DOMAIN t)
           Deep(n) == {a \in DOMAIN t : Len(a) >= h - n}
           From(a, kids) == Meaning(t, a, kids, env)
           S == {n \in 0..h :
                   \E g : g = [a \in Deep(n) |-> From(a, [i \in 1..t[a].size |-> g[Append(a, i)]])]}
<1>1. /\ h \in Nat
      /\ \A a \in DOMAIN t : /\ Len(a) \in Nat /\ Len(a) < h
                             /\ \A i \in 1..t[a].size : Append(a, i) \in DOMAIN t /\ Len(Append(a, i)) = Len(a) + 1
  BY TreeIs
<1> HIDE DEF From
<1>2. 0 \in S
  <2>1. Deep(0) = {}
    BY <1>1
  <2> DEFINE g == [a \in Deep(0) |-> <<>>]
  <2>2. g = [a \in Deep(0) |-> From(a, [i \in 1..t[a].size |-> g[Append(a, i)]])]
    BY <2>1
  <2>3. 0 \in 0..h
    BY <1>1
  <2> HIDE DEF g, h, Deep
  <2> QED
    BY <2>2, <2>3
<1>3. ASSUME NEW n \in 0..(h - 1), n \in S PROVE n + 1 \in S
  <2>1. PICK g : g = [a \in Deep(n) |-> From(a, [i \in 1..t[a].size |-> g[Append(a, i)]])]
    BY <1>3
  <2> DEFINE k == [a \in Deep(n + 1) |-> From(a, [i \in 1..t[a].size |-> g[Append(a, i)]])]
  <2>2. /\ Deep(n) \subseteq Deep(n + 1) /\ n + 1 \in 0..h
        /\ \A a \in Deep(n + 1) : \A i \in 1..t[a].size : Append(a, i) \in Deep(n)
    BY <1>1
  <2> HIDE DEF Deep
  <2>3. \A a \in Deep(n) : k[a] = g[a]
    BY <2>1, <2>2
  <2>4. ASSUME NEW a \in Deep(n + 1)
        PROVE  From(a, [i \in 1..t[a].size |-> g[Append(a, i)]]) = From(a, [i \in 1..t[a].size |-> k[Append(a, i)]])
    <3>1. [i \in 1..t[a].size |-> g[Append(a, i)]] = [i \in 1..t[a].size |-> k[Append(a, i)]]
      <4> HIDE DEF k
      <4> QED
        BY <2>2, <2>3
    <3> QED
      BY <3>1
  <2>5. k = [a \in Deep(n + 1) |-> From(a, [i \in 1..t[a].size |-> k[Append(a, i)]])]
    <3>1. \A a \in Deep(n + 1) : k[a] = From(a, [i \in 1..t[a].size |-> k[Append(a, i)]])
      BY <2>4
    <3> QED
      BY <3>1
  <2> HIDE DEF k
  <2> QED
    BY <2>2, <2>5
<1>4. h \in S
  <2>1. h \in 0..h
    BY <1>1
  <2> HIDE DEF S, h
  <2> QED
    BY <1>1, <1>2, <1>3, <2>1, CountingUp DEF h
<1>5. DOMAIN t = Deep(h)
  <2>1. h - h = 0
    BY <1>1
  <2>2. \A a \in DOMAIN t : Len(a) >= 0
    BY <1>1
  <2> HIDE DEF h
  <2> QED
    BY <2>1, <2>2
<1>6. \E g : g = [a \in Deep(h) |-> From(a, [i \in 1..t[a].size |-> g[Append(a, i)]])]
  BY <1>4
<1> HIDE DEF Deep
<1>7. \E g : g = [a \in DOMAIN t |-> From(a, [i \in 1..t[a].size |-> g[Append(a, i)]])]
  BY <1>5, <1>6
<1> QED
  BY <1>7, Zenon DEF ValueOf, From

LEMMA ValueAt ==
  ASSUME NEW t, IsProgram(t), NEW env, NEW a \in DOMAIN t
  PROVE  ValueOf(t, env)[a] = Meaning(t, a, [i \in 1..t[a].size |-> ValueOf(t, env)[Append(a, i)]], env)
<1> DEFINE value == ValueOf(t, env)
<1>1. value = [b \in DOMAIN t |-> Meaning(t, b, [i \in 1..t[b].size |-> value[Append(b, i)]], env)]
  BY ValueIs
<1> HIDE DEF value
<1>2. value[a] = Meaning(t, a, [i \in 1..t[a].size |-> value[Append(a, i)]], env)
  BY <1>1
<1> QED
  BY <1>2 DEF value

\* Bindings and Env, one assignment and one statement at a time.
LEMMA BindingsAre ==
  ASSUME NEW t, IsProgram(t)
  PROVE  LET N == Cardinality(Assignments(t))
             B == Bindings(t)
         IN  /\ B[0] = {}
             /\ \A n \in 1..N : B[n] = Bound(t, B[n - 1], AtRank(Assignments(t), Walk(t), n))
<1> DEFINE N == Cardinality(Assignments(t))
           Next(n, from) == IF n = 0 THEN {} ELSE Bound(t, from, AtRank(Assignments(t), Walk(t), n))
           S == {m \in 0..N : \E g : g = [n \in 0..m |-> Next(n, g[n - 1])]}
<1>1. N \in Nat
  <2>1. IsFiniteSet(DOMAIN t)
    BY TreeIs
  <2> QED
    BY <2>1, FS_Subset, FS_CardinalityType DEF Assignments
<1>2. /\ \A from : Next(0, from) = {}
      /\ \A n, from : n # 0 => Next(n, from) = Bound(t, from, AtRank(Assignments(t), Walk(t), n))
  OBVIOUS
<1> HIDE DEF Next
<1>3. 0 \in S
  <2> DEFINE g == [n \in 0..0 |-> Next(0, {})]
  <2>1. g = [n \in 0..0 |-> Next(n, g[n - 1])]
    BY <1>2
  <2>2. 0 \in 0..N
    BY <1>1
  <2> HIDE DEF g, N
  <2> QED
    BY <2>1, <2>2
<1>4. ASSUME NEW m \in 0..(N - 1), m \in S
      PROVE  m + 1 \in S
  <2>1. PICK g : g = [n \in 0..m |-> Next(n, g[n - 1])]
    BY <1>4
  <2> DEFINE h == [n \in 0..(m + 1) |-> IF n <= m THEN g[n] ELSE Next(n, g[m])]
  <2>2. \A n \in 0..(m + 1) : h[n] = Next(n, h[n - 1])
    <3> SUFFICES ASSUME NEW n \in 0..(m + 1) PROVE h[n] = Next(n, h[n - 1])
      OBVIOUS
    <3>1. CASE n = 0
      <4>1. h[0] = g[0] /\ g[0] = Next(0, g[0 - 1])
        BY <2>1
      <4> QED
        BY <1>2, <3>1, <4>1
    <3>2. CASE n \in 1..m
      <4>1. h[n] = g[n] /\ h[n - 1] = g[n - 1]
        BY <3>2
      <4>2. g[n] = Next(n, g[n - 1])
        BY <2>1, <3>2
      <4> QED
        BY <4>1, <4>2
    <3>3. CASE n = m + 1
      <4>1. h[n] = Next(n, g[m]) /\ h[m] = g[m]
        BY <3>3
      <4> QED
        BY <3>3, <4>1
    <3> QED
      BY <3>1, <3>2, <3>3
  <2>3. h = [n \in 0..(m + 1) |-> Next(n, h[n - 1])]
    BY <2>2
  <2>4. m + 1 \in 0..N
    BY <1>1
  <2> HIDE DEF h, N
  <2> QED
    BY <2>3, <2>4
<1>5. N \in S
  <2>1. N \in 0..N
    BY <1>1
  <2> HIDE DEF S, N
  <2> QED
    BY <1>1, <1>3, <1>4, <2>1, CountingUp
<1>6. \E g : g = [n \in 0..N |-> Next(n, g[n - 1])]
  BY <1>5
<1>7. Bindings(t) = [n \in 0..N |-> Next(n, Bindings(t)[n - 1])]
  BY <1>6, Zenon DEF Bindings, Next
<1> DEFINE B == Bindings(t)
<1>8. B = [n \in 0..N |-> Next(n, B[n - 1])]
  BY <1>7
<1> HIDE DEF B, N
<1>9. B[0] = {} /\ \A n \in 1..N : B[n] = Bound(t, B[n - 1], AtRank(Assignments(t), Walk(t), n))
  <2>1. \A n \in 0..N : B[n] = Next(n, B[n - 1])
    BY <1>8
  <2>2. 0 \in 0..N /\ \A n \in 1..N : n \in 0..N /\ n # 0
    BY <1>1
  <2> QED
    BY <1>2, <2>1, <2>2
<1> QED
  BY <1>9 DEF B, N

LEMMA EnvIs ==
  ASSUME NEW t, IsProgram(t)
  PROVE  LET N == t[<<>>].size
             E == Env(t)
         IN  /\ E[0] = <<>>
             /\ \A n \in 1..N : E[n] = After(t, n, E[n - 1])
<1> DEFINE N == t[<<>>].size
           Next(n, from) == IF n = 0 THEN <<>> ELSE After(t, n, from)
           S == {m \in 0..N : \E g : g = [n \in 0..m |-> Next(n, g[n - 1])]}
<1>1. N \in Nat
  BY DEF IsProgram, IsTree
<1>2. /\ \A from : Next(0, from) = <<>>
      /\ \A n, from : n # 0 => Next(n, from) = After(t, n, from)
  OBVIOUS
<1> HIDE DEF Next
<1>3. 0 \in S
  <2> DEFINE g == [n \in 0..0 |-> Next(0, <<>>)]
  <2>1. g = [n \in 0..0 |-> Next(n, g[n - 1])]
    BY <1>2
  <2>2. 0 \in 0..N
    BY <1>1
  <2> HIDE DEF g, N
  <2> QED
    BY <2>1, <2>2
<1>4. ASSUME NEW m \in 0..(N - 1), m \in S
      PROVE  m + 1 \in S
  <2>1. PICK g : g = [n \in 0..m |-> Next(n, g[n - 1])]
    BY <1>4
  <2> DEFINE h == [n \in 0..(m + 1) |-> IF n <= m THEN g[n] ELSE Next(n, g[m])]
  <2>2. \A n \in 0..(m + 1) : h[n] = Next(n, h[n - 1])
    <3> SUFFICES ASSUME NEW n \in 0..(m + 1) PROVE h[n] = Next(n, h[n - 1])
      OBVIOUS
    <3>1. CASE n = 0
      <4>1. h[0] = g[0] /\ g[0] = Next(0, g[0 - 1])
        BY <2>1
      <4> QED
        BY <1>2, <3>1, <4>1
    <3>2. CASE n \in 1..m
      <4>1. h[n] = g[n] /\ h[n - 1] = g[n - 1]
        BY <3>2
      <4>2. g[n] = Next(n, g[n - 1])
        BY <2>1, <3>2
      <4> QED
        BY <4>1, <4>2
    <3>3. CASE n = m + 1
      <4>1. h[n] = Next(n, g[m]) /\ h[m] = g[m]
        BY <3>3
      <4> QED
        BY <3>3, <4>1
    <3> QED
      BY <3>1, <3>2, <3>3
  <2>3. h = [n \in 0..(m + 1) |-> Next(n, h[n - 1])]
    BY <2>2
  <2>4. m + 1 \in 0..N
    BY <1>1
  <2> HIDE DEF h, N
  <2> QED
    BY <2>3, <2>4
<1>5. N \in S
  <2>1. N \in 0..N
    BY <1>1
  <2> HIDE DEF S, N
  <2> QED
    BY <1>1, <1>3, <1>4, <2>1, CountingUp
<1>6. \E g : g = [n \in 0..N |-> Next(n, g[n - 1])]
  BY <1>5
<1>7. Env(t) = [n \in 0..N |-> Next(n, Env(t)[n - 1])]
  BY <1>6, Zenon DEF Env, Next
<1> DEFINE E == Env(t)
<1>8. E = [n \in 0..N |-> Next(n, E[n - 1])]
  BY <1>7
<1> HIDE DEF E, N
<1>9. E[0] = <<>> /\ \A n \in 1..N : E[n] = After(t, n, E[n - 1])
  <2>1. \A n \in 0..N : E[n] = Next(n, E[n - 1])
    BY <1>8
  <2>2. 0 \in 0..N /\ \A n \in 1..N : n \in 0..N /\ n # 0
    BY <1>1
  <2> QED
    BY <1>2, <2>1, <2>2
<1> QED
  BY <1>9 DEF E, N

-----------------------------------------------------------------------------
(* What a fold tells of a value                                            *)

\* A fold is some text without an alias mark, or begins with an alias, or has a
\* mark further on.
Marked(name) == AliasMark \o name
Unmarked(f) == ~Has(f, AliasMark)
LateMark(f) == \E i \in 2..Len(f) : HasAt(f, AliasMark, i)
Begins(f, part) == Len(part) <= Len(f) /\ \A i \in 1..Len(part) : f[i] = part[i]
WellFolded(f) ==
  /\ f \in Seq(STRING) /\ Len(f) > 0
  /\ Unmarked(f) \/ LateMark(f) \/ \E name \in DangerFunc : Begins(f, Marked(name))

\* The folds F of an expression are right about its value v.
Tells(F, v) ==
  /\ \A f \in F : WellFolded(f) /\ (Unmarked(f) => v = [kind |-> "text", val |-> f])
  /\ \A name \in DangerFunc : Marked(name) \in F => v = [kind |-> "function", val |-> name]
  /\ v.kind = "text" => v.val \in F

\* Unless the queries have found something, the folds have every function.
Clear(t) == \A a \in DOMAIN t : ~Queried(t, a)
Reaches(t, F, v) == Clear(t) /\ v.kind = "function" /\ v.val \in DangerFunc => Marked(v.val) \in F

\* The table bindings is right about what the name x has in env.
BoundTo(bindings, x) == {e[2] : e \in {b \in bindings : b[1] = x}}
Knows(t, bindings, env, x) ==
  IF x \in DOMAIN env
  THEN /\ x \notin Builtins /\ env[x].kind # "builtins"
       /\ Tells(BoundTo(bindings, x), env[x]) /\ Reaches(t, BoundTo(bindings, x), env[x])
  ELSE BoundTo(bindings, x) = {}

\* What the queries look after: a dangerous name as it stands, and an item with
\* a literal key.
Traced(node, key) ==
  /\ node.type = "identifier" => node.val \notin DangerFunc
  /\ node.type = "subscript" => key.type # "string"

\* A part of a text, piece by piece.
LEMMA HasAtIs ==
  ASSUME NEW s \in Seq(STRING), NEW part \in Seq(STRING), NEW i \in Nat, i > 0, Len(part) > 0
  PROVE  HasAt(s, part, i) <=> /\ i + Len(part) - 1 <= Len(s)
                               /\ \A j \in 1..Len(part) : s[i + j - 1] = part[j]
<1>1. Len(s) \in Nat /\ Len(part) \in Nat
  BY LenProperties
<1>2. ASSUME i + Len(part) - 1 <= Len(s)
      PROVE  /\ SubSeq(s, i, i + Len(part) - 1) \in Seq(STRING)
             /\ Len(SubSeq(s, i, i + Len(part) - 1)) = Len(part)
             /\ \A j \in 1..Len(part) : SubSeq(s, i, i + Len(part) - 1)[j] = s[i + j - 1]
  <2> PICK n : n = i + Len(part) - 1
    OBVIOUS
  <2>1. i \in 1..(Len(s) + 1) /\ n \in (i - 1)..Len(s) /\ n - i + 1 = Len(part)
    BY <1>1, <1>2
  <2>2. /\ SubSeq(s, i, n) \in Seq(STRING) /\ Len(SubSeq(s, i, n)) = n - i + 1
        /\ \A j \in 1..(n - i + 1) : SubSeq(s, i, n)[j] = s[i + j - 1]
    BY <2>1, SubSeqProperties
  <2> QED
    BY <2>1, <2>2
<1>3. ASSUME HasAt(s, part, i)
      PROVE  i + Len(part) - 1 <= Len(s) /\ \A j \in 1..Len(part) : s[i + j - 1] = part[j]
  <2>1. i + Len(part) - 1 <= Len(s) /\ SubSeq(s, i, i + Len(part) - 1) = part
    BY <1>3 DEF HasAt
  <2> QED
    BY <1>2, <2>1
<1>4. ASSUME i + Len(part) - 1 <= Len(s), \A j \in 1..Len(part) : s[i + j - 1] = part[j]
      PROVE  HasAt(s, part, i)
  <2> PICK c : c = SubSeq(s, i, i + Len(part) - 1)
    OBVIOUS
  <2>1. c \in Seq(STRING) /\ Len(c) = Len(part) /\ \A j \in 1..Len(c) : c[j] = part[j]
    BY <1>2, <1>4
  <2>2. c = part
    BY <2>1, SeqEqual
  <2> QED
    BY <1>4, <2>2 DEF HasAt
<1> QED
  BY <1>3, <1>4

LEMMA MarkIs == AliasMark \in Seq(STRING) /\ Len(AliasMark) \in Nat /\ Len(AliasMark) > 0
<1>1. AliasMark \in Seq(STRING) /\ AliasMark # <<>>
  BY GuardAssumption
<1> QED
  BY <1>1, EmptySeq, LenProperties

\* A dangerous name has no mark in it, its alias has one at the beginning only,
\* and no alias begins with another.
LEMMA DangerName ==
  ASSUME NEW name \in DangerFunc
  PROVE  /\ name \in Seq(STRING) /\ Len(name) \in Nat /\ Len(name) > 0 /\ Unmarked(name)
         /\ Marked(name) \in Seq(STRING) /\ Len(Marked(name)) = Len(AliasMark) + Len(name)
         /\ ~Unmarked(Marked(name)) /\ ~LateMark(Marked(name))
         /\ \A m \in DangerFunc : Begins(Marked(name), Marked(m)) => m = name
<1> DEFINE k == Len(AliasMark)
<1>1. name \in Seq(STRING) /\ name # <<>> /\ Unmarked(name)
  BY GuardAssumption DEF Unmarked
<1>2. Len(name) \in Nat /\ Len(name) > 0 /\ k \in Nat /\ k > 0 /\ AliasMark \in Seq(STRING)
  BY <1>1, EmptySeq, LenProperties, MarkIs
<1>3. ASSUME NEW m \in DangerFunc
      PROVE  /\ m \in Seq(STRING) /\ Len(m) \in Nat
             /\ Marked(m) \in Seq(STRING) /\ Len(Marked(m)) = k + Len(m)
             /\ \A i \in 1..k : Marked(m)[i] = AliasMark[i]
             /\ \A i \in 1..Len(m) : Marked(m)[k + i] = m[i]
  <2>1. m \in Seq(STRING) /\ Len(m) \in Nat
    BY GuardAssumption, LenProperties
  <2>2. /\ Marked(m) \in Seq(STRING) /\ Len(Marked(m)) = k + Len(m)
        /\ \A i \in 1..(k + Len(m)) : Marked(m)[i] = IF i <= k THEN AliasMark[i] ELSE m[i - k]
    BY <1>2, <2>1, ConcatProperties DEF Marked
  <2> HIDE DEF k
  <2>3. \A i \in 1..k : i \in 1..(k + Len(m)) /\ i <= k
    BY <1>2, <2>1
  <2>4. \A i \in 1..Len(m) : k + i \in 1..(k + Len(m)) /\ ~(k + i <= k) /\ (k + i) - k = i
    BY <1>2, <2>1
  <2> QED
    BY <2>1, <2>2, <2>3, <2>4
<1>4. ~Unmarked(Marked(name))
  <2> PICK c : c = Marked(name)
    OBVIOUS
  <2>1. c \in Seq(STRING) /\ Len(c) = k + Len(name) /\ \A j \in 1..k : c[j] = AliasMark[j]
    BY <1>3
  <2>4. 1 + k - 1 <= Len(c) /\ \A j \in 1..k : c[1 + j - 1] = AliasMark[j]
    BY <1>2, <2>1
  <2>2. HasAt(Marked(name), AliasMark, 1)
    BY <1>2, <2>1, <2>4, HasAtIs
  <2>3. 1 \in DOMAIN Marked(name)
    BY <1>2, <2>1, LenProperties
  <2> QED
    BY <2>2, <2>3 DEF Unmarked, Has
<1>5. ~LateMark(Marked(name))
  BY <1>3, GuardAssumption DEF LateMark, Marked
<1>6. ASSUME NEW m \in DangerFunc, Begins(Marked(name), Marked(m)) PROVE m = name
  <2>1. Len(m) <= Len(name) /\ \A i \in 1..Len(m) : m[i] = name[i]
    <3>1. k + Len(m) <= k + Len(name) /\ \A i \in 1..(k + Len(m)) : Marked(name)[i] = Marked(m)[i]
      BY <1>3, <1>6 DEF Begins
    <3>2. Len(m) <= Len(name)
      BY <1>2, <1>3, <3>1
    <3>3. ASSUME NEW i \in 1..Len(m) PROVE m[i] = name[i]
      <4>1. k + i \in 1..(k + Len(m)) /\ i \in 1..Len(name)
        BY <1>2, <1>3, <3>2
      <4>2. Marked(name)[k + i] = Marked(m)[k + i]
        BY <3>1, <4>1
      <4> QED
        BY <1>3, <4>1, <4>2
    <3> QED
      BY <3>2, <3>3
  <2>2. SubSeq(m, 1, Len(m)) = m
    BY <1>3, SubSeqFull
  <2> PICK c : c = SubSeq(name, 1, Len(m))
    OBVIOUS
  <2>3. c \in Seq(STRING) /\ Len(c) = Len(m) /\ \A i \in 1..Len(m) : c[i] = name[i]
    <3>1. Len(m) \in 0..Len(name)
      BY <1>2, <1>3, <2>1
    <3> QED
      BY <1>1, <3>1, Beginning
  <2>4. c = m
    BY <1>3, <2>1, <2>3, SeqEqual
  <2>5. IsPrefix(m, name)
    BY <2>1, <2>2, <2>4 DEF IsPrefix
  <2> QED
    BY <2>5, GuardAssumption
<1> QED
  BY <1>1, <1>2, <1>3, <1>4, <1>5, <1>6

\* A mark of a part is a mark of what it is put together to.
LEMMA MarksAdd ==
  ASSUME NEW l \in Seq(STRING), NEW r \in Seq(STRING), Len(l) > 0
  PROVE  /\ l \o r \in Seq(STRING) /\ Len(l \o r) = Len(l) + Len(r)
         /\ \A i \in 1..Len(l) : (l \o r)[i] = l[i]
         /\ ~Unmarked(l) => ~Unmarked(l \o r)
         /\ LateMark(l) => LateMark(l \o r)
         /\ ~Unmarked(r) => LateMark(l \o r) /\ ~Unmarked(l \o r)
<1>1. Len(l) \in Nat /\ Len(r) \in Nat
  BY LenProperties
<1> PICK c : c = l \o r
  OBVIOUS
<1>2. /\ c \in Seq(STRING) /\ Len(c) = Len(l) + Len(r)
      /\ \A i \in 1..(Len(l) + Len(r)) : c[i] = IF i <= Len(l) THEN l[i] ELSE r[i - Len(l)]
  BY ConcatProperties
<1>3. DOMAIN l = 1..Len(l) /\ DOMAIN r = 1..Len(r) /\ DOMAIN c = 1..Len(c)
  BY <1>2, LenProperties
<1> DEFINE k == Len(AliasMark)
<1>4. k \in Nat /\ k > 0 /\ AliasMark \in Seq(STRING)
  BY MarkIs
<1>5. ASSUME NEW i \in 1..Len(l), HasAt(l, AliasMark, i)
      PROVE  HasAt(c, AliasMark, i) /\ i \in 1..Len(c)
  <2>1. i \in Nat /\ i > 0
    BY <1>1
  <2>2. i + k - 1 <= Len(l) /\ \A j \in 1..k : l[i + j - 1] = AliasMark[j]
    BY <1>4, <1>5, <2>1, HasAtIs
  <2> HIDE DEF k
  <2>3. i + k - 1 <= Len(c) /\ i \in 1..Len(c)
    BY <1>1, <1>2, <1>4, <2>1, <2>2
  <2>4. ASSUME NEW j \in 1..k PROVE c[i + j - 1] = AliasMark[j]
    <3>1. i + j - 1 \in 1..(Len(l) + Len(r)) /\ i + j - 1 <= Len(l)
      BY <1>1, <1>4, <2>1, <2>2
    <3> QED
      BY <1>2, <2>2, <3>1
  <2> QED
    BY <1>2, <1>4, <2>1, <2>3, <2>4, HasAtIs DEF k
<1>6. ASSUME NEW i \in 1..Len(r), HasAt(r, AliasMark, i)
      PROVE  HasAt(c, AliasMark, i + Len(l)) /\ i + Len(l) \in 2..Len(c)
  <2>1. i \in Nat /\ i > 0
    BY <1>1
  <2>2. i + k - 1 <= Len(r) /\ \A j \in 1..k : r[i + j - 1] = AliasMark[j]
    BY <1>4, <1>6, <2>1, HasAtIs
  <2> HIDE DEF k
  <2> PICK s : s = i + Len(l)
    OBVIOUS
  <2>3. s \in Nat /\ s > 0 /\ s + k - 1 <= Len(c) /\ s \in 2..Len(c)
    BY <1>1, <1>2, <1>4, <2>1, <2>2
  <2>4. ASSUME NEW j \in 1..k PROVE c[s + j - 1] = AliasMark[j]
    <3>1. /\ s + j - 1 \in 1..(Len(l) + Len(r)) /\ ~(s + j - 1 <= Len(l))
          /\ (s + j - 1) - Len(l) = i + j - 1
      BY <1>1, <1>4, <2>1, <2>2
    <3> QED
      BY <1>2, <2>2, <3>1
  <2> QED
    BY <1>2, <1>4, <2>3, <2>4, HasAtIs DEF k
<1>7. \A i \in 1..Len(l) : c[i] = l[i]
  BY <1>1, <1>2
<1>8. ~Unmarked(l) => ~Unmarked(c)
  BY <1>3, <1>5 DEF Unmarked, Has
<1>9. LateMark(l) => LateMark(c)
  <2> SUFFICES ASSUME NEW i \in 2..Len(l), HasAt(l, AliasMark, i) PROVE LateMark(c)
    BY DEF LateMark
  <2>1. i \in 1..Len(l)
    BY <1>1
  <2>2. HasAt(c, AliasMark, i) /\ i \in 1..Len(c)
    BY <1>5, <2>1
  <2>3. i \in 2..Len(c)
    BY <1>1, <1>2, <2>2
  <2> QED
    BY <2>2, <2>3 DEF LateMark
<1>10. ~Unmarked(r) => LateMark(c) /\ ~Unmarked(c)
  <2> SUFFICES ASSUME ~Unmarked(r) PROVE LateMark(c) /\ ~Unmarked(c)
    OBVIOUS
  <2>1. PICK i \in 1..Len(r) : HasAt(r, AliasMark, i)
    BY <1>3 DEF Unmarked, Has
  <2>2. HasAt(c, AliasMark, i + Len(l)) /\ i + Len(l) \in 2..Len(c)
    BY <1>6, <2>1
  <2>3. i + Len(l) \in DOMAIN c
    BY <1>1, <1>2, <1>3, <2>2
  <2> QED
    BY <2>2, <2>3 DEF LateMark, Unmarked, Has
<1> QED
  BY <1>2, <1>7, <1>8, <1>9, <1>10

\* What is put together with a part that has a mark is no alias.
LEMMA Together ==
  ASSUME NEW l, NEW r, WellFolded(l), WellFolded(r), ~Unmarked(l) \/ ~Unmarked(r)
  PROVE  /\ WellFolded(l \o r) /\ ~Unmarked(l \o r)
         /\ \A name \in DangerFunc : l \o r # Marked(name)
<1>1. /\ l \in Seq(STRING) /\ r \in Seq(STRING) /\ Len(l) \in Nat /\ Len(r) \in Nat
      /\ Len(l) > 0 /\ Len(r) > 0
  BY LenProperties DEF WellFolded
<1> PICK c : c = l \o r
  OBVIOUS
<1>2. /\ c \in Seq(STRING) /\ Len(c) = Len(l) + Len(r) /\ Len(c) > 0
      /\ \A i \in 1..Len(l) : c[i] = l[i]
      /\ ~Unmarked(l) => ~Unmarked(c)
      /\ LateMark(l) => LateMark(c)
      /\ ~Unmarked(r) => LateMark(c) /\ ~Unmarked(c)
  BY <1>1, MarksAdd
<1>3. CASE LateMark(c)
  BY <1>2, <1>3, DangerName DEF WellFolded
<1>4. CASE ~LateMark(c)
  <2>1. ~Unmarked(l) /\ ~LateMark(l)
    BY <1>2, <1>4
  <2>2. PICK m \in DangerFunc : Begins(l, Marked(m))
    BY <2>1 DEF WellFolded
  <2>3. Len(Marked(m)) \in Nat /\ Len(Marked(m)) <= Len(l) /\ \A i \in 1..Len(Marked(m)) : l[i] = Marked(m)[i]
    BY <2>2, DangerName, LenProperties DEF Begins
  <2>4. Begins(c, Marked(m)) /\ Len(c) > Len(Marked(m))
    <3>1. Len(Marked(m)) <= Len(c) /\ Len(c) > Len(Marked(m))
      BY <1>1, <1>2, <2>3
    <3>2. ASSUME NEW i \in 1..Len(Marked(m)) PROVE c[i] = Marked(m)[i]
      <4>1. i \in 1..Len(l)
        BY <1>1, <2>3
      <4> QED
        BY <1>2, <2>3, <4>1
    <3> QED
      BY <3>1, <3>2 DEF Begins
  <2>5. ASSUME NEW name \in DangerFunc, c = Marked(name) PROVE FALSE
    <3>1. m = name
      BY <2>4, <2>5, DangerName
    <3> QED
      BY <2>3, <2>4, <2>5, <3>1
  <2> QED
    BY <1>2, <2>1, <2>4, <2>5 DEF WellFolded
<1> QED
  BY <1>3, <1>4

\* One node, when its kids' folds and values are F and V.
Agrees(t, a, F, v) ==
  /\ Tells(F, v) /\ (v.kind = "builtins" <=> OfBuiltins(t[a]))
  /\ t[a].type = "string" /\ v.kind = "text" => v.val = t[a].val /\ v.val # Formatted
  /\ Traced(t[a], Kid(t, a, 2)) => Reaches(t, F, v)

LEMMA OtherAgrees ==
  ASSUME NEW t, NEW a \in DOMAIN t, t[a].type # "identifier"
  PROVE  Agrees(t, a, {}, [kind |-> "other", val |-> <<>>])
BY DEF Agrees, Tells, OfBuiltins, Reaches

LEMMA StringAgrees ==
  ASSUME NEW t, IsProgram(t), NEW a \in DOMAIN t, t[a].type = "string", NEW F, NEW V,
         NEW bindings, NEW env, PlainText(Meaning(t, a, V, env))
  PROVE  Agrees(t, a, Folded(t, a, F, bindings), Meaning(t, a, V, env))
<1> DEFINE val == t[a].val
           f == Folded(t, a, F, bindings)
           v == Meaning(t, a, V, env)
<1>1. f = {val} \ {Formatted}
  BY DEF Folded
<1>2. v = IF val # Formatted THEN [kind |-> "text", val |-> val] ELSE [kind |-> "other", val |-> <<>>]
  BY DEF Meaning
<1>3. CASE val = Formatted
  <2>1. f = {} /\ v = [kind |-> "other", val |-> <<>>]
    BY <1>1, <1>2, <1>3
  <2> HIDE DEF f, v
  <2>2. Agrees(t, a, f, v)
    BY <2>1, OtherAgrees
  <2> QED
    BY <2>2 DEF f, v
<1>4. CASE val # Formatted
  <2>1. f = {val} /\ v = [kind |-> "text", val |-> val]
    BY <1>1, <1>2, <1>4
  <2>2. val \in Seq(STRING) /\ val # <<>> /\ Unmarked(val)
    BY <1>4, <2>1 DEF IsProgram, PlainText, Unmarked
  <2> HIDE DEF f, v, val
  <2>5. WellFolded(val)
    BY <2>2, EmptySeq, LenProperties DEF WellFolded
  <2>6. \A name \in DangerFunc : Marked(name) # val
    BY <2>2, DangerName
  <2>7. Tells(f, v)
    BY <2>1, <2>5, <2>6 DEF Tells
  <2>8. v.kind = "text"
    BY <2>1
  <2>9. v.kind # "builtins" /\ v.kind # "function"
    BY <2>8
  <2>10. v.val = t[a].val /\ v.val # Formatted
    BY <1>4, <2>1 DEF val
  <2>11. Agrees(t, a, f, v)
    BY <2>7, <2>9, <2>10 DEF Agrees, OfBuiltins, Reaches
  <2> QED
    BY <2>11 DEF f, v
<1> QED
  BY <1>3, <1>4

LEMMA NameAgrees ==
  ASSUME NEW t, NEW a \in DOMAIN t, t[a].type = "identifier", NEW F, NEW V,
         NEW bindings, NEW env, Knows(t, bindings, env, t[a].val)
  PROVE  Agrees(t, a, Folded(t, a, F, bindings), Meaning(t, a, V, env))
<1> DEFINE x == t[a].val
           f == Folded(t, a, F, bindings)
           v == Meaning(t, a, V, env)
<1>1. f = BoundTo(bindings, x)
  BY DEF Folded, BoundTo
<1>2. v = IF x \in DOMAIN env THEN env[x]
          ELSE CASE x \in Builtins -> [kind |-> "builtins", val |-> <<>>]
                 [] x \in DangerFunc -> [kind |-> "function", val |-> x]
                 [] OTHER -> [kind |-> "other", val |-> <<>>]
  BY DEF Meaning
<1>3. OfBuiltins(t[a]) <=> x \in Builtins
  BY DEF OfBuiltins
<1>4. Traced(t[a], Kid(t, a, 2)) <=> x \notin DangerFunc
  BY DEF Traced
<1>5. Knows(t, bindings, env, x)
  OBVIOUS
<1> HIDE DEF f, v, x
<1>6. CASE x \in DOMAIN env
  <2>1. v = env[x]
    BY <1>2, <1>6
  <2>2. x \notin Builtins /\ env[x].kind # "builtins" /\ Tells(f, v) /\ Reaches(t, f, v)
    BY <1>1, <1>5, <1>6, <2>1 DEF Knows
  <2> QED
    BY <1>3, <2>1, <2>2 DEF Agrees, f, v
<1>7. CASE x \notin DOMAIN env
  <2>1. f = {}
    BY <1>1, <1>5, <1>7 DEF Knows
  <2>2. v.kind = IF x \in Builtins THEN "builtins" ELSE IF x \in DangerFunc THEN "function" ELSE "other"
    <3>1. v = CASE x \in Builtins -> [kind |-> "builtins", val |-> <<>>]
                [] x \in DangerFunc -> [kind |-> "function", val |-> x]
                [] OTHER -> [kind |-> "other", val |-> <<>>]
      BY <1>2, <1>7
    <3>2. x \in DangerFunc => x \notin Builtins
      BY GuardAssumption
    <3> QED
      BY <3>1, <3>2
  <2>3. v.kind # "text" /\ (v.kind = "builtins" <=> x \in Builtins)
        /\ (v.kind = "function" => x \in DangerFunc)
    BY <2>2
  <2>4. Agrees(t, a, f, v)
    BY <1>3, <1>4, <2>1, <2>3 DEF Agrees, Tells, Reaches
  <2> QED
    BY <2>4 DEF f, v
<1> QED
  BY <1>6, <1>7

\* What a pair of texts makes is among what the two sets make.
Joins(F, G) == {l \o r : l \in F, r \in G}
LEMMA Joined ==
  ASSUME NEW F, NEW G, NEW l \in F, NEW r \in G
  PROVE  l \o r \in Joins(F, G)
  BY DEF Joins

\* Two texts put together.
LEMMA PlusAgrees ==
  ASSUME NEW t, NEW a \in DOMAIN t, t[a].type = "binary_operator", t[a].val = <<"+">>,
         NEW F, NEW V, Tells(F[1], V[1]), Tells(F[2], V[2]), NEW bindings, NEW env,
         PlainText(Meaning(t, a, V, env))
  PROVE  Agrees(t, a, Folded(t, a, F, bindings), Meaning(t, a, V, env))
<1> DEFINE f == Folded(t, a, F, bindings)
           v == Meaning(t, a, V, env)
           Texts2 == V[1].kind = "text" /\ V[2].kind = "text"
<1>1. f = {l \o r : l \in F[1], r \in F[2]}
  BY DEF Folded
<1>2. v = IF Texts2 THEN [kind |-> "text", val |-> V[1].val \o V[2].val]
          ELSE [kind |-> "other", val |-> <<>>]
  BY DEF Meaning
<1>3. ~OfBuiltins(t[a])
  BY DEF OfBuiltins
<1>0. PlainText(v)
  OBVIOUS
<1> HIDE DEF f, v
<1>4. ASSUME NEW e \in f
      PROVE  /\ WellFolded(e) /\ \A name \in DangerFunc : e # Marked(name)
             /\ Unmarked(e) => v = [kind |-> "text", val |-> e]
  <2>1. PICK l \in F[1], r \in F[2] : e = l \o r
    BY <1>1, <1>4
  <2>2. WellFolded(l) /\ WellFolded(r)
    BY DEF Tells
  <2>3. CASE Unmarked(l) /\ Unmarked(r)
    <3>1. V[1] = [kind |-> "text", val |-> l] /\ V[2] = [kind |-> "text", val |-> r]
      BY <2>3 DEF Tells
    <3>2. Texts2 /\ V[1].val = l /\ V[2].val = r
      BY <3>1
    <3>3. V[1].val \o V[2].val = e
      BY <2>1, <3>2
    <3>4. v = [kind |-> "text", val |-> V[1].val \o V[2].val]
      <4> HIDE DEF Texts2
      <4> QED
        BY <1>2, <3>2
    <3>5. v = [kind |-> "text", val |-> e]
      BY <3>3, <3>4
    <3>6. e # <<>> /\ Unmarked(e)
      BY <1>0, <3>5 DEF PlainText, Unmarked
    <3>7. e \in Seq(STRING) /\ Len(e) > 0
      <4>1. l \in Seq(STRING) /\ r \in Seq(STRING)
        BY <2>2 DEF WellFolded
      <4>2. e \in Seq(STRING)
        BY <2>1, <4>1, ConcatProperties
      <4> QED
        BY <3>6, <4>2, EmptySeq, LenProperties
    <3>8. WellFolded(e)
      BY <3>6, <3>7 DEF WellFolded
    <3> QED
      BY <3>5, <3>6, <3>8, DangerName
  <2>4. CASE ~Unmarked(l) \/ ~Unmarked(r)
    BY <2>1, <2>2, <2>4, Together
  <2> QED
    BY <2>3, <2>4
<1>5. ASSUME v.kind = "text" PROVE v.val \in f
  <2>1. Texts2
    BY <1>2, <1>5
  <2>2. V[1].val \in F[1] /\ V[2].val \in F[2]
    BY <2>1 DEF Tells
  <2>3. PICK l \in F[1], r \in F[2] : l = V[1].val /\ r = V[2].val
    BY <2>2
  <2>4. l \o r \in Joins(F[1], F[2])
    BY Joined
  <2>5. v.val = V[1].val \o V[2].val
    BY <1>2, <2>1
  <2>6. f = Joins(F[1], F[2])
    BY <1>1 DEF Joins
  <2> QED
    BY <2>3, <2>4, <2>5, <2>6
<1>6. v.kind \in {"text", "other"}
  BY <1>2
<1>7. Tells(f, v)
  BY <1>4, <1>5 DEF Tells
<1>8. Agrees(t, a, f, v)
  BY <1>3, <1>6, <1>7 DEF Agrees, Reaches
<1> QED
  BY <1>8 DEF f, v

\* What is taken from the builtins under a key that is no literal.
OfKey(t, a, F, of, key) ==
  IF OfBuiltins(Kid(t, a, of)) /\ Kid(t, a, key).type # "string"
  THEN {Marked(name) : name \in F[key] \cap DangerFunc} ELSE {}
TakenBy(V, of, key) ==
  IF V[of].kind = "builtins" /\ V[key].kind = "text" THEN [kind |-> "function", val |-> V[key].val]
  ELSE [kind |-> "other", val |-> <<>>]

LEMMA KeyAgrees ==
  ASSUME NEW t, NEW a \in DOMAIN t, t[a].type \in {"call", "subscript"},
         NEW F, NEW V, NEW of, NEW key, Tells(F[key], V[key]),
         V[of].kind = "builtins" <=> OfBuiltins(Kid(t, a, of)),
         Clear(t) /\ Traced(t[a], Kid(t, a, 2)) /\ V[of].kind = "builtins"
           /\ V[key].kind = "text" /\ V[key].val \in DangerFunc => Kid(t, a, key).type # "string"
  PROVE  Agrees(t, a, OfKey(t, a, F, of, key), TakenBy(V, of, key))
<1> DEFINE f == OfKey(t, a, F, of, key)
           v == TakenBy(V, of, key)
<1>1. ASSUME NEW e \in f
      PROVE  \E name \in F[key] \cap DangerFunc : e = Marked(name) /\ v = [kind |-> "function", val |-> name]
  <2>1. PICK name \in F[key] \cap DangerFunc : e = Marked(name) /\ OfBuiltins(Kid(t, a, of))
    BY <1>1 DEF OfKey
  <2>2. Unmarked(name)
    BY DangerName
  <2>3. V[key] = [kind |-> "text", val |-> name]
    BY <2>2 DEF Tells
  <2> QED
    BY <2>1, <2>3 DEF TakenBy
<1>2. ~OfBuiltins(t[a]) /\ v.kind \in {"function", "other"}
  BY DEF OfBuiltins, TakenBy
<1>3. ASSUME Clear(t), Traced(t[a], Kid(t, a, 2)), v.kind = "function", v.val \in DangerFunc
      PROVE  Marked(v.val) \in f
  <2>1. V[of].kind = "builtins" /\ V[key].kind = "text" /\ v.val = V[key].val
    BY <1>3 DEF TakenBy
  <2>2. v.val \in F[key]
    BY <2>1 DEF Tells
  <2>3. OfBuiltins(Kid(t, a, of)) /\ Kid(t, a, key).type # "string"
    BY <1>3, <2>1
  <2> QED
    BY <1>3, <2>2, <2>3 DEF OfKey
<1> HIDE DEF f, v
<1>4. ASSUME NEW m \in DangerFunc, NEW n \in DangerFunc, Marked(m) = Marked(n) PROVE m = n
  <2>1. Begins(Marked(n), Marked(m))
    <3>1. Len(Marked(n)) \in Nat
      BY DangerName, LenProperties
    <3> QED
      BY <1>4, <3>1 DEF Begins
  <2> QED
    BY <2>1, DangerName
<1>5. ASSUME NEW e \in f PROVE WellFolded(e) /\ ~Unmarked(e)
  <2>1. PICK name \in DangerFunc : e = Marked(name)
    BY <1>1
  <2>2. /\ e \in Seq(STRING) /\ Len(name) \in Nat /\ Len(name) > 0
        /\ Len(e) = Len(AliasMark) + Len(name) /\ ~Unmarked(e)
    BY <2>1, DangerName
  <2>3. Len(e) > 0 /\ Begins(e, Marked(name))
    BY <2>1, <2>2, MarkIs DEF Begins
  <2> QED
    BY <2>2, <2>3 DEF WellFolded
<1>6. Tells(f, v)
  <2>1. \A name \in DangerFunc : Marked(name) \in f => v = [kind |-> "function", val |-> name]
    BY <1>1, <1>4
  <2> QED
    BY <1>2, <1>5, <2>1 DEF Tells
<1>7. Agrees(t, a, f, v)
  BY <1>2, <1>3, <1>6 DEF Agrees, Reaches
<1> QED
  BY <1>7 DEF f, v

\* The queries see a dangerous name that is a plain key.
LEMMA PlainKeyIsSeen ==
  ASSUME NEW node, IsPlainKey(node), node.val \in DangerFunc
  PROVE  Holds(node.raw) /\ HoldsQuoted(node.raw)
<1>1. PICK q \in Quote : node.raw = <<q>> \o node.val \o <<q>>
  BY DEF IsPlainKey
<1> PICK name, raw, k, m : name = node.val /\ raw = node.raw /\ k = Len(name) /\ m = <<q>> \o name
  OBVIOUS
<1>2. name \in QueriedFunc /\ name \in Seq(STRING) /\ k \in Nat /\ k > 0
  BY DangerName DEF IsPlainKey
<1> PICK o : o = <<q>>
  OBVIOUS
<1>10. q \in STRING
  BY GuardAssumption
<1>3. o \in Seq(STRING) /\ Len(o) = 1
  BY <1>10
<1>4. /\ m = o \o name /\ m \in Seq(STRING) /\ Len(m) = 1 + k
      /\ \A i \in 1..(1 + k) : m[i] = IF i <= 1 THEN o[i] ELSE name[i - 1]
  BY <1>2, <1>3, ConcatProperties
<1>11. raw = m \o o
  BY <1>1
<1>5. /\ raw \in Seq(STRING) /\ Len(raw) = 1 + k + 1
      /\ \A i \in 1..(1 + k + 1) : raw[i] = IF i <= 1 + k THEN m[i] ELSE o[i - (1 + k)]
  <2>1. m \in Seq(STRING) /\ Len(m) = 1 + k
    BY <1>4
  <2> QED
    <3>1. Len(raw) = Len(m) + Len(o) /\ raw \in Seq(STRING)
          /\ \A i \in 1..(Len(m) + Len(o)) : raw[i] = IF i <= Len(m) THEN m[i] ELSE o[i - Len(m)]
      BY <1>3, <1>11, <2>1, ConcatProperties
    <3> QED
      BY <1>2, <1>3, <2>1, <3>1
<1>6. DOMAIN raw = 1..(k + 2)
  BY <1>2, <1>5, LenProperties
<1>7. HasAt(raw, name, 2)
  <2>1. \A j \in 1..k : raw[2 + j - 1] = name[j]
    <3> SUFFICES ASSUME NEW j \in 1..k PROVE raw[2 + j - 1] = name[j]
      OBVIOUS
    <3>1. 2 + j - 1 \in 1..(1 + k + 1) /\ 2 + j - 1 <= 1 + k /\ 2 + j - 1 \in 1..(1 + k) /\ ~(2 + j - 1 <= 1) /\ (2 + j - 1) - 1 = j
      BY <1>2
    <3>2. raw[2 + j - 1] = m[2 + j - 1]
      BY <1>5, <3>1
    <3>3. m[2 + j - 1] = name[j]
      BY <1>4, <3>1
    <3> QED
      BY <3>2, <3>3
  <2>2. 2 + k - 1 <= Len(raw) /\ 2 \in Nat /\ 2 > 0
    BY <1>2, <1>5
  <2>3. raw \in Seq(STRING) /\ Len(name) > 0 /\ \A j \in 1..Len(name) : raw[2 + j - 1] = name[j]
    BY <1>2, <1>5, <2>1
  <2> QED
    BY <1>2, <2>2, <2>3, HasAtIs
<1>8. Holds(raw)
  <2>1. 2 \in DOMAIN raw
    BY <1>2, <1>6
  <2> QED
    BY <1>2, <1>7, <2>1 DEF Holds, Has
<1>9. HoldsQuoted(raw)
  <2>1. SubSeq(raw, 1, Len(raw)) = raw /\ 1 + Len(raw) - 1 = Len(raw) /\ 1 + Len(raw) - 1 <= Len(raw)
    BY <1>2, <1>5, SubSeqFull
  <2>2. HasAt(raw, raw, 1)
    BY <2>1 DEF HasAt
  <2>3. 1 \in DOMAIN raw
    BY <1>2, <1>6
  <2>4. Has(raw, <<q>> \o name \o <<q>>)
    BY <1>1, <2>2, <2>3 DEF Has
  <2> QED
    BY <1>2, <2>4 DEF HoldsQuoted
<1> QED
  BY <1>8, <1>9

\* getattr of the builtins, and an item of them.
LEMMA GetattrAgrees ==
  ASSUME NEW t, IsProgram(t), InReach(t), NEW a \in DOMAIN t, t[a].type = "call",
         Kid(t, a, 1).type = "identifier", Kid(t, a, 1).val = Getattr,
         NEW F, NEW V, \A i \in 1..t[a].size : Agrees(t, Append(a, i), F[i], V[i]),
         NEW bindings, NEW env
  PROVE  Agrees(t, a, Folded(t, a, F, bindings), Meaning(t, a, V, env))
<1> DEFINE f == Folded(t, a, F, bindings)
           v == Meaning(t, a, V, env)
           objs == {i \in 2..t[a].size : Kid(t, a, i).type \in {"identifier", "string", "binary_operator"}}
           FirstTwo(i, j) == i < j /\ {k \in objs : k <= j} = {i, j}
           Taken(of, key) ==
             IF /\ Kid(t, a, of).type = "identifier" /\ Kid(t, a, of).val \in Builtins
                /\ Kid(t, a, key).type # "string"
             THEN {Marked(name) : name \in F[key] \cap DangerFunc} ELSE {}
<1>1. f = UNION {Taken(p[1], p[2]) : p \in {q \in objs \X objs : FirstTwo(q[1], q[2])}}
  BY DEF Folded, Marked
<1>2. t[a].size = 3 /\ Kid(t, a, 3).type \in {"identifier", "string", "binary_operator"}
  BY DEF InReach
<1>3. /\ Agrees(t, Append(a, 3), F[3], V[3]) /\ Tells(F[3], V[3])
      /\ V[2].kind = "builtins" <=> OfBuiltins(Kid(t, a, 2))
  <2>1. 2 \in 1..t[a].size /\ 3 \in 1..t[a].size
    BY <1>2
  <2> QED
    BY <2>1 DEF Agrees, Kid
<1>4. v = TakenBy(V, 2, 3)
  BY <1>2 DEF Meaning, TakenBy
<1>5. objs \subseteq {2, 3} /\ 3 \in objs /\ (OfBuiltins(Kid(t, a, 2)) => 2 \in objs)
  BY <1>2 DEF OfBuiltins
<1>6. \A of, key : Taken(of, key) = OfKey(t, a, F, of, key)
  BY DEF OfKey, OfBuiltins
<1> HIDE DEF f, v, objs, Taken
<1>7. ASSUME NEW i \in objs, NEW j \in objs, FirstTwo(i, j)
      PROVE  i = 2 /\ j = 3
  BY <1>5, <1>7
<1>8. ASSUME 2 \in objs PROVE FirstTwo(2, 3)
  <2>1. objs = {2, 3}
    BY <1>5, <1>8
  <2>2. {k \in objs : k <= 3} = {2, 3}
    BY <2>1
  <2> QED
    BY <2>2
<1> HIDE DEF FirstTwo
<1>9. f = OfKey(t, a, F, 2, 3)
  <2>1. ASSUME NEW e \in f PROVE e \in OfKey(t, a, F, 2, 3)
    <3>1. PICK i \in objs, j \in objs : FirstTwo(i, j) /\ e \in Taken(i, j)
      BY <1>1, <2>1
    <3> QED
      BY <1>6, <1>7, <3>1
  <2>2. ASSUME NEW e \in OfKey(t, a, F, 2, 3) PROVE e \in f
    <3>1. OfBuiltins(Kid(t, a, 2))
      BY <2>2 DEF OfKey
    <3>2. 2 \in objs /\ 3 \in objs /\ FirstTwo(2, 3) /\ e \in Taken(2, 3)
      BY <1>5, <1>6, <1>8, <2>2, <3>1
    <3> DEFINE p == <<2, 3>>
    <3>3. p \in objs \X objs /\ p[1] = 2 /\ p[2] = 3
      BY <3>2
    <3> HIDE DEF p
    <3> QED
      BY <1>1, <3>2, <3>3
  <2> QED
    BY <2>1, <2>2
<1>10. ASSUME Clear(t), V[2].kind = "builtins", V[3].kind = "text", V[3].val \in DangerFunc,
             Kid(t, a, 3).type = "string"
      PROVE  FALSE
  <2>1. Kid(t, a, 3).val = V[3].val /\ Kid(t, a, 3).val # Formatted
    BY <1>3, <1>10 DEF Agrees, Kid
  <2>2. IsPlainKey(Kid(t, a, 3))
    BY <1>10, <2>1 DEF InReach
  <2>3. Holds(Kid(t, a, 3).raw)
    BY <1>10, <2>1, <2>2, PlainKeyIsSeen
  <2>4. TakenFromBuiltins(t, a)
    <3>1. 2 \in 2..t[a].size /\ 3 \in 2..t[a].size
      BY <1>2
    <3> QED
      BY <1>3, <1>10, <2>3, <3>1 DEF TakenFromBuiltins
  <2> QED
    BY <1>10, <2>4 DEF Clear, Queried
<1>11. Agrees(t, a, OfKey(t, a, F, 2, 3), TakenBy(V, 2, 3))
  BY <1>3, <1>10, KeyAgrees
<1> QED
  BY <1>4, <1>9, <1>11 DEF f, v

LEMMA ItemAgrees ==
  ASSUME NEW t, IsProgram(t), NEW a \in DOMAIN t, t[a].type = "subscript",
         NEW F, NEW V, \A i \in 1..t[a].size : Agrees(t, Append(a, i), F[i], V[i]),
         NEW bindings, NEW env
  PROVE  Agrees(t, a, Folded(t, a, F, bindings), Meaning(t, a, V, env))
<1> DEFINE f == Folded(t, a, F, bindings)
           v == Meaning(t, a, V, env)
<1>1. f = OfKey(t, a, F, 1, 2)
  BY DEF Folded, OfKey, OfBuiltins, Marked
<1>2. v = TakenBy(V, 1, 2)
  BY DEF Meaning, TakenBy
<1>3. 1 \in 1..t[a].size /\ 2 \in 1..t[a].size
  <2>1. t[a].size \in Nat /\ t[a].size >= Arity(t[a].type)
    BY DEF IsProgram, IsTree
  <2>2. Arity(t[a].type) = 2
    BY DEF Arity
  <2> QED
    BY <2>1, <2>2
<1>4. Tells(F[2], V[2]) /\ (V[1].kind = "builtins" <=> OfBuiltins(Kid(t, a, 1)))
  BY <1>3 DEF Agrees, Kid
<1>5. Traced(t[a], Kid(t, a, 2)) => Kid(t, a, 2).type # "string"
  BY DEF Traced
<1>6. Agrees(t, a, OfKey(t, a, F, 1, 2), TakenBy(V, 1, 2))
  BY <1>4, <1>5, KeyAgrees
<1> QED
  BY <1>1, <1>2, <1>6

LEMMA NodeAgrees ==
  ASSUME NEW t, IsProgram(t), InReach(t), NEW a \in DOMAIN t, NEW bindings, NEW env,
         t[a].type = "identifier" => Knows(t, bindings, env, t[a].val),
         NEW F, NEW V, \A i \in 1..t[a].size : Agrees(t, Append(a, i), F[i], V[i]),
         PlainText(Meaning(t, a, V, env))
  PROVE  Agrees(t, a, Folded(t, a, F, bindings), Meaning(t, a, V, env))
<1> DEFINE plus == t[a].type = "binary_operator" /\ t[a].val = <<"+">>
           get == t[a].type = "call" /\ Kid(t, a, 1).type = "identifier" /\ Kid(t, a, 1).val = Getattr
<1>1. CASE t[a].type = "string"
  BY <1>1, StringAgrees
<1>2. CASE t[a].type = "identifier"
  BY <1>2, NameAgrees
<1>3. CASE plus
  <2>1. 1 \in 1..t[a].size /\ 2 \in 1..t[a].size
    <3>1. t[a].size \in Nat /\ t[a].size >= Arity(t[a].type)
      BY DEF IsProgram, IsTree
    <3>2. Arity(t[a].type) = 2
      BY <1>3 DEF Arity
    <3> QED
      BY <3>1, <3>2
  <2>2. Tells(F[1], V[1]) /\ Tells(F[2], V[2])
    BY <2>1 DEF Agrees
  <2> QED
    BY <1>3, <2>2, PlusAgrees
<1>4. CASE get
  BY <1>4, GetattrAgrees
<1>5. CASE t[a].type = "subscript"
  BY <1>5, ItemAgrees
<1>6. CASE t[a].type \notin {"string", "identifier", "subscript"} /\ ~plus /\ ~get
  <2>1. Folded(t, a, F, bindings) = {}
    BY <1>6 DEF Folded
  <2>2. Meaning(t, a, V, env) = [kind |-> "other", val |-> <<>>]
    BY <1>6 DEF Meaning
  <2> QED
    BY <1>6, <2>1, <2>2, OtherAgrees
<1> QED
  BY <1>1, <1>2, <1>3, <1>4, <1>5, <1>6

\* A whole expression, when the table is right about the names in it.
LEMMA ExpressionAgrees ==
  ASSUME NEW t, IsProgram(t), InReach(t), NEW bindings, NEW env, NEW X \in SUBSET DOMAIN t,
         \A a \in X : /\ \A i \in 1..t[a].size : Append(a, i) \in X
                      /\ t[a].type = "identifier" => Knows(t, bindings, env, t[a].val)
                      /\ PlainText(ValueOf(t, env)[a])
  PROVE  \A a \in X : Agrees(t, a, FoldExpr(t, bindings)[a], ValueOf(t, env)[a])
<1> DEFINE fold == FoldExpr(t, bindings)
           value == ValueOf(t, env)
           S == {a \in DOMAIN t : a \in X => Agrees(t, a, fold[a], value[a])}
<1>1. \A a \in DOMAIN t : fold[a] = Folded(t, a, [i \in 1..t[a].size |-> fold[Append(a, i)]], bindings)
  <2>1. fold = [a \in DOMAIN t |-> Folded(t, a, [i \in 1..t[a].size |-> fold[Append(a, i)]], bindings)]
    BY FoldIs
  <2> HIDE DEF fold
  <2> QED
    BY <2>1
<1>2. \A a \in DOMAIN t : value[a] = Meaning(t, a, [i \in 1..t[a].size |-> value[Append(a, i)]], env)
  BY ValueAt
<1> HIDE DEF fold, value
<1>3. ASSUME NEW a \in DOMAIN t, \A i \in 1..t[a].size : Append(a, i) \in S
      PROVE  a \in S
  <2> SUFFICES ASSUME a \in X PROVE Agrees(t, a, fold[a], value[a])
    OBVIOUS
  <2> DEFINE F == [i \in 1..t[a].size |-> fold[Append(a, i)]]
             V == [i \in 1..t[a].size |-> value[Append(a, i)]]
  <2>1. \A i \in 1..t[a].size : Agrees(t, Append(a, i), F[i], V[i])
    BY <1>3
  <2>2. fold[a] = Folded(t, a, F, bindings) /\ value[a] = Meaning(t, a, V, env)
    BY <1>1, <1>2
  <2>3. PlainText(value[a])
    BY DEF value
  <2> HIDE DEF F, V
  <2> QED
    BY <2>1, <2>2, <2>3, NodeAgrees
<1>4. DOMAIN t \subseteq S
  <2> HIDE DEF S
  <2> QED
    BY <1>3, FromBelow
<1> QED
  BY <1>4 DEF fold, value

-----------------------------------------------------------------------------
(* Statements                                                              *)

\* The addresses of the first two levels.
LEMMA Address ==
  ASSUME NEW k \in Nat, NEW i \in Nat
  PROVE  /\ <<k>> \in Seq(Nat) /\ Len(<<k>>) = 1 /\ <<k>>[1] = k /\ Append(<<>>, k) = <<k>>
         /\ <<k, i>> \in Seq(Nat) /\ Len(<<k, i>>) = 2 /\ <<k, i>>[1] = k /\ <<k, i>>[2] = i
         /\ Append(<<k>>, i) = <<k, i>>
<1>1. /\ <<k>> \in Seq(Nat) /\ Len(<<k>>) = 1 /\ <<k>>[1] = k
      /\ <<k, i>> \in Seq(Nat) /\ Len(<<k, i>>) = 2 /\ <<k, i>>[1] = k /\ <<k, i>>[2] = i
      /\ <<>> \in Seq(Nat) /\ Len(<<>>) = 0
  OBVIOUS
<1> PICK s, u, e : s = <<k>> /\ u = <<k, i>> /\ e = <<>>
  OBVIOUS
<1>2. s \in Seq(Nat) /\ Len(s) = 1 /\ s[1] = k /\ u \in Seq(Nat) /\ Len(u) = 2 /\ u[1] = k /\ u[2] = i
      /\ e \in Seq(Nat) /\ Len(e) = 0
  BY <1>1
<1>3. Append(e, k) = s
  <2> PICK c : c = Append(e, k)
    OBVIOUS
  <2>1. c \in Seq(Nat) /\ Len(c) = 0 + 1 /\ c[0 + 1] = k
    BY <1>2, AppendProperties
  <2>2. Len(c) = Len(s) /\ \A n \in 1..Len(c) : c[n] = s[n]
    BY <1>2, <2>1
  <2>3. c = s
    BY <1>2, <2>1, <2>2, SeqEqual
  <2> QED
    BY <2>3
<1>4. Append(s, i) = u
  <2> PICK c : c = Append(s, i)
    OBVIOUS
  <2>1. c \in Seq(Nat) /\ Len(c) = 1 + 1 /\ c[1 + 1] = i /\ c[1] = s[1]
    BY <1>2, AppendProperties
  <2>2. Len(c) = Len(u) /\ \A n \in 1..Len(c) : c[n] = u[n]
    BY <1>2, <2>1
  <2>3. c = u
    BY <1>2, <2>1, <2>2, SeqEqual
  <2> QED
    BY <2>3
<1> QED
  BY <1>1, <1>3, <1>4

\* An assignment is a statement, and has its name and its expression below it.
LEMMA StatementIs ==
  ASSUME NEW t, IsProgram(t)
  PROVE  /\ t[<<>>].size \in Nat
         /\ \A k \in 1..t[<<>>].size :
              /\ <<k>> \in DOMAIN t
              /\ t[<<k>>].type = "assignment" =>
                   /\ <<k, 1>> \in DOMAIN t /\ <<k, 2>> \in DOMAIN t
                   /\ Kid(t, <<k>>, 1) = t[<<k, 1>>] /\ Kid(t, <<k>>, 2) = t[<<k, 2>>]
<1>1. <<>> \in DOMAIN t /\ t[<<>>].size \in Nat
  BY DEF IsProgram, IsTree
<1>2. ASSUME NEW k \in 1..t[<<>>].size
      PROVE  /\ <<k>> \in DOMAIN t
             /\ t[<<k>>].type = "assignment" =>
                  /\ <<k, 1>> \in DOMAIN t /\ <<k, 2>> \in DOMAIN t
                  /\ Kid(t, <<k>>, 1) = t[<<k, 1>>] /\ Kid(t, <<k>>, 2) = t[<<k, 2>>]
  <2>1. Append(<<>>, k) = <<k>> /\ Append(<<k>>, 1) = <<k, 1>> /\ Append(<<k>>, 2) = <<k, 2>>
    <3>1. k \in Nat /\ 1 \in Nat /\ 2 \in Nat
      OBVIOUS
    <3> QED
      BY <3>1, Address
  <2>2. <<k>> \in DOMAIN t
    <3>1. Append(<<>>, k) \in DOMAIN t
      BY <1>1 DEF IsProgram, IsTree
    <3> QED
      BY <2>1, <3>1
  <2>3. ASSUME t[<<k>>].type = "assignment"
        PROVE  Append(<<k>>, 1) \in DOMAIN t /\ Append(<<k>>, 2) \in DOMAIN t
    <3> PICK a : a = <<k>>
      OBVIOUS
    <3>1. a \in DOMAIN t /\ t[a].type = "assignment"
      BY <2>2, <2>3
    <3>2. t[a].size \in Nat /\ t[a].size >= Arity(t[a].type)
      BY <3>1 DEF IsProgram, IsTree
    <3>3. Arity(t[a].type) = 2
      BY <3>1 DEF Arity
    <3>4. 1 \in 1..t[a].size /\ 2 \in 1..t[a].size
      BY <3>2, <3>3
    <3>5. Append(a, 1) \in DOMAIN t /\ Append(a, 2) \in DOMAIN t
      BY <3>1, <3>4, TreeIs
    <3> QED
      BY <3>5
  <2> QED
    BY <2>1, <2>2, <2>3 DEF Kid
<1> QED
  BY <1>1, <1>2

LEMMA AssignmentIs ==
  ASSUME NEW t, IsProgram(t), Straight(t)
  PROVE  Assignments(t) = {<<k>> : k \in {j \in 1..t[<<>>].size : t[<<j>>].type = "assignment"}}
<1>1. ASSUME NEW a \in Assignments(t)
      PROVE  a = <<a[1]>> /\ a[1] \in 1..t[<<>>].size /\ t[a].type = "assignment"
  <2>1. a \in DOMAIN t /\ t[a].type = "assignment"
    BY DEF Assignments
  <2>2. Len(a) = 1 /\ a \in Seq(Nat)
    BY <2>1, TreeIs DEF Straight
  <2>3. 0 \in 0..(Len(a) - 1) /\ 0 + 1 = 1
    BY <2>2
  <2>4. a[0 + 1] \in 1..t[SubSeq(a, 1, 0)].size
    BY <2>1, <2>3 DEF IsProgram, IsTree
  <2>5. SubSeq(a, 1, 0) = <<>>
    BY SubSeqEmpty
  <2>6. a = <<a[1]>>
    BY <2>2
  <2> QED
    BY <2>1, <2>3, <2>4, <2>5, <2>6
<1>2. ASSUME NEW k \in 1..t[<<>>].size, t[<<k>>].type = "assignment"
      PROVE  <<k>> \in Assignments(t)
  <2>1. <<k>> \in DOMAIN t
    BY StatementIs
  <2> QED
    BY <1>2, <2>1 DEF Straight, Assignments
<1>3. ASSUME NEW a \in Assignments(t)
      PROVE  a \in {<<k>> : k \in {j \in 1..t[<<>>].size : t[<<j>>].type = "assignment"}}
  <2> PICK k : k = a[1]
    OBVIOUS
  <2>1. a = <<k>> /\ k \in 1..t[<<>>].size /\ t[<<k>>].type = "assignment"
    BY <1>1
  <2> QED
    BY <2>1
<1> QED
  BY <1>2, <1>3

\* The statement of the n-th assignment: they come in the order of the file.
Nth(t, n) == AtRank(Assignments(t), Walk(t), n)[1]

LEMMA AssignmentOrder ==
  ASSUME NEW t, IsProgram(t), Straight(t)
  PROVE  LET N == Cardinality(Assignments(t))
         IN  /\ N \in Nat
             /\ \A n \in 1..N :
                  /\ AtRank(Assignments(t), Walk(t), n) = <<Nth(t, n)>>
                  /\ Nth(t, n) \in 1..t[<<>>].size /\ t[<<Nth(t, n)>>].type = "assignment"
             /\ \A k \in 1..t[<<>>].size :
                  t[<<k>>].type = "assignment" => \E n \in 1..N : Nth(t, n) = k
             /\ \A m, n \in 1..N : m < n => Nth(t, m) < Nth(t, n)
<1> DEFINE A == Assignments(t)
           R == Walk(t)
           N == Cardinality(A)
           size == t[<<>>].size
<1>1. A = {<<k>> : k \in {j \in 1..size : t[<<j>>].type = "assignment"}} /\ size \in Nat
  BY AssignmentIs, StatementIs
<1>2. IsFiniteSet(A) /\ N \in Nat
  <2>1. IsFiniteSet(DOMAIN t)
    BY TreeIs
  <2> QED
    BY <2>1, FS_Subset, FS_CardinalityType DEF Assignments
<1>3. \A j, k \in Nat : WalkedBefore(<<j>>, <<k>>) <=> j < k
  <2> SUFFICES ASSUME NEW j \in Nat, NEW k \in Nat PROVE WalkedBefore(<<j>>, <<k>>) <=> j < k
    OBVIOUS
  <2> PICK x, y : x = <<j>> /\ y = <<k>>
    OBVIOUS
  <2>1. x \in Seq(Nat) /\ y \in Seq(Nat) /\ Len(x) = 1 /\ Len(y) = 1 /\ x[1] = j /\ y[1] = k
    OBVIOUS
  <2>2. SubSeq(x, 1, 0) = <<>> /\ SubSeq(y, 1, 0) = <<>>
    BY SubSeqEmpty
  <2>3. SubSeq(x, 1, 1) = x /\ SubSeq(y, 1, 1) = y
    BY <2>1, SubSeqFull
  <2>4. ~IsStrictPrefix(x, y)
    BY <2>1, <2>3 DEF IsStrictPrefix, IsPrefix
  <2>5. (\E n \in 1..Len(x) : n <= Len(y) /\ SubSeq(x, 1, n - 1) = SubSeq(y, 1, n - 1) /\ x[n] < y[n])
          <=> j < k
    <3>1. 1 \in 1..Len(x) /\ 1 <= Len(y) /\ 1 - 1 = 0 /\ \A n \in 1..Len(x) : n = 1
      BY <2>1
    <3> QED
      BY <2>1, <2>2, <3>1
  <2>6. WalkedBefore(x, y) <=> j < k
    BY <2>4, <2>5 DEF WalkedBefore
  <2> QED
    BY <2>6
<1>4. \A x, y \in A : <<x, y>> \in R <=> x[1] < y[1]
  <2> SUFFICES ASSUME NEW x \in A, NEW y \in A PROVE <<x, y>> \in R <=> x[1] < y[1]
    OBVIOUS
  <2>1. PICK j \in 1..size, k \in 1..size : x = <<j>> /\ y = <<k>>
    BY <1>1
  <2>2. WalkedBefore(x, y) <=> x[1] < y[1]
    BY <1>1, <1>3, <2>1
  <2> PICK e : e = <<x, y>>
    OBVIOUS
  <2>3. e \in A \X A /\ e[1] = x /\ e[2] = y
    OBVIOUS
  <2>4. e \in R <=> WalkedBefore(x, y)
    BY <2>3 DEF Walk
  <2> QED
    BY <2>2, <2>4
<1>5. \A x \in A : x = <<x[1]>> /\ x[1] \in 1..size /\ t[x].type = "assignment"
  <2> SUFFICES ASSUME NEW x \in A PROVE x = <<x[1]>> /\ x[1] \in 1..size /\ t[x].type = "assignment"
    OBVIOUS
  <2>1. PICK k \in 1..size : x = <<k>> /\ t[<<k>>].type = "assignment"
    BY <1>1
  <2>2. x[1] = k
    BY <2>1
  <2> QED
    BY <2>1, <2>2
<1> HIDE DEF A, R, N, size
<1>6. /\ \A x \in A : <<x, x>> \notin R
      /\ \A x, y, z \in A : <<x, y>> \in R /\ <<y, z>> \in R => <<x, z>> \in R
      /\ \A x, y \in A : x # y => <<x, y>> \in R \/ <<y, x>> \in R
  <2>1. \A x \in A : x[1] \in Nat
    <3>1. \A n \in 1..size : n \in Nat
      BY <1>1
    <3> QED
      BY <1>5, <3>1, Zenon
  <2>2. \A x, y \in A : x # y => x[1] # y[1]
    BY <1>5, Zenon
  <2> QED
    BY <1>4, <2>1, <2>2
<1>7. /\ \A n \in 1..N : AtRank(A, R, n) \in A
      /\ \A x \in A : \E n \in 1..N : AtRank(A, R, n) = x
      /\ \A m, n \in 1..N : m < n => <<AtRank(A, R, m), AtRank(A, R, n)>> \in R
  BY <1>2, <1>6, Ranking DEF N
<1>8. \A n : Nth(t, n) = AtRank(A, R, n)[1]
  BY DEF Nth, A, R
<1>9. \A n \in 1..N :
        /\ AtRank(A, R, n) = <<Nth(t, n)>> /\ Nth(t, n) \in 1..size
        /\ t[<<Nth(t, n)>>].type = "assignment"
  <2> SUFFICES ASSUME NEW n \in 1..N
               PROVE  /\ AtRank(A, R, n) = <<Nth(t, n)>> /\ Nth(t, n) \in 1..size
                      /\ t[<<Nth(t, n)>>].type = "assignment"
    OBVIOUS
  <2> PICK x : x = AtRank(A, R, n)
    OBVIOUS
  <2>1. x \in A /\ Nth(t, n) = x[1]
    BY <1>7, <1>8
  <2>2. x = <<Nth(t, n)>> /\ Nth(t, n) \in 1..size /\ t[x].type = "assignment"
    BY <1>5, <2>1
  <2> QED
    BY <2>2
<1>10. ASSUME NEW k \in 1..size, t[<<k>>].type = "assignment"
       PROVE  \E n \in 1..N : Nth(t, n) = k
  <2>1. <<k>> \in A
    BY <1>1, <1>10
  <2>2. PICK n \in 1..N : AtRank(A, R, n) = <<k>>
    BY <1>7, <2>1
  <2>3. Nth(t, n) = k
    BY <1>8, <2>2
  <2> QED
    BY <2>3
<1>11. \A m, n \in 1..N : m < n => Nth(t, m) < Nth(t, n)
  <2> SUFFICES ASSUME NEW m \in 1..N, NEW n \in 1..N, m < n PROVE Nth(t, m) < Nth(t, n)
    OBVIOUS
  <2> PICK x, y : x = AtRank(A, R, m) /\ y = AtRank(A, R, n)
    OBVIOUS
  <2>1. x \in A /\ y \in A /\ <<x, y>> \in R
    BY <1>7
  <2>2. Nth(t, m) = x[1] /\ Nth(t, n) = y[1]
    BY <1>8
  <2> QED
    BY <1>4, <2>1, <2>2
<1> QED
  BY <1>2, <1>9, <1>10, <1>11 DEF A, R, N, size

\* The table binds a name to what the one assignment of it was folded to, with
\* the table before that.
LEMMA TableIs ==
  ASSUME NEW t, IsProgram(t), Straight(t)
  PROVE  \A n \in 0..Cardinality(Assignments(t)) : \A x :
           BoundTo(Bindings(t)[n], x)
             = UNION {FoldExpr(t, Bindings(t)[m - 1])[<<Nth(t, m), 2>>] :
                        m \in {i \in 1..n : t[<<Nth(t, i), 1>>].val = x}}
<1> DEFINE N == Cardinality(Assignments(t))
           B == Bindings(t)
           At(n) == AtRank(Assignments(t), Walk(t), n)
           name(m) == t[<<Nth(t, m), 1>>].val
           folds(m) == FoldExpr(t, B[m - 1])[<<Nth(t, m), 2>>]
           Of(n, x) == UNION {folds(m) : m \in {i \in 1..n : name(i) = x}}
           S == {n \in 0..N : \A x : BoundTo(B[n], x) = Of(n, x)}
<1>1. N \in Nat
  BY AssignmentOrder
<1>2. ASSUME NEW m \in 1..N, NEW n \in 1..N, m < n PROVE name(m) # name(n)
  <2>1. /\ Nth(t, m) \in 1..t[<<>>].size /\ Nth(t, n) \in 1..t[<<>>].size /\ Nth(t, m) < Nth(t, n)
        /\ t[<<Nth(t, m)>>].type = "assignment" /\ t[<<Nth(t, n)>>].type = "assignment"
    BY <1>2, AssignmentOrder
  <2>2. Nth(t, m) # Nth(t, n)
    BY <2>1, StatementIs
  <2>3. Assigned(t, Nth(t, m)) \cap Assigned(t, Nth(t, n)) = {}
    BY <2>1, <2>2 DEF Straight
  <2>4. Assigned(t, Nth(t, m)) = {name(m)} /\ Assigned(t, Nth(t, n)) = {name(n)}
    BY <2>1 DEF Assigned
  <2> HIDE DEF name
  <2> QED
    BY <2>3, <2>4
<1>3. ASSUME NEW n \in 1..N
      PROVE  B[n] = {b \in B[n - 1] : b[1] # name(n) \/ folds(n) = {}} \cup ({name(n)} \X folds(n))
  <2>1. B[n] = Bound(t, B[n - 1], At(n))
    BY BindingsAre
  <2>2. /\ At(n) = <<Nth(t, n)>> /\ Nth(t, n) \in 1..t[<<>>].size
        /\ t[<<Nth(t, n)>>].type = "assignment"
    BY AssignmentOrder
  <2>3. Kid(t, At(n), 1).val = name(n)
    BY <2>2, StatementIs
  <2>4. Append(At(n), 2) = <<Nth(t, n), 2>>
    <3>1. Nth(t, n) \in Nat /\ 2 \in Nat
      BY <2>2, StatementIs
    <3>2. Append(<<Nth(t, n)>>, 2) = <<Nth(t, n), 2>>
      BY <3>1, Address
    <3> QED
      BY <2>2, <3>2
  <2>5. FoldExpr(t, B[n - 1])[Append(At(n), 2)] = folds(n)
    BY <2>4
  <2> HIDE DEF B, At, name, folds
  <2> QED
    BY <2>1, <2>3, <2>5 DEF Bound
<1>4. B[0] = {}
  BY BindingsAre
<1> HIDE DEF B, At, name, folds, N
<1>5. 0 \in S
  <2>1. \A x : BoundTo(B[0], x) = {}
    BY <1>4 DEF BoundTo
  <2>2. \A x : Of(0, x) = {}
    OBVIOUS
  <2>3. 0 \in 0..N
    BY <1>1
  <2> HIDE DEF Of
  <2> QED
    BY <2>1, <2>2, <2>3
<1>6. ASSUME NEW k \in 0..(N - 1), k \in S PROVE k + 1 \in S
  <2> PICK n : n = k + 1
    OBVIOUS
  <2>1. n \in 1..N /\ n \in 0..N /\ n - 1 = k /\ 1..n = (1..k) \cup {n} /\ n \notin 1..k
    BY <1>1
  <2>2. \A x : BoundTo(B[k], x) = Of(k, x)
    BY <1>6
  <2>3. B[n] = {b \in B[k] : b[1] # name(n) \/ folds(n) = {}} \cup ({name(n)} \X folds(n))
    BY <1>3, <2>1
  <2>4. ASSUME NEW x, x # name(n) PROVE BoundTo(B[n], x) = Of(n, x)
    <3>1. BoundTo(B[n], x) = BoundTo(B[k], x)
      <4>1. {b \in B[n] : b[1] = x} = {b \in B[k] : b[1] = x}
        BY <2>3, <2>4
      <4> QED
        BY <4>1 DEF BoundTo
    <3>2. {i \in 1..n : name(i) = x} = {i \in 1..k : name(i) = x}
      BY <2>1, <2>4
    <3> QED
      BY <2>2, <3>1, <3>2
  <2>5. BoundTo(B[n], name(n)) = Of(n, name(n))
    <3>1. {i \in 1..k : name(i) = name(n)} = {}
      <4>1. \A i \in 1..k : i \in 1..N /\ i < n
        BY <1>1, <2>1
      <4> QED
        BY <1>2, <2>1, <4>1
    <3>2. BoundTo(B[k], name(n)) = {}
      BY <2>2, <3>1
    <3>3. {b \in B[k] : b[1] = name(n)} = {}
      BY <3>2 DEF BoundTo
    <3>4. {b \in B[n] : b[1] = name(n)} = {name(n)} \X folds(n)
      BY <2>3, <3>3
    <3>5. BoundTo(B[n], name(n)) = {e[2] : e \in {name(n)} \X folds(n)}
      BY <3>4 DEF BoundTo
    <3>6. BoundTo(B[n], name(n)) = folds(n)
      <4> PICK y, F : y = name(n) /\ F = folds(n)
        OBVIOUS
      <4>1. ASSUME NEW f \in F PROVE \E e \in {y} \X F : e[2] = f
        <5>1. <<y, f>> \in {y} \X F /\ <<y, f>>[2] = f
          OBVIOUS
        <5> QED
          BY <5>1
      <4>2. \A e \in {y} \X F : e[2] \in F
        OBVIOUS
      <4>3. {e[2] : e \in {y} \X F} = F
        BY <4>1, <4>2
      <4> QED
        BY <3>5, <4>3
    <3>7. {i \in 1..n : name(i) = name(n)} = {n}
      BY <2>1, <3>1
    <3>8. Of(n, name(n)) = folds(n)
      BY <3>7
    <3> QED
      BY <3>6, <3>8
  <2> HIDE DEF Of
  <2> QED
    BY <2>1, <2>4, <2>5
<1>7. \A n \in 0..N : n \in S
  <2> HIDE DEF S
  <2> QED
    BY <1>1, <1>5, <1>6, CountingUp
<1>8. \A n \in 0..N : \A x : BoundTo(B[n], x) = Of(n, x)
  BY <1>7
<1> QED
  BY <1>8 DEF B, N, folds, name

\* What is below the expression of a statement: the names there are those used.
Below(t, k) == {a \in DOMAIN t : IsPrefix(Expression(t, k), a)}

LEMMA BelowIs ==
  ASSUME NEW t, IsProgram(t), NEW k \in 1..t[<<>>].size
  PROVE  /\ Expression(t, k) \in Below(t, k)
         /\ \A a \in Below(t, k) :
              /\ \A i \in 1..t[a].size : Append(a, i) \in Below(t, k)
              /\ t[a].type = "identifier" => t[a].val \in Used(t, k)
<1> DEFINE p == Expression(t, k)
<1>1. p \in DOMAIN t
  BY StatementIs DEF Expression
<1>2. p \in Seq(Nat) /\ Len(p) \in Nat
  BY <1>1, TreeIs
<1> HIDE DEF p
<1>3. IsPrefix(p, p)
  BY <1>2 DEF IsPrefix
<1>4. ASSUME NEW a \in DOMAIN t, IsPrefix(p, a), NEW i \in 1..t[a].size
      PROVE  Append(a, i) \in DOMAIN t /\ IsPrefix(p, Append(a, i))
  <2> PICK c : c = Append(a, i)
    OBVIOUS
  <2>1. a \in Seq(Nat) /\ Len(a) \in Nat /\ c \in DOMAIN t /\ Len(c) = Len(a) + 1
    BY TreeIs
  <2>2. c \in Seq(Nat) /\ \A j \in 1..Len(a) : c[j] = a[j]
    <3>1. i \in Nat
      BY DEF IsProgram, IsTree
    <3> QED
      BY <2>1, <3>1, AppendProperties
  <2>3. Len(p) <= Len(a) /\ SubSeq(p, 1, Len(p)) = SubSeq(a, 1, Len(p))
    BY <1>4 DEF IsPrefix
  <2>4. Len(p) \in 0..Len(a) /\ Len(p) \in 0..Len(c) /\ Len(p) <= Len(c)
    BY <1>2, <2>1, <2>3
  <2> PICK x, y : x = SubSeq(a, 1, Len(p)) /\ y = SubSeq(c, 1, Len(p))
    OBVIOUS
  <2>5. x \in Seq(Nat) /\ Len(x) = Len(p) /\ \A j \in 1..Len(p) : x[j] = a[j]
    BY <2>1, <2>4, Beginning
  <2>6. y \in Seq(Nat) /\ Len(y) = Len(p) /\ \A j \in 1..Len(p) : y[j] = c[j]
    BY <2>2, <2>4, Beginning
  <2>7. \A j \in 1..Len(p) : x[j] = y[j]
    <3>1. \A j \in 1..Len(p) : j \in 1..Len(a)
      BY <2>1, <2>4
    <3> QED
      BY <2>2, <2>5, <2>6, <3>1
  <2>8. x = y
    BY <2>5, <2>6, <2>7, SeqEqual
  <2>9. IsPrefix(p, c)
    BY <2>3, <2>4, <2>8 DEF IsPrefix
  <2> QED
    BY <2>1, <2>9
<1> QED
  BY <1>1, <1>3, <1>4 DEF Below, Used, p

\* The text of an expression is plain.
LEMMA PlainBelow ==
  ASSUME NEW t, IsProgram(t), InReach(t), NEW k \in 1..t[<<>>].size, NEW a \in Below(t, k)
  PROVE  PlainText(ValueOf(t, Env(t)[k - 1])[a])
<1>1. k \in Nat
  BY StatementIs
<1> PICK p, s : p = Expression(t, k) /\ s = <<k>>
  OBVIOUS
<1>2. p \in DOMAIN t /\ p \in Seq(Nat) /\ Len(p) \in Nat
  BY BelowIs, TreeIs DEF Below
<1>3. Len(p) >= 1 /\ p[1] = k
  <2>1. p = <<k>> \/ p = <<k, 2>>
    BY DEF Expression
  <2> QED
    BY <1>1, <2>1, Address
<1>4. s \in Seq(Nat) /\ Len(s) = 1 /\ s[1] = k
  BY <1>1, Address
<1>5. a \in DOMAIN t /\ a \in Seq(Nat) /\ Len(a) \in Nat
      /\ Len(p) <= Len(a) /\ SubSeq(p, 1, Len(p)) = SubSeq(a, 1, Len(p))
  <2>1. a \in DOMAIN t /\ IsPrefix(p, a)
    BY DEF Below
  <2> QED
    BY <2>1, TreeIs DEF IsPrefix
<1>6. a[1] = k
  <2>1. Len(p) \in 0..Len(p) /\ Len(p) \in 0..Len(a) /\ 1 \in 1..Len(p)
    BY <1>2, <1>3, <1>5
  <2>2. SubSeq(p, 1, Len(p))[1] = p[1] /\ SubSeq(a, 1, Len(p))[1] = a[1]
    BY <1>2, <1>5, <2>1, Beginning
  <2> QED
    BY <1>3, <1>5, <2>2
<1> PICK x : x = SubSeq(a, 1, 1)
  OBVIOUS
<1>7. x \in Seq(Nat) /\ Len(x) = 1 /\ x[1] = k
  <2>1. 1 \in 0..Len(a) /\ 1 \in 1..1
    BY <1>2, <1>3, <1>5
  <2> QED
    BY <1>5, <1>6, <2>1, Beginning
<1>8. x = s
  <2>1. \A i \in 1..Len(x) : x[i] = s[i]
    BY <1>4, <1>7
  <2> QED
    BY <1>4, <1>7, <2>1, SeqEqual
<1>9. IsPrefix(s, a)
  <2>2. SubSeq(s, 1, Len(s)) = s
    BY <1>4, SubSeqFull
  <2>1. SubSeq(s, 1, Len(s)) = s /\ Len(s) <= Len(a)
    BY <1>2, <1>3, <1>4, <1>5, <2>2
  <2> QED
    BY <1>4, <1>8, <2>1 DEF IsPrefix
<1> QED
  BY <1>5, <1>9 DEF InReach, HasPlainTexts

\* After k statements, every table that has their assignments is right about the
\* names that are not assigned later.
LEMMA TableKnows ==
  ASSUME NEW t, IsProgram(t), Straight(t), InReach(t)
  PROVE  \A k \in 0..t[<<>>].size, n \in 0..Cardinality(Assignments(t)) :
           (\A m \in 1..Cardinality(Assignments(t)) : Nth(t, m) <= k => m <= n) =>
             \A x : (\A j \in (k + 1)..t[<<>>].size : x \notin Assigned(t, j)) =>
                      Knows(t, Bindings(t)[n], Env(t)[k], x)
<1> DEFINE N == Cardinality(Assignments(t))
           size == t[<<>>].size
           B == Bindings(t)
           E == Env(t)
           Covers(n, k) == \A m \in 1..N : Nth(t, m) <= k => m <= n
           Late(x, k) == \E j \in (k + 1)..size : x \in Assigned(t, j)
           G(k) == \A n \in 0..N : Covers(n, k) => \A x : ~Late(x, k) => Knows(t, B[n], E[k], x)
           name(m) == t[<<Nth(t, m), 1>>].val
           folds(m) == FoldExpr(t, B[m - 1])[<<Nth(t, m), 2>>]
           S == {k \in 0..size : G(k)}
<1>1. /\ N \in Nat /\ size \in Nat
      /\ \A n \in 1..N : Nth(t, n) \in 1..size /\ t[<<Nth(t, n)>>].type = "assignment"
      /\ \A k \in 1..size : t[<<k>>].type = "assignment" => \E n \in 1..N : Nth(t, n) = k
      /\ \A m, n \in 1..N : m < n => Nth(t, m) < Nth(t, n)
  BY AssignmentOrder, StatementIs
<1>2. \A n \in 0..N : \A x : BoundTo(B[n], x) = UNION {folds(m) : m \in {i \in 1..n : name(i) = x}}
  BY TableIs
<1>3. E[0] = <<>> /\ \A k \in 1..size : E[k] = After(t, k, E[k - 1])
  BY EnvIs
<1>4. \A n \in 1..N : Assigned(t, Nth(t, n)) = {name(n)}
  BY <1>1 DEF Assigned
<1>5. \A m, n \in 1..N : name(m) = name(n) => m = n
  <2> SUFFICES ASSUME NEW m \in 1..N, NEW n \in 1..N, m # n PROVE name(m) # name(n)
    OBVIOUS
  <2>1. Nth(t, m) # Nth(t, n) /\ Nth(t, m) \in 1..size /\ Nth(t, n) \in 1..size
    <3>1. m < n \/ n < m
      BY <1>1
    <3>2. Nth(t, m) < Nth(t, n) \/ Nth(t, n) < Nth(t, m)
      BY <1>1, <3>1
    <3>3. Nth(t, m) \in 1..size /\ Nth(t, n) \in 1..size
      BY <1>1
    <3> HIDE DEF size
    <3> QED
      BY <1>1, <3>2, <3>3
  <2>2. Assigned(t, Nth(t, m)) \cap Assigned(t, Nth(t, n)) = {}
    BY <2>1 DEF Straight
  <2>3. Assigned(t, Nth(t, m)) = {name(m)} /\ Assigned(t, Nth(t, n)) = {name(n)}
    BY <1>4
  <2> HIDE DEF name
  <2> QED
    BY <2>2, <2>3
<1> HIDE DEF B, E, N, size, name, folds
<1>6. ASSUME NEW n \in 0..N, NEW x
       PROVE  \A v : v \in BoundTo(B[n], x) <=> \E m \in 1..n : name(m) = x /\ v \in folds(m)
  <2>1. BoundTo(B[n], x) = UNION {folds(m) : m \in {i \in 1..n : name(i) = x}}
    BY <1>2
  <2> QED
    BY <2>1
<1>7. 0 \in S
  <2>1. 0 \in 0..size
    BY <1>1
  <2> SUFFICES ASSUME NEW n \in 0..N, NEW x, ~Late(x, 0) PROVE Knows(t, B[n], E[0], x)
    BY <2>1
  <2>2. \A i \in 1..n : name(i) # x
    <3> SUFFICES ASSUME NEW i \in 1..n, name(i) = x PROVE FALSE
      OBVIOUS
    <3>1. i \in 1..N
      BY <1>1
    <3>2. Nth(t, i) \in 1..size
      BY <1>1, <3>1
    <3>3. Assigned(t, Nth(t, i)) = {name(i)}
      BY <1>4, <3>1
    <3>4. 0 + 1 = 1
      OBVIOUS
    <3> QED
      BY <3>2, <3>3, <3>4
  <2>3. BoundTo(B[n], x) = {}
    <3>1. \A v : v \notin BoundTo(B[n], x)
      BY <1>6, <2>2
    <3> QED
      BY <3>1
  <2>4. x \notin DOMAIN E[0]
    <3>1. DOMAIN <<>> = {}
      OBVIOUS
    <3> QED
      BY <1>3, <3>1
  <2> QED
    BY <2>3, <2>4 DEF Knows
<1>8. ASSUME NEW k \in 0..(size - 1), k \in S PROVE k + 1 \in S
  <2> PICK s : s = k + 1
    OBVIOUS
  <2>1. s \in 1..size /\ s \in 0..size /\ s - 1 = k /\ k \in Nat /\ s \in Nat
    BY <1>1
  <2>2. G(k)
    BY <1>8
  <2> SUFFICES ASSUME NEW n \in 0..N, Covers(n, s), NEW x, ~Late(x, s) PROVE Knows(t, B[n], E[s], x)
    BY <2>1
  <2>3. E[s] = After(t, s, E[k])
    BY <1>3, <2>1
  <2>4. ASSUME x \notin Assigned(t, s) PROVE Knows(t, B[n], E[s], x)
    <3>1. Covers(n, k)
      <4>1. \A m \in 1..N : Nth(t, m) <= k => Nth(t, m) <= s
        <5> SUFFICES ASSUME NEW m \in 1..N, Nth(t, m) <= k PROVE Nth(t, m) <= s
          OBVIOUS
        <5>1. Nth(t, m) \in 1..size
          BY <1>1
        <5> QED
          BY <1>1, <2>1, <5>1
      <4> QED
        BY <4>1
    <3>2. ~Late(x, k)
      <4>1. \A j \in (k + 1)..size : j = s \/ j \in (s + 1)..size
        <5>1. s = k + 1 /\ k \in Nat /\ size \in Nat
          BY <1>1, <2>1
        <5> QED
          BY <5>1
      <4> QED
        BY <2>4, <4>1
    <3>3. Knows(t, B[n], E[k], x)
      BY <2>2, <3>1, <3>2
    <3>4. (x \in DOMAIN E[s] <=> x \in DOMAIN E[k]) /\ (x \in DOMAIN E[k] => E[s][x] = E[k][x])
      <4> PICK e, g : e = E[k] /\ g = E[s]
        OBVIOUS
      <4>1. g = [y \in DOMAIN e \cup Assigned(t, s) |->
                   IF y \in Assigned(t, s) THEN ValueOf(t, e)[<<s, 2>>] ELSE e[y]]
        BY <2>3 DEF After
      <4>2. DOMAIN g = DOMAIN e \cup Assigned(t, s)
        BY <4>1
      <4>3. x \in DOMAIN e => g[x] = e[x]
        BY <2>4, <4>1
      <4> QED
        BY <2>4, <4>2, <4>3
    <3> QED
      BY <3>3, <3>4 DEF Knows
  <2>5. ASSUME x \in Assigned(t, s) PROVE Knows(t, B[n], E[s], x)
    <3>1. t[<<s>>].type = "assignment"
      BY <2>5 DEF Assigned
    <3>2. PICK r \in 1..N : Nth(t, r) = s
      BY <1>1, <2>1, <3>1
    <3>3. name(r) = x /\ Assigned(t, s) = {x}
      BY <1>4, <2>5, <3>2
    <3>4. r <= n /\ r - 1 \in 0..N /\ r \in 1..n
      <4>1. r <= n
        BY <2>1, <3>2
      <4> QED
        BY <1>1, <4>1
    <3>5. BoundTo(B[n], x) = folds(r)
      <4>1. \A i \in 1..n : i \in 1..N
        BY <1>1
      <4>2. \A i \in 1..n : name(i) = x => i = r
        BY <1>5, <3>3, <4>1
      <4>3. \A v : v \in BoundTo(B[n], x) <=> v \in folds(r)
        BY <1>6, <3>3, <3>4, <4>2
      <4> QED
        BY <4>3
    <3>6. Covers(r - 1, k)
      <4> SUFFICES ASSUME NEW m \in 1..N, Nth(t, m) <= k PROVE m <= r - 1
        OBVIOUS
      <4>1. Nth(t, m) < Nth(t, r)
        <5>1. Nth(t, m) \in 1..size
          BY <1>1
        <5> QED
          BY <1>1, <2>1, <3>2, <5>1
      <4>2. ~(r < m)
        <5>1. r < m => Nth(t, r) < Nth(t, m)
          BY <1>1
        <5>2. Nth(t, m) \in 1..size /\ Nth(t, r) \in 1..size
          BY <1>1
        <5> QED
          BY <1>1, <4>1, <5>1, <5>2
      <4>3. r # m
        BY <1>1, <2>1, <3>2
      <4> QED
        BY <1>1, <4>2, <4>3
    <3> DEFINE X == Below(t, s)
    <3>7. ASSUME NEW a \in X, t[a].type = "identifier"
          PROVE  Knows(t, B[r - 1], E[k], t[a].val)
      <4>1. t[a].val \in Used(t, s)
        BY <2>1, <3>7, BelowIs DEF size
      <4>2. ~Late(t[a].val, k)
        <5>1. \A j \in s..size : Assigned(t, j) \cap Used(t, s) = {}
          BY <2>1 DEF Straight, size
        <5> QED
          BY <4>1, <5>1
      <4> QED
        BY <2>2, <3>4, <3>6, <4>2
    <3>8. /\ X \in SUBSET DOMAIN t /\ \A a \in X : \A i \in 1..t[a].size : Append(a, i) \in X
          /\ \A a \in X : PlainText(ValueOf(t, E[k])[a])
      BY <2>1, BelowIs, PlainBelow DEF size, Below, E
    <3> PICK p, F, v : p = <<s, 2>> /\ F = FoldExpr(t, B[r - 1])[p] /\ v = ValueOf(t, E[k])[p]
      OBVIOUS
    <3>9. p \in X
      BY <2>1, <3>1, BelowIs DEF size, Expression
    <3>10. Agrees(t, p, F, v)
      <4> HIDE DEF X
      <4>1. \A a \in X : Agrees(t, a, FoldExpr(t, B[r - 1])[a], ValueOf(t, E[k])[a])
        BY <3>7, <3>8, ExpressionAgrees
      <4> QED
        BY <3>9, <4>1
    <3>11. F = BoundTo(B[n], x) /\ x \in DOMAIN E[s] /\ E[s][x] = v
      <4>1. F = folds(r)
        BY <3>2 DEF folds
      <4> PICK e, g : e = E[k] /\ g = E[s]
        OBVIOUS
      <4>2. g = [y \in DOMAIN e \cup Assigned(t, s) |->
                   IF y \in Assigned(t, s) THEN ValueOf(t, e)[<<s, 2>>] ELSE e[y]]
        BY <2>3 DEF After
      <4>3. x \in DOMAIN g /\ g[x] = ValueOf(t, e)[<<s, 2>>]
        BY <2>5, <4>2
      <4> QED
        BY <3>5, <4>1, <4>3
    <3>12. /\ <<s>> \in DOMAIN t /\ p \in DOMAIN t
           /\ Kid(t, <<s>>, 1).type = "identifier" /\ Kid(t, <<s>>, 2) = t[p] /\ Append(<<s>>, 2) = p
      <4>1. <<s>> \in DOMAIN t /\ <<s, 2>> \in DOMAIN t /\ Kid(t, <<s>>, 2) = t[<<s, 2>>]
        BY <2>1, <3>1, StatementIs DEF size
      <4>2. Append(<<s>>, 2) = <<s, 2>>
        BY <2>1, Address
      <4> QED
        BY <3>1, <4>1, <4>2 DEF Straight
    <3>13. Traced(t[p], Kid(t, p, 2)) /\ ~OfBuiltins(t[p])
      <4>1. /\ Kid(t, <<s>>, 2).type = "identifier" => Kid(t, <<s>>, 2).val \notin Builtins \cup DangerFunc
            /\ Kid(t, <<s>>, 2).type = "subscript" => Kid(t, Append(<<s>>, 2), 2).type # "string"
        BY <3>1, <3>12 DEF InReach
      <4> QED
        BY <3>12, <4>1 DEF Traced, OfBuiltins
    <3>14. x \notin Builtins
      BY <2>1, <3>3 DEF Straight, size
    <3> QED
      BY <3>10, <3>11, <3>13, <3>14 DEF Agrees, Knows
  <2> QED
    BY <2>4, <2>5
<1>9. \A k \in 0..size : k \in S
  <2> HIDE DEF S
  <2> QED
    BY <1>1, <1>7, <1>8, CountingUp
<1>10. \A k \in 0..size : G(k)
  BY <1>9
<1> QED
  BY <1>10 DEF B, E, N, size

-----------------------------------------------------------------------------
(* Calls                                                                   *)

\* A call is in the expression of its statement.
LEMMA CallIsBelow ==
  ASSUME NEW t, IsProgram(t), Straight(t), NEW a \in DOMAIN t, t[a].type = "call"
  PROVE  /\ a # <<>> /\ a[1] \in 1..t[<<>>].size /\ a \in Below(t, a[1])
         /\ Append(a, 1) \in Below(t, a[1]) /\ Append(a, 1) \in DOMAIN t
<1> DEFINE k == a[1]
           Up(n) == SubSeq(a, 1, n)
<1>1. a \in Seq(Nat) /\ Len(a) \in Nat /\ a # <<>>
  BY TreeIs DEF IsProgram, IsTree
<1>2. Len(a) > 0 /\ 0 \in 0..(Len(a) - 1)
  BY <1>1, EmptySeq
<1>3. \A n \in 0..(Len(a) - 1) : Up(n) \in DOMAIN t /\ a[n + 1] \in 1..t[Up(n)].size
  BY DEF IsProgram, IsTree
<1>4. Up(0) = <<>> /\ Up(Len(a)) = a
  BY <1>1, SubSeqEmpty, SubSeqFull
<1>5. k \in 1..t[<<>>].size /\ k \in Nat
  <2>1. a[0 + 1] \in 1..t[<<>>].size
    BY <1>2, <1>3, <1>4
  <2>2. 0 + 1 = 1
    OBVIOUS
  <2> QED
    BY <2>1, <2>2, StatementIs
<1>6. Up(1) = <<k>>
  <2>1. /\ Up(1) \in Seq(Nat) /\ Len(Up(1)) = 1 /\ Up(1)[1] = k
    <3>1. 1 \in 0..Len(a) /\ 1 \in 1..1
      BY <1>1, <1>2
    <3> QED
      BY <1>1, <3>1, Beginning
  <2> PICK u, s : u = Up(1) /\ s = <<k>>
    OBVIOUS
  <2>2. s \in Seq(Nat) /\ Len(s) = 1 /\ s[1] = k
    BY <1>5
  <2>3. Len(u) = Len(s) /\ \A n \in 1..Len(u) : u[n] = s[n]
    BY <2>1, <2>2
  <2>4. u = s
    BY <2>1, <2>2, <2>3, SeqEqual
  <2> QED
    BY <2>4
<1> HIDE DEF k, Up
<1>7. ASSUME NEW p, p \in Seq(Nat), NEW n \in 0..Len(a), Len(p) = n, Up(n) = p
      PROVE  IsPrefix(p, a)
  <2>1. SubSeq(p, 1, n) = p
    BY <1>7, SubSeqFull
  <2> QED
    BY <1>1, <1>7, <2>1 DEF IsPrefix, Up
<1>8. IsPrefix(Expression(t, k), a)
  <2>1. CASE t[<<k>>].type # "assignment"
    <3>1. Expression(t, k) = <<k>>
      BY <2>1 DEF Expression
    <3> PICK s : s = <<k>>
      OBVIOUS
    <3>2. s \in Seq(Nat) /\ Len(s) = 1 /\ 1 \in 0..Len(a)
      BY <1>1, <1>2, <1>5
    <3>3. IsPrefix(s, a)
      BY <1>6, <1>7, <3>2
    <3> QED
      BY <3>1, <3>3
  <2>2. CASE t[<<k>>].type = "assignment"
    <3>1. Len(a) # 1
      BY <1>4, <1>6, <2>2
    <3>2. 1 \in 0..(Len(a) - 1) /\ 2 \in 0..Len(a) /\ (Len(a) # 2 => 2 \in 0..(Len(a) - 1))
      <4> PICK l : l = Len(a)
        OBVIOUS
      <4>1. l \in Nat /\ l > 0 /\ l # 1
        BY <1>1, <1>2, <3>1
      <4>2. 1 \in 0..(l - 1) /\ 2 \in 0..l /\ (l # 2 => 2 \in 0..(l - 1))
        BY <4>1
      <4> QED
        BY <4>2
    <3>3. <<k>> \in DOMAIN t /\ t[<<k>>].size = 2 /\ t[<<k, 1>>].type = "identifier" /\ <<k, 1>> \in DOMAIN t
      <4>1. <<k>> \in DOMAIN t /\ Kid(t, <<k>>, 1) = t[<<k, 1>>] /\ <<k, 1>> \in DOMAIN t
        BY <1>5, <2>2, StatementIs
      <4> QED
        BY <2>2, <4>1 DEF Straight
    <3>4. a[2] \in 1..2
      <4>1. a[1 + 1] \in 1..2
        BY <1>3, <1>6, <3>2, <3>3
      <4>2. 1 + 1 = 2
        OBVIOUS
      <4> QED
        BY <4>1, <4>2
    <3>5. Up(2) = <<k, a[2]>>
      <4> PICK u, i : u = Up(2) /\ i = a[2]
        OBVIOUS
      <4>1. u \in Seq(Nat) /\ Len(u) = 2 /\ u[1] = k /\ u[2] = i
        <5>1. 1 \in 1..2 /\ 2 \in 1..2
          OBVIOUS
        <5> QED
          BY <1>1, <3>2, <5>1, Beginning DEF Up, k
      <4> PICK s : s = <<k, i>>
        OBVIOUS
      <4>2. s \in Seq(Nat) /\ Len(s) = 2 /\ s[1] = k /\ s[2] = i
        BY <1>5, <3>4
      <4>3. Len(u) = Len(s) /\ \A n \in 1..Len(u) : u[n] = s[n]
        BY <4>1, <4>2
      <4>4. u = s
        BY <4>1, <4>2, <4>3, SeqEqual
      <4> QED
        BY <4>4
    <3>6. a[2] # 1
      <4> SUFFICES ASSUME a[2] = 1 PROVE FALSE
        OBVIOUS
      <4>1. Up(2) = <<k, 1>>
        BY <3>5
      <4>2. t[Up(2)].type = "identifier" /\ t[Up(2)].size = 0
        BY <3>3, <4>1 DEF IsProgram, IsTree
      <4>3. Len(a) # 2
        BY <1>4, <4>2
      <4>4. 2 \in 0..(Len(a) - 1)
        BY <3>2, <4>3
      <4>5. a[2 + 1] \in 1..0
        BY <1>3, <4>2, <4>4
      <4> QED
        BY <4>5
    <3>7. a[2] = 2
      BY <3>4, <3>6
    <3>8. Expression(t, k) = <<k, 2>> /\ Up(2) = <<k, 2>>
      BY <2>2, <3>5, <3>7 DEF Expression
    <3> PICK s : s = <<k, 2>>
      OBVIOUS
    <3>9. s \in Seq(Nat) /\ Len(s) = 2
      BY <1>5
    <3>10. IsPrefix(s, a)
      BY <1>7, <3>2, <3>8, <3>9
    <3> QED
      BY <3>8, <3>10
  <2> QED
    BY <2>1, <2>2
<1>9. a \in Below(t, k)
  BY <1>8 DEF Below
<1>10. 1 \in 1..t[a].size
  <2>1. t[a].size \in Nat /\ t[a].size >= Arity(t[a].type)
    BY DEF IsProgram, IsTree
  <2>2. Arity(t[a].type) = 1
    BY DEF Arity
  <2> QED
    BY <2>1, <2>2
<1>11. Append(a, 1) \in Below(t, k) /\ Append(a, 1) \in DOMAIN t
  BY <1>5, <1>9, <1>10, BelowIs, TreeIs
<1> QED
  BY <1>1, <1>5, <1>9, <1>11 DEF k

\* The final table tells of every expression of a call.
LEMMA CallAgrees ==
  ASSUME NEW t, IsProgram(t), Straight(t), InReach(t), NEW a \in DOMAIN t, t[a].type = "call"
  PROVE  \A b \in Below(t, a[1]) :
           Agrees(t, b, FoldExpr(t, CollectBindings(t))[b], ValueOf(t, Env(t)[a[1] - 1])[b])
<1> DEFINE N == Cardinality(Assignments(t))
           X == Below(t, a[1])
           size == t[<<>>].size
<1> PICK k : k = a[1]
  OBVIOUS
<1>1. k \in 1..size /\ size \in Nat /\ N \in Nat
  BY CallIsBelow, StatementIs, AssignmentOrder
<1>2. k - 1 \in 0..size /\ (k - 1) + 1 = k /\ N \in 0..N
  <2> HIDE DEF size, N
  <2> QED
    BY <1>1
<1>3. ASSUME NEW b \in X, t[b].type = "identifier"
      PROVE  Knows(t, CollectBindings(t), Env(t)[k - 1], t[b].val)
  <2>1. t[b].val \in Used(t, k)
    BY <1>1, <1>3, BelowIs
  <2>2. \A j \in k..size : t[b].val \notin Assigned(t, j)
    BY <1>1, <2>1 DEF Straight
  <2>3. \A m \in 1..N : Nth(t, m) <= k - 1 => m <= N
    <3> HIDE DEF N
    <3> QED
      BY <1>1
  <2>4. Knows(t, Bindings(t)[N], Env(t)[k - 1], t[b].val)
    <3> PICK n, j : n = N /\ j = k - 1
      OBVIOUS
    <3>1. \A x : (\A i \in (j + 1)..size : x \notin Assigned(t, i)) => Knows(t, Bindings(t)[n], Env(t)[j], x)
      BY <1>2, <2>3, TableKnows
    <3> HIDE DEF N, size
    <3> QED
      BY <1>2, <2>2, <3>1
  <2> QED
    BY <2>4 DEF CollectBindings
<1>4. /\ X \in SUBSET DOMAIN t /\ \A b \in X : \A i \in 1..t[b].size : Append(b, i) \in X
      /\ \A b \in X : PlainText(ValueOf(t, Env(t)[k - 1])[b])
  BY <1>1, BelowIs, PlainBelow DEF Below
<1> HIDE DEF X
<1>5. \A b \in X : Agrees(t, b, FoldExpr(t, CollectBindings(t))[b], ValueOf(t, Env(t)[k - 1])[b])
  BY <1>3, <1>4, ExpressionAgrees
<1> QED
  BY <1>5 DEF X

\* The taint pass reports only calls of dangerous builtins.
LEMMA TaintIsRight ==
  ASSUME NEW t, IsProgram(t), Straight(t), InReach(t)
  PROVE  AnalyzeTaint(t) \subseteq HarmfulCalls(t)
<1> SUFFICES ASSUME NEW a \in AnalyzeTaint(t) PROVE a \in HarmfulCalls(t)
  OBVIOUS
<1> PICK fn, F, v : /\ fn = Append(a, 1) /\ F = FoldExpr(t, CollectBindings(t))[fn]
                    /\ v = ValueOf(t, Env(t)[a[1] - 1])[fn]
  OBVIOUS
<1>1. a \in DOMAIN t /\ t[a].type = "call" /\ CallTarget(t, fn, CollectBindings(t)) # {}
  BY DEF AnalyzeTaint
<1>2. PICK name \in DangerFunc : Marked(name) \in F
  BY <1>1 DEF CallTarget, Marked
<1>3. a # <<>> /\ Agrees(t, fn, F, v)
  BY <1>1, CallIsBelow, CallAgrees
<1>4. v.kind = "function" /\ v.val \in DangerFunc
  <2>1. Tells(F, v)
    BY <1>3 DEF Agrees
  <2>2. v = [kind |-> "function", val |-> name]
    BY <1>2, <2>1, Zenon DEF Tells
  <2> QED
    BY <2>2
<1> QED
  BY <1>1, <1>3, <1>4, Zenon DEF HarmfulCalls

\* A call of a dangerous builtin is found by a query or by the taint pass.
LEMMA HarmIsFound ==
  ASSUME NEW t, IsProgram(t), Straight(t), InReach(t), HarmfulCalls(t) # {}, Clear(t)
  PROVE  AnalyzeTaint(t) # {}
<1> PICK a \in HarmfulCalls(t) : TRUE
  OBVIOUS
<1> PICK env, fn : env = Env(t)[a[1] - 1] /\ fn = Append(a, 1)
  OBVIOUS
<1> DEFINE F(b) == FoldExpr(t, CollectBindings(t))[b]
           v(b) == ValueOf(t, env)[b]
<1>1. a \in DOMAIN t /\ t[a].type = "call" /\ v(fn).kind = "function" /\ v(fn).val \in DangerFunc
  BY DEF HarmfulCalls
<1>2. /\ a[1] \in 1..t[<<>>].size /\ fn \in Below(t, a[1]) /\ fn \in DOMAIN t
      /\ \A b \in Below(t, a[1]) : Agrees(t, b, F(b), v(b))
  BY <1>1, CallIsBelow, CallAgrees
<1>3. v(fn) = Meaning(t, fn, [i \in 1..t[fn].size |-> v(Append(fn, i))], env)
  BY <1>2, ValueAt
<1> HIDE DEF F, v
<1>4. t[fn].type \in {"identifier", "call", "subscript"}
  <2> SUFFICES ASSUME t[fn].type \notin {"identifier", "call", "subscript"} PROVE v(fn).kind \in {"text", "other"}
    BY <1>1
  <2> PICK V : v(fn) = Meaning(t, fn, V, env)
    BY <1>3
  <2>1. CASE t[fn].type = "string"
    BY <2>1 DEF Meaning
  <2>2. CASE t[fn].type = "binary_operator" /\ t[fn].val = <<"+">>
    <3>1. v(fn) = IF V[1].kind = "text" /\ V[2].kind = "text"
                  THEN [kind |-> "text", val |-> V[1].val \o V[2].val]
                  ELSE [kind |-> "other", val |-> <<>>]
      BY <2>2 DEF Meaning
    <3>2. CASE V[1].kind = "text" /\ V[2].kind = "text"
      <4> PICK c : c = V[1].val \o V[2].val
        OBVIOUS
      <4>1. v(fn) = [kind |-> "text", val |-> c]
        BY <3>1, <3>2
      <4> QED
        BY <4>1
    <3>3. CASE ~(V[1].kind = "text" /\ V[2].kind = "text")
      <4>1. v(fn) = [kind |-> "other", val |-> <<>>]
        BY <3>1, <3>3
      <4> QED
        BY <4>1
    <3> QED
      BY <3>2, <3>3
  <2>3. CASE t[fn].type # "string" /\ ~(t[fn].type = "binary_operator" /\ t[fn].val = <<"+">>)
    <3>1. v(fn) = [kind |-> "other", val |-> <<>>]
      BY <2>3 DEF Meaning
    <3> QED
      BY <3>1
  <2> QED
    BY <2>1, <2>2, <2>3
<1>5. Kid(t, a, 1) = t[fn]
  BY DEF Kid
<1>6. t[fn].type = "identifier" => t[fn].val \notin DangerFunc
  BY <1>1, <1>5 DEF Clear, Queried, CalledByName
<1>7. ASSUME t[fn].type = "subscript", Kid(t, fn, 2).type = "string" PROVE FALSE
  <2>1. 1 \in 1..t[fn].size /\ 2 \in 1..t[fn].size
    <3>1. t[fn].size \in Nat /\ t[fn].size >= Arity(t[fn].type)
      BY <1>2 DEF IsProgram, IsTree
    <3>2. Arity(t[fn].type) = 2
      BY <1>7 DEF Arity
    <3> QED
      BY <3>1, <3>2
  <2> PICK of, key : of = Append(fn, 1) /\ key = Append(fn, 2)
    OBVIOUS
  <2>2. /\ of \in Below(t, a[1]) /\ key \in Below(t, a[1]) /\ key \in DOMAIN t
        /\ Kid(t, fn, 1) = t[of] /\ Kid(t, fn, 2) = t[key]
    BY <1>2, <2>1, BelowIs, TreeIs DEF Kid
  <2>3. v(of).kind = "builtins" /\ v(key).kind = "text" /\ v(fn).val = v(key).val
    <3> PICK V : V = [i \in 1..t[fn].size |-> v(Append(fn, i))]
      OBVIOUS
    <3>1. V[1] = v(of) /\ V[2] = v(key)
      BY <2>1
    <3>2. v(fn) = TakenBy(V, 1, 2)
      BY <1>3, <1>7 DEF Meaning, TakenBy
    <3>3. V[1].kind = "builtins" /\ V[2].kind = "text" /\ v(fn).val = V[2].val
      BY <1>1, <3>2 DEF TakenBy
    <3> QED
      BY <3>1, <3>3
  <2>4. OfBuiltins(t[of]) /\ v(key).val = t[key].val /\ v(key).val # Formatted
    BY <1>2, <1>7, <2>2, <2>3 DEF Agrees
  <2>5. IsPlainKey(t[key])
    BY <1>2, <1>7, <2>2, <2>4 DEF InReach
  <2>7. HoldsQuoted(t[key].raw)
    BY <1>1, <2>3, <2>4, <2>5, PlainKeyIsSeen
  <2>6. TakenFromBuiltins(t, a)
    BY <1>5, <1>7, <2>2, <2>4, <2>7 DEF TakenFromBuiltins
  <2> QED
    BY <1>1, <2>6 DEF Clear, Queried
<1>8. Marked(v(fn).val) \in F(fn)
  <2>1. Traced(t[fn], Kid(t, fn, 2))
    BY <1>6, <1>7 DEF Traced
  <2>2. Reaches(t, F(fn), v(fn))
    BY <1>2, <2>1 DEF Agrees
  <2> QED
    BY <1>1, <2>2 DEF Reaches
<1>9. CallTarget(t, fn, CollectBindings(t)) # {}
  BY <1>1, <1>4, <1>8 DEF CallTarget, Marked, F
<1> QED
  BY <1>1, <1>9 DEF AnalyzeTaint

\* WalkedBefore step by step: below, or to the right where the ways part.
Above(a, b) == Len(a) < Len(b) /\ \A i \in 1..Len(a) : a[i] = b[i]
LeftAt(a, b, n) ==
  n \in 1..Len(a) /\ n \in 1..Len(b) /\ a[n] < b[n] /\ \A i \in 1..(n - 1) : a[i] = b[i]

LEMMA SameBeginning ==
  ASSUME NEW a \in Seq(Nat), NEW b \in Seq(Nat), NEW n \in Nat, n <= Len(a), n <= Len(b)
  PROVE  SubSeq(a, 1, n) = SubSeq(b, 1, n) <=> \A i \in 1..n : a[i] = b[i]
<1> PICK x, y : x = SubSeq(a, 1, n) /\ y = SubSeq(b, 1, n)
  OBVIOUS
<1>1. /\ x \in Seq(Nat) /\ Len(x) = n /\ \A i \in 1..n : x[i] = a[i]
      /\ y \in Seq(Nat) /\ Len(y) = n /\ \A i \in 1..n : y[i] = b[i]
  <2>1. Len(a) \in Nat /\ Len(b) \in Nat
    BY LenProperties
  <2>2. n \in 0..Len(a) /\ n \in 0..Len(b)
    BY <2>1
  <2> QED
    BY <2>2, Beginning
<1>2. x = y => \A i \in 1..n : a[i] = b[i]
  BY <1>1
<1>3. (\A i \in 1..n : a[i] = b[i]) => x = y
  BY <1>1, SeqEqual
<1> QED
  BY <1>2, <1>3

LEMMA WalkedIs ==
  ASSUME NEW a \in Seq(Nat), NEW b \in Seq(Nat)
  PROVE  WalkedBefore(a, b) <=> Above(a, b) \/ \E n \in Nat : LeftAt(a, b, n)
<1>1. Len(a) \in Nat /\ Len(b) \in Nat
  BY LenProperties
<1>2. IsStrictPrefix(a, b) <=> Above(a, b)
  <2>1. SubSeq(a, 1, Len(a)) = a
    BY SubSeqFull
  <2>2. ASSUME Len(a) <= Len(b)
        PROVE  IsPrefix(a, b) <=> \A i \in 1..Len(a) : a[i] = b[i]
    <3>1. SubSeq(a, 1, Len(a)) = SubSeq(b, 1, Len(a)) <=> \A i \in 1..Len(a) : a[i] = b[i]
      BY <1>1, <2>2, SameBeginning
    <3> QED
      BY <2>2, <3>1 DEF IsPrefix
  <2>3. ASSUME Len(a) = Len(b), \A i \in 1..Len(a) : a[i] = b[i] PROVE a = b
    BY <2>3, SeqEqual
  <2>4. IsPrefix(a, b) => Len(a) <= Len(b)
    BY DEF IsPrefix
  <2> QED
    BY <1>1, <2>2, <2>3, <2>4 DEF IsStrictPrefix, Above
<1>3. ASSUME NEW n \in 1..Len(a), n <= Len(b)
      PROVE  SubSeq(a, 1, n - 1) = SubSeq(b, 1, n - 1) <=> \A i \in 1..(n - 1) : a[i] = b[i]
  <2>1. n - 1 \in Nat /\ n - 1 <= Len(a) /\ n - 1 <= Len(b)
    BY <1>1, <1>3
  <2> QED
    BY <2>1, SameBeginning
<1>4. (\E n \in 1..Len(a) :
         n <= Len(b) /\ SubSeq(a, 1, n - 1) = SubSeq(b, 1, n - 1) /\ a[n] < b[n])
        <=> \E n \in Nat : LeftAt(a, b, n)
  <2>1. ASSUME NEW n \in 1..Len(a), n <= Len(b), SubSeq(a, 1, n - 1) = SubSeq(b, 1, n - 1), a[n] < b[n]
        PROVE  n \in Nat /\ LeftAt(a, b, n)
    BY <1>1, <1>3, <2>1 DEF LeftAt
  <2>2. ASSUME NEW n \in Nat, LeftAt(a, b, n)
        PROVE  /\ n \in 1..Len(a) /\ n <= Len(b) /\ a[n] < b[n]
               /\ SubSeq(a, 1, n - 1) = SubSeq(b, 1, n - 1)
    <3>1. n \in 1..Len(a) /\ n <= Len(b) /\ a[n] < b[n] /\ \A i \in 1..(n - 1) : a[i] = b[i]
      BY <1>1, <2>2 DEF LeftAt
    <3> QED
      BY <1>3, <3>1
  <2> QED
    BY <2>1, <2>2
<1> QED
  BY <1>2, <1>4 DEF WalkedBefore

LEMMA WalkedOrder ==
  ASSUME NEW a \in Seq(Nat), NEW b \in Seq(Nat), NEW c \in Seq(Nat)
  PROVE  /\ ~WalkedBefore(a, a)
         /\ WalkedBefore(a, b) /\ WalkedBefore(b, c) => WalkedBefore(a, c)
<1>1. Len(a) \in Nat /\ Len(b) \in Nat /\ Len(c) \in Nat
  BY LenProperties
<1>2. /\ \A i \in 1..Len(a) : a[i] \in Nat
      /\ \A i \in 1..Len(b) : b[i] \in Nat
      /\ \A i \in 1..Len(c) : c[i] \in Nat
  BY ElementOfSeq
<1>3. ~WalkedBefore(a, a)
  <2>1. ~Above(a, a)
    BY <1>1 DEF Above
  <2>2. ASSUME NEW n \in Nat, LeftAt(a, a, n) PROVE FALSE
    BY <1>2, <2>2 DEF LeftAt
  <2> QED
    BY <2>1, <2>2, WalkedIs
<1>4. ASSUME WalkedBefore(a, b), WalkedBefore(b, c)
      PROVE  Above(a, c) \/ \E n \in Nat : LeftAt(a, c, n)
  <2>1. CASE Above(a, b) /\ Above(b, c)
    BY <1>1, <2>1 DEF Above
  <2>2. ASSUME Above(a, b), NEW n \in Nat, LeftAt(b, c, n)
        PROVE  Above(a, c) \/ LeftAt(a, c, n)
    BY <1>1, <2>2 DEF Above, LeftAt
  <2>3. ASSUME NEW n \in Nat, LeftAt(a, b, n), Above(b, c)
        PROVE  LeftAt(a, c, n)
    BY <1>1, <2>3 DEF Above, LeftAt
  <2>4. ASSUME NEW m \in Nat, LeftAt(a, b, m), NEW n \in Nat, LeftAt(b, c, n)
        PROVE  LeftAt(a, c, m) \/ LeftAt(a, c, n)
    <3>1. CASE m < n
      <4>1. m \in 1..(n - 1) /\ m \in 1..Len(c) /\ \A i \in 1..(m - 1) : i \in 1..(n - 1)
        BY <1>1, <2>4, <3>1 DEF LeftAt
      <4> QED
        BY <2>4, <4>1 DEF LeftAt
    <3>2. CASE m = n
      BY <1>1, <1>2, <2>4, <3>2 DEF LeftAt
    <3>3. CASE n < m
      BY <1>1, <2>4, <3>3 DEF LeftAt
    <3> QED
      BY <3>1, <3>2, <3>3
  <2> QED
    BY <1>4, <2>1, <2>2, <2>3, <2>4, WalkedIs
<1> QED
  BY <1>3, <1>4, WalkedIs

\* So that among some nodes there is a first.
LEMMA FirstOfErrors ==
  ASSUME NEW t, IsTree(t), NEW S \in SUBSET DOMAIN t, S # {}
  PROVE  \E a \in S : \A b \in S : ~WalkedBefore(b, a)
<1>1. IsFiniteSet(S) /\ \A a \in S : a \in Seq(Nat)
  BY FS_Subset DEF IsTree
<1> DEFINE Before(a) == {b \in S : WalkedBefore(b, a)}
           I == {Cardinality(Before(a)) : a \in S}
<1>2. \A a \in S : IsFiniteSet(Before(a)) /\ Cardinality(Before(a)) \in Nat
  BY <1>1, FS_Subset, FS_CardinalityType
<1>3. I \in SUBSET Nat /\ I # {} /\ IsFiniteSet(I)
  <2>1. \A a \in S : Cardinality(Before(a)) <= Cardinality(S)
    BY <1>1, FS_Subset
  <2>2. Cardinality(S) \in Nat
    BY <1>1, FS_CardinalityType
  <2>3. I \subseteq 0..Cardinality(S)
    <3> HIDE DEF Before
    <3> QED
      BY <1>2, <2>1, <2>2
  <2>4. IsFiniteSet(0..Cardinality(S))
    BY <2>2, FS_Interval
  <2> QED
    <3>1. I # {} /\ IsFiniteSet(I)
      <4>1. I # {}
        OBVIOUS
      <4> HIDE DEF I
      <4> QED
        BY <2>3, <2>4, <4>1, FS_Subset
    <3>2. 0..Cardinality(S) \subseteq Nat
      BY <2>2
    <3> HIDE DEF I, Before
    <3> QED
      BY <2>3, <3>1, <3>2
<1>4. PICK n \in I : \A m \in I : n <= m
  <2> HIDE DEF I
  <2> QED
    BY <1>3, LeastIndex
<1>5. PICK a \in S : n = Cardinality(Before(a))
  OBVIOUS
<1>6. ASSUME NEW b \in S, WalkedBefore(b, a) PROVE FALSE
  <2>1. Before(b) \subseteq Before(a) /\ b \in Before(a) /\ b \notin Before(b)
    BY <1>1, <1>6, WalkedOrder
  <2>2. Cardinality(Before(b)) < Cardinality(Before(a))
    <3>1. Before(b) \subseteq Before(a) /\ Before(b) # Before(a) /\ IsFiniteSet(Before(a))
      BY <1>2, <2>1
    <3> HIDE DEF Before
    <3>2. Cardinality(Before(b)) <= Cardinality(Before(a))
           /\ (Cardinality(Before(b)) = Cardinality(Before(a)) => Before(b) = Before(a))
      BY <3>1, FS_Subset
    <3> QED
      BY <1>2, <3>1, <3>2
  <2>3. Cardinality(Before(b)) \in I
    OBVIOUS
  <2> HIDE DEF Before, I
  <2> QED
    BY <1>2, <1>4, <1>5, <2>2, <2>3
<1> QED
  BY <1>6

\* An error below a destructive keyword is found, unless another scope starts
\* where its scope does.
LEMMA KeywordIsFound ==
  ASSUME NEW t, IsTree(t), NEW err \in Errors(t), t[Scope(t, err)].keyword,
         \A other \in Errors(t) : SameStart(t, other, err) => Scope(t, other) = Scope(t, err)
  PROVE  ParseErrorGuard(t)
<1> DEFINE S == {e \in Errors(t) : SameStart(t, e, err)}
<1>1. S \in SUBSET DOMAIN t /\ err \in S
  BY DEF Errors, SameStart
<1>2. PICK first \in S : \A other \in S : ~WalkedBefore(other, first)
  BY <1>1, FirstOfErrors
<1>3. first \in Errors(t) /\ SameStart(t, first, err) /\ Scope(t, first) = Scope(t, err)
  OBVIOUS
<1>4. ASSUME NEW other \in Errors(t), WalkedBefore(other, first) PROVE ~SameStart(t, other, first)
  BY <1>2, <1>3, <1>4 DEF SameStart
<1> QED
  BY <1>3, <1>4 DEF ParseErrorGuard

-----------------------------------------------------------------------------
(* What the gate makes of it                                               *)

LEMMA Judged ==
  ASSUME NEW i \in DOMAIN gateFragments, gateFragments[i].code \in DOMAIN Code,
         \A j \in DOMAIN gateFragments :
           Dangerous(gateFragments[j].lang, gateFragments[j].code) => gateBlocks
  PROVE  LET code == gateFragments[i].code
             program == Code[code].program
             sql == Code[code].sql
         IN  /\ gateFragments[i].lang = "python" /\ Straight(program) /\ InReach(program) =>
                  /\ AnalyzeTaint(program) \subseteq HarmfulCalls(program)
                  /\ HarmfulCalls(program) # {} /\ Code[code].raises = {} => gateBlocks
             /\ gateFragments[i].lang = "sql" /\ Code[code].raises \cap {"parser", "guard"} = {} =>
                  \A err \in Errors(sql) :
                    sql[Scope(sql, err)].keyword =>
                      \/ gateBlocks
                      \/ \E other \in Errors(sql) :
                           Scope(sql, other) # Scope(sql, err) /\ SameStart(sql, other, err)
<1> PICK code, lang, program, sql, raises :
      /\ code = gateFragments[i].code /\ lang = gateFragments[i].lang
      /\ program = Code[code].program /\ sql = Code[code].sql /\ raises = Code[code].raises
  OBVIOUS
<1>1. IsProgram(program) /\ IsTree(sql)
  BY GuardAssumption
<1>2. Dangerous(lang, code) => gateBlocks
  OBVIOUS
<1>3. ASSUME lang = "python", Straight(program), InReach(program)
      PROVE  /\ AnalyzeTaint(program) \subseteq HarmfulCalls(program)
             /\ HarmfulCalls(program) # {} /\ raises = {} => gateBlocks
  <2>1. AnalyzeTaint(program) \subseteq HarmfulCalls(program)
    BY <1>1, <1>3, TaintIsRight
  <2>2. ASSUME HarmfulCalls(program) # {}, raises = {} PROVE Dangerous(lang, code)
    <3>1. Clear(program) => AnalyzeTaint(program) # {}
      BY <1>1, <1>3, <2>2, HarmIsFound
    <3>2. (\E a \in DOMAIN program : Queried(program, a)) \/ AnalyzeTaint(program) # {}
      BY <3>1 DEF Clear
    <3> QED
      BY <1>3, <2>2, <3>2 DEF Dangerous
  <2> QED
    BY <1>2, <2>1, <2>2
<1>4. ASSUME lang = "sql", raises \cap {"parser", "guard"} = {},
             NEW err \in Errors(sql), sql[Scope(sql, err)].keyword,
             \A other \in Errors(sql) :
               ~(Scope(sql, other) # Scope(sql, err) /\ SameStart(sql, other, err))
      PROVE  gateBlocks
  <2>1. ParseErrorGuard(sql)
    BY <1>1, <1>4, KeywordIsFound
  <2>2. Dangerous(lang, code)
    BY <1>4, <2>1 DEF Dangerous
  <2> QED
    BY <1>2, <2>2
<1> QED
  BY <1>3, <1>4

\* AST gate: a straight Python program within reach that calls a dangerous
\* builtin is blocked if no pass raises, the taint pass reports only such calls,
\* and an error below a destructive keyword is blocked unless another scope
\* starts where its scope does, whatever the code, the bodies and the names, of
\* which none is the beginning of another.
THEOREM GateJudges == GateSpec => []CodeIsJudgedByItsEffect
<1>1. GateInv => CodeIsJudgedByItsEffect
  <2> SUFFICES ASSUME GateInv PROVE CodeIsJudgedByItsEffect
    OBVIOUS
  <2>1. CASE gateBody = <<>>
    <3>1. DOMAIN gateFragments = {}
      BY <2>1 DEF GateInv
    <3> QED
      BY <3>1 DEF CodeIsJudgedByItsEffect
  <2>2. CASE gateBody # <<>>
    <3>1. \A j \in DOMAIN gateFragments :
            Dangerous(gateFragments[j].lang, gateFragments[j].code) => gateBlocks
      BY <2>2 DEF GateInv
    <3> QED
      BY <3>1, Judged DEF CodeIsJudgedByItsEffect
  <2> QED
    BY <2>1, <2>2
<1> QED
  BY <1>1, GateInvariant, PTL
=============================================================================
