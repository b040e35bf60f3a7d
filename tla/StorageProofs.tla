--------------------------- MODULE StorageProofs ---------------------------
(***************************************************************************)
(* Proofs about Storage, for every size of batch and buffer, every number  *)
(* of attempts and any failures of database and disk: its memory stays     *)
(* bounded and in order, no record is retried too often, and it implements *)
(* the decision log of DecisionLog.                                        *)
(*                                                                         *)
(* None of these holds step by step without what is known of the middle of *)
(* a round of retries: what the loop has still to try and what it could    *)
(* not write are parts of the degraded-mode buffer, in order, and all else *)
(* of that buffer is in the table by then.                                 *)
(***************************************************************************)
EXTENDS Storage, SequenceTheorems, TLAPS

Increasing(q) == \A i, j \in 1 .. Len(q) : i < j => q[i] < q[j]

Below(A, B) == \A x \in A, y \in B : x < y

\* What is in memory, and what went to the disk outside the table.
Held == ToSet(pending) \cup ToSet(buffer)
Evicted == log \cup dropped

\* Decisions are numbered as they arrive; those in memory are in order, the
\* evicted ones are older.
QueuesOK ==
  /\ Increasing(pending)
  /\ Increasing(buffer)
  /\ Below(ToSet(pending), ToSet(buffer))
  /\ Below(Evicted, Held)
  /\ Held \cup Evicted \subseteq 1 .. saved

\* A round of retries: what it has still to try comes after what it could not
\* write, and what is in neither is in the table.
RoundOK ==
  /\ ~busy => retry = <<>> /\ remaining = <<>>
  /\ busy => buffer = <<>> /\ ToSet(pending) \subseteq ToSet(retry) \cup ToSet(remaining) \cup table
  /\ Increasing(retry)
  /\ Increasing(remaining)
  /\ Below(ToSet(remaining), ToSet(retry))
  /\ ToSet(retry) \cup ToSet(remaining) \subseteq ToSet(pending)
  /\ Len(retry) + Len(remaining) <= Len(pending)

\* The rows of the open transaction are never the only copy of a decision.
TxnOK == txn \subseteq Held \cup table \cup Evicted

\* How often a record can have been tried when a round begins: no more often
\* than rounds have failed since it joined, and not at all at the cap, where
\* every failed round empties the buffer.
RoundsBehind == IF failures < MaxAttempts THEN failures ELSE 0

TriesOK ==
  /\ RetriesBounded
  /\ \A d \in Decision : d > saved => tries[d] = 0
  /\ \A d \in ToSet(buffer) : tries[d] = 0
  /\ ~busy => \A d \in ToSet(pending) : tries[d] <= RoundsBehind
  /\ \A d \in ToSet(retry) : tries[d] <= RoundsBehind
  /\ \A d \in ToSet(remaining) : tries[d] <= RoundsBehind + 1

StorageInv ==
  /\ StorageTypeOK
  /\ QueuesOK
  /\ RoundOK
  /\ TxnOK
  /\ TriesOK

-----------------------------------------------------------------------------
LEMMA RangeOf ==
  ASSUME NEW S, NEW q \in Seq(S)
  PROVE  /\ Len(q) \in Nat
         /\ DOMAIN q = 1 .. Len(q)
         /\ ToSet(q) = {q[i] : i \in 1 .. Len(q)}
         /\ ToSet(q) \subseteq S
<1>1. Len(q) \in Nat /\ DOMAIN q = 1 .. Len(q)
  OBVIOUS
<1>2. ToSet(q) = {q[i] : i \in 1 .. Len(q)}
  BY <1>1 DEF ToSet
<1>3. \A i \in 1 .. Len(q) : q[i] \in S
  OBVIOUS
<1> QED BY <1>1, <1>2, <1>3

LEMMA EmptyRange == ToSet(<<>>) = {} /\ Increasing(<<>>)
BY DEF ToSet, Increasing

\* One more record behind older ones.
LEMMA AppendRange ==
  ASSUME NEW S, NEW q \in Seq(S), NEW x \in S
  PROVE  /\ Append(q, x) \in Seq(S)
         /\ Len(Append(q, x)) = Len(q) + 1
         /\ ToSet(Append(q, x)) = ToSet(q) \cup {x}
         /\ Increasing(q) /\ Below(ToSet(q), {x}) => Increasing(Append(q, x))
<1> DEFINE p == Append(q, x)
<1>1. /\ p \in Seq(S)
      /\ Len(p) = Len(q) + 1
      /\ Len(q) \in Nat
      /\ \A i \in 1 .. Len(q) : p[i] = q[i]
      /\ p[Len(q) + 1] = x
  BY AppendProperties
<1> HIDE DEF p
<1>2. ToSet(p) = {p[i] : i \in 1 .. Len(p)} /\ ToSet(q) = {q[i] : i \in 1 .. Len(q)}
  BY <1>1, RangeOf
<1>3. ToSet(p) \subseteq ToSet(q) \cup {x}
  BY <1>1, <1>2
<1>4. ToSet(q) \cup {x} \subseteq ToSet(p)
  BY <1>1, <1>2
<1>5. ASSUME Increasing(q), Below(ToSet(q), {x}),
             NEW i \in 1 .. Len(p), NEW j \in 1 .. Len(p), i < j
      PROVE  p[i] < p[j]
  <2>1. i \in 1 .. Len(q) /\ p[i] = q[i] /\ q[i] \in ToSet(q)
    BY <1>1, <1>2, <1>5
  <2>2. CASE j = Len(q) + 1
    BY <1>1, <1>5, <2>1, <2>2 DEF Below
  <2>3. CASE j # Len(q) + 1
    <3>1. j \in 1 .. Len(q)
      BY <1>1, <2>3
    <3> QED BY <1>1, <1>5, <2>1, <3>1 DEF Increasing
  <2> QED BY <2>2, <2>3
<1>6. Increasing(q) /\ Below(ToSet(q), {x}) => Increasing(p)
  BY <1>5 DEF Increasing
<1> QED BY <1>1, <1>3, <1>4, <1>6 DEF p

\* A batch behind the records that wait already.
LEMMA ConcatRange ==
  ASSUME NEW S, NEW a \in Seq(S), NEW b \in Seq(S)
  PROVE  /\ a \o b \in Seq(S)
         /\ Len(a \o b) = Len(a) + Len(b)
         /\ ToSet(a \o b) = ToSet(a) \cup ToSet(b)
         /\ Increasing(a) /\ Increasing(b) /\ Below(ToSet(a), ToSet(b))
              => Increasing(a \o b)
<1> DEFINE p == a \o b
<1>1. /\ p \in Seq(S)
      /\ Len(p) = Len(a) + Len(b)
      /\ Len(a) \in Nat /\ Len(b) \in Nat
      /\ \A i \in 1 .. Len(a) + Len(b) :
           p[i] = IF i <= Len(a) THEN a[i] ELSE b[i - Len(a)]
  BY ConcatProperties
<1> HIDE DEF p
<1>2. /\ ToSet(p) = {p[i] : i \in 1 .. Len(p)}
      /\ ToSet(a) = {a[i] : i \in 1 .. Len(a)}
      /\ ToSet(b) = {b[i] : i \in 1 .. Len(b)}
  BY <1>1, RangeOf
<1>3. ASSUME NEW i \in 1 .. Len(p)
      PROVE  \/ i \in 1 .. Len(a) /\ p[i] = a[i]
             \/ i - Len(a) \in 1 .. Len(b) /\ p[i] = b[i - Len(a)] /\ i > Len(a)
  BY <1>1
<1>4. ToSet(p) \subseteq ToSet(a) \cup ToSet(b)
  BY <1>2, <1>3
<1>5. ToSet(a) \subseteq ToSet(p)
  BY <1>1, <1>2
<1>6. ToSet(b) \subseteq ToSet(p)
  <2>1. ASSUME NEW i \in 1 .. Len(b) PROVE b[i] \in ToSet(p)
    <3>1. i + Len(a) \in 1 .. Len(p) /\ ~(i + Len(a) <= Len(a))
          /\ (i + Len(a)) - Len(a) = i
      BY <1>1
    <3>2. p[i + Len(a)] = b[i]
      BY <1>1, <3>1
    <3> QED BY <1>2, <3>1, <3>2
  <2> QED BY <1>2, <2>1
<1>7. ASSUME Increasing(a), Increasing(b), Below(ToSet(a), ToSet(b)),
             NEW i \in 1 .. Len(p), NEW j \in 1 .. Len(p), i < j
      PROVE  p[i] < p[j]
  <2>1. CASE j \in 1 .. Len(a) /\ p[j] = a[j]
    <3>1. i \in 1 .. Len(a) /\ p[i] = a[i]
      BY <1>1, <1>7, <2>1
    <3> QED BY <1>7, <2>1, <3>1 DEF Increasing
  <2>2. CASE j - Len(a) \in 1 .. Len(b) /\ p[j] = b[j - Len(a)]
    <3>1. CASE i \in 1 .. Len(a) /\ p[i] = a[i]
      BY <1>2, <1>7, <2>2, <3>1 DEF Below
    <3>2. CASE i - Len(a) \in 1 .. Len(b) /\ p[i] = b[i - Len(a)]
      <4>1. i - Len(a) < j - Len(a)
        BY <1>1, <1>7
      <4> QED BY <1>7, <2>2, <3>2, <4>1 DEF Increasing
    <3> QED BY <1>3, <3>1, <3>2
  <2> QED BY <1>3, <2>1, <2>2
<1>8. Increasing(a) /\ Increasing(b) /\ Below(ToSet(a), ToSet(b)) => Increasing(p)
  BY <1>7 DEF Increasing
<1> QED BY <1>1, <1>4, <1>5, <1>6, <1>8 DEF p

\* The oldest record leaves.
LEMMA TailRange ==
  ASSUME NEW S, NEW q \in Seq(S), q # <<>>, Increasing(q), S \subseteq Int
  PROVE  /\ Tail(q) \in Seq(S)
         /\ Head(q) \in S
         /\ Len(Tail(q)) = Len(q) - 1
         /\ Increasing(Tail(q))
         /\ ToSet(q) = ToSet(Tail(q)) \cup {Head(q)}
         /\ Below({Head(q)}, ToSet(Tail(q)))
<1> DEFINE p == Tail(q)
<1>1. /\ p \in Seq(S)
      /\ Head(q) \in S
      /\ Head(q) = q[1]
      /\ Len(q) \in Nat \ {0}
      /\ Len(p) = Len(q) - 1
      /\ \A i \in 1 .. Len(p) : p[i] = q[i + 1]
  BY HeadTailProperties
<1> HIDE DEF p
<1>2. ToSet(p) = {p[i] : i \in 1 .. Len(p)} /\ ToSet(q) = {q[i] : i \in 1 .. Len(q)}
  BY <1>1, RangeOf
<1>3. \A i \in 1 .. Len(p) : i + 1 \in 1 .. Len(q) /\ 1 < i + 1 /\ p[i] = q[i + 1]
  BY <1>1
<1>4. ASSUME NEW i \in 1 .. Len(q), i # 1 PROVE q[i] \in ToSet(p)
  <2>1. i - 1 \in 1 .. Len(p) /\ (i - 1) + 1 = i
    BY <1>1, <1>4
  <2>2. p[i - 1] = q[i]
    BY <1>1, <2>1
  <2> QED BY <1>2, <2>1, <2>2
<1>5. ToSet(q) = ToSet(p) \cup {Head(q)}
  <2>1. ToSet(q) \subseteq ToSet(p) \cup {Head(q)}
    BY <1>1, <1>2, <1>4
  <2>2. 1 \in 1 .. Len(q)
    BY <1>1
  <2>3. ToSet(p) \cup {Head(q)} \subseteq ToSet(q)
    BY <1>1, <1>2, <1>3, <2>2
  <2> QED BY <2>1, <2>3
<1>6. Increasing(p)
  <2> SUFFICES ASSUME NEW i \in 1 .. Len(p), NEW j \in 1 .. Len(p), i < j
               PROVE  p[i] < p[j]
    BY DEF Increasing
  <2>1. i + 1 < j + 1
    OBVIOUS
  <2> QED BY <1>3, <2>1 DEF Increasing
<1>7. Below({Head(q)}, ToSet(p))
  <2>1. \A i \in 1 .. Len(p) : q[1] < p[i]
    <3>1. 1 \in 1 .. Len(q)
      BY <1>1
    <3> QED BY <1>3, <3>1 DEF Increasing
  <2> QED BY <1>1, <1>2, <2>1 DEF Below
<1> QED BY <1>1, <1>5, <1>6, <1>7 DEF p

\* A cut keeps the order: what comes before it is older than what comes after.
LEMMA CutRange ==
  ASSUME NEW S, NEW q \in Seq(S), NEW e \in 0 .. Len(q), Increasing(q)
  PROVE  LET a == SubSeq(q, 1, e)
             b == SubSeq(q, e + 1, Len(q))
         IN  /\ a \in Seq(S) /\ b \in Seq(S)
             /\ Len(b) = Len(q) - e
             /\ Increasing(b)
             /\ ToSet(a) \cup ToSet(b) = ToSet(q)
             /\ Below(ToSet(a), ToSet(b))
<1> DEFINE a == SubSeq(q, 1, e)
           b == SubSeq(q, e + 1, Len(q))
<1>1. /\ a \in Seq(S)
      /\ Len(a) = e
      /\ \A i \in 1 .. e : a[i] = q[i]
  OBVIOUS
<1>2. /\ b \in Seq(S)
      /\ Len(b) = Len(q) - e
      /\ \A i \in 1 .. Len(q) - e : b[i] = q[i + e]
  OBVIOUS
<1> HIDE DEF a, b
<1>3. /\ ToSet(a) = {a[i] : i \in 1 .. Len(a)}
      /\ ToSet(b) = {b[i] : i \in 1 .. Len(b)}
      /\ ToSet(q) = {q[i] : i \in 1 .. Len(q)}
      /\ Len(q) \in Nat
  BY <1>1, <1>2, RangeOf
<1>4. \A i \in 1 .. Len(a) : i \in 1 .. Len(q) /\ i <= e /\ a[i] = q[i]
  BY <1>1, <1>3
<1>5. \A i \in 1 .. Len(b) : i + e \in 1 .. Len(q) /\ i + e > e /\ b[i] = q[i + e]
  BY <1>2, <1>3
<1>6. ToSet(a) \cup ToSet(b) \subseteq ToSet(q)
  BY <1>3, <1>4, <1>5
<1>7. ASSUME NEW i \in 1 .. Len(q) PROVE q[i] \in ToSet(a) \cup ToSet(b)
  <2>1. CASE i <= e
    BY <1>1, <1>3, <2>1
  <2>2. CASE ~(i <= e)
    <3>1. i - e \in 1 .. Len(b) /\ (i - e) + e = i
      BY <1>2, <1>3, <2>2
    <3>2. b[i - e] = q[i]
      BY <1>2, <3>1
    <3> QED BY <1>3, <3>1, <3>2
  <2> QED BY <2>1, <2>2
<1>8. Increasing(b)
  <2> SUFFICES ASSUME NEW i \in 1 .. Len(b), NEW j \in 1 .. Len(b), i < j
               PROVE  b[i] < b[j]
    BY DEF Increasing
  <2>1. i + e < j + e
    OBVIOUS
  <2> QED BY <1>5, <2>1 DEF Increasing
<1>9. Below(ToSet(a), ToSet(b))
  <2> SUFFICES ASSUME NEW i \in 1 .. Len(a), NEW j \in 1 .. Len(b)
               PROVE  a[i] < b[j]
    BY <1>3 DEF Below
  <2>1. i < j + e
    BY <1>4, <1>5
  <2> QED BY <1>4, <1>5, <2>1 DEF Increasing
<1> QED BY <1>1, <1>2, <1>3, <1>6, <1>7, <1>8, <1>9 DEF a, b

-----------------------------------------------------------------------------
\* A batch in order, behind what waits for a retry, with only older decisions
\* evicted: how _flush_write_buffer finds its records.
Arrived(batch) ==
  /\ batch \in Seq(Decision)
  /\ Increasing(batch)
  /\ Below(ToSet(pending), ToSet(batch))
  /\ Below(Evicted, ToSet(pending) \cup ToSet(batch))

LEMMA DecisionNumbers == Decision \subseteq Int /\ Decision \subseteq Nat
BY StorageAssumption DEF Decision

\* The degraded-mode buffer with a batch added: in order, within its cap, and
\* what it gave up is older and went to the fallback log or was refused there.
LEMMA FallbackKeeps ==
  ASSUME pending \in Seq(Decision), Increasing(pending),
         NEW batch, Arrived(batch), BufferOrFallback(batch)
  PROVE  LET M == ToSet(pending) \cup ToSet(batch)
         IN  /\ pending' \in Seq(Decision)
             /\ Len(pending') <= PendingMax
             /\ Increasing(pending')
             /\ ToSet(pending') \subseteq M
             /\ M \ ToSet(pending') \subseteq log' \cup dropped'
             /\ log \subseteq log' /\ dropped \subseteq dropped'
             /\ log' \subseteq log \cup M /\ dropped' \subseteq dropped \cup M
             /\ Below(log' \cup dropped', ToSet(pending'))
<1> DEFINE M == ToSet(pending) \cup ToSet(batch)
           all == pending \o batch
           excess == IF Len(all) > PendingMax THEN Len(all) - PendingMax ELSE 0
           out == SubSeq(all, 1, excess)
           in == SubSeq(all, excess + 1, Len(all))
<1>1. /\ all \in Seq(Decision)
      /\ ToSet(all) = M
      /\ Increasing(all)
      /\ Len(all) \in Nat
  BY ConcatRange, RangeOf DEF Arrived
<1>2. pending' = in /\ AppendFallback(ToSet(out))
  BY DEF BufferOrFallback
<1> HIDE DEF all
<1>3. excess \in 0 .. Len(all) /\ Len(all) - excess <= PendingMax
  BY <1>1, StorageAssumption
<1> HIDE DEF excess
<1>4. /\ in \in Seq(Decision)
      /\ Len(in) = Len(all) - excess
      /\ Increasing(in)
      /\ ToSet(out) \cup ToSet(in) = M
      /\ Below(ToSet(out), ToSet(in))
  BY <1>1, <1>3, CutRange
<1> HIDE DEF in, out
<1>5. PICK refused \in SUBSET ToSet(out) :
        /\ log' = log \cup (ToSet(out) \ refused)
        /\ dropped' = dropped \cup refused
  BY <1>2 DEF AppendFallback
<1>6. log' \cup dropped' = log \cup dropped \cup ToSet(out)
  BY <1>5
<1>7. Below(log' \cup dropped', ToSet(in))
  BY <1>4, <1>6 DEF Arrived, Below, Evicted
<1>8. Len(pending') <= PendingMax
  BY <1>2, <1>3, <1>4
<1>9. M \ ToSet(in) \subseteq ToSet(out)
  BY <1>4
<1> QED BY <1>2, <1>4, <1>5, <1>6, <1>7, <1>8, <1>9

\* What a flush of the write buffer does with the decisions M that are in memory
\* when it begins.
Flushed(M) ==
  /\ buffer' = <<>>
  /\ pending' \in Seq(Decision)
  /\ Len(pending') <= PendingMax
  /\ Increasing(pending')
  /\ ToSet(pending') \subseteq M
  /\ M \ ToSet(pending') \subseteq table' \cup log' \cup dropped'
  /\ log \subseteq log' /\ dropped \subseteq dropped'
  /\ log' \subseteq log \cup M /\ dropped' \subseteq dropped \cup M
  /\ table \subseteq table' /\ table' \subseteq table \cup txn \cup M
  /\ txn' \subseteq Decision
  /\ txn' \subseteq ToSet(pending') \cup table' \cup log' \cup dropped'
  /\ Below(log' \cup dropped', ToSet(pending'))

\* What _flush_write_buffer leaves, whether its transaction succeeds or not.
LEMMA FlushKeeps ==
  ASSUME pending \in Seq(Decision), Increasing(pending), Len(pending) <= PendingMax,
         NEW batch, Arrived(batch), FlushWriteBuffer(batch),
         txn \subseteq Decision,
         txn \subseteq ToSet(pending) \cup ToSet(batch) \cup table \cup Evicted
  PROVE  Flushed(ToSet(pending) \cup ToSet(batch))
<1> DEFINE M == ToSet(pending) \cup ToSet(batch)
<1>1. /\ batch \in Seq(Decision)
      /\ ToSet(batch) \subseteq Decision
      /\ Below(Evicted, ToSet(pending))
      /\ buffer' = <<>>
  BY RangeOf DEF Arrived, Below, FlushWriteBuffer
<1>2. CASE batch = <<>> /\ UNCHANGED <<pending, disk>>
  <2>1. UNCHANGED <<pending, txn, table, log, dropped>> /\ ToSet(batch) = {}
    BY <1>2, EmptyRange DEF disk
  <2> QED BY <1>1, <2>1 DEF Evicted, Flushed
<1>3. CASE /\ batch # <<>>
           /\ CommitWith(ToSet(batch))
           /\ UNCHANGED <<pending, log, dropped>>
  <2>1. table' = table \cup txn \cup ToSet(batch) /\ txn' = {}
    BY <1>3 DEF CommitWith
  <2> QED BY <1>1, <1>3, <2>1 DEF Evicted, Flushed
<1>4. CASE /\ batch # <<>>
           /\ \E i \in 0 .. Len(batch) : TxnFails(ToSet(SubSeq(batch, 1, i)))
           /\ BufferOrFallback(batch)
           /\ UNCHANGED table
  <2>1. PICK i \in 0 .. Len(batch) : txn' \in {txn \cup ToSet(SubSeq(batch, 1, i)), {}}
    BY <1>4 DEF TxnFails
  <2>2. ToSet(SubSeq(batch, 1, i)) \subseteq ToSet(batch)
    BY <1>1, CutRange DEF Arrived
  <2>3. txn' \subseteq txn \cup ToSet(batch)
    BY <2>1, <2>2
  <2>4. /\ pending' \in Seq(Decision)
        /\ Len(pending') <= PendingMax
        /\ Increasing(pending')
        /\ ToSet(pending') \subseteq M
        /\ M \ ToSet(pending') \subseteq log' \cup dropped'
        /\ log \subseteq log' /\ dropped \subseteq dropped'
        /\ log' \subseteq log \cup M /\ dropped' \subseteq dropped \cup M
        /\ Below(log' \cup dropped', ToSet(pending'))
    BY <1>4, FallbackKeeps
  <2>5. txn' \subseteq M \cup table \cup log \cup dropped
    BY <2>3 DEF Evicted
  <2>6. M \cup table \cup log \cup dropped
          \subseteq ToSet(pending') \cup table' \cup log' \cup dropped'
    BY <1>4, <2>4
  <2> QED BY <1>1, <1>4, <2>3, <2>4, <2>5, <2>6 DEF Flushed
<1> QED BY <1>2, <1>3, <1>4 DEF FlushWriteBuffer

-----------------------------------------------------------------------------
\* The types, queue by queue and set by set.
LEMMA SetOfSequences ==
  ASSUME StorageTypeOK
  PROVE  /\ buffer \in Seq(Decision) /\ pending \in Seq(Decision)
         /\ retry \in Seq(Decision) /\ remaining \in Seq(Decision)
         /\ ToSet(buffer) \subseteq Decision /\ ToSet(pending) \subseteq Decision
         /\ ToSet(retry) \subseteq Decision /\ ToSet(remaining) \subseteq Decision
         /\ txn \subseteq Decision /\ table \subseteq Decision
         /\ log \subseteq Decision /\ dropped \subseteq Decision
         /\ saved \in Nat /\ saved <= MaxSaves
         /\ failures \in Nat /\ failures <= MaxAttempts
         /\ MaxAttempts \in Nat \ {0} /\ MaxSaves \in Nat
         /\ BatchSize \in Nat \ {0} /\ PendingMax \in Nat \ {0}
<1>1. /\ buffer \in Seq(Decision) /\ pending \in Seq(Decision)
      /\ retry \in Seq(Decision) /\ remaining \in Seq(Decision)
  BY DEF StorageTypeOK
<1>2. /\ ToSet(buffer) \subseteq Decision /\ ToSet(pending) \subseteq Decision
      /\ ToSet(retry) \subseteq Decision /\ ToSet(remaining) \subseteq Decision
  BY <1>1, RangeOf
<1> QED BY <1>1, <1>2, StorageAssumption DEF StorageTypeOK

\* What the buffer holds between two methods is a batch in order; so it is with
\* the decision that save adds.
LEMMA BufferArrived ==
  ASSUME StorageInv
  PROVE  Arrived(buffer)
BY SetOfSequences DEF StorageInv, QueuesOK, Arrived, Held

LEMMA NewcomerArrived ==
  ASSUME StorageInv, saved < MaxSaves
  PROVE  /\ Arrived(Append(buffer, saved + 1))
         /\ ToSet(Append(buffer, saved + 1)) = ToSet(buffer) \cup {saved + 1}
         /\ Len(Append(buffer, saved + 1)) = Len(buffer) + 1
         /\ Append(buffer, saved + 1) \in Seq(Decision)
         /\ saved + 1 \in Decision
<1>1. saved + 1 \in Decision
  BY SetOfSequences DEF StorageInv, Decision
<1>2. Below(Held \cup Evicted, {saved + 1})
  <2>1. \A x \in 1 .. saved : x < saved + 1
    BY SetOfSequences DEF StorageInv
  <2> QED BY <2>1 DEF Below, StorageInv, QueuesOK
<1>3. Below(ToSet(buffer), {saved + 1})
  BY <1>2 DEF Below, Held
<1>4. /\ Append(buffer, saved + 1) \in Seq(Decision)
      /\ Len(Append(buffer, saved + 1)) = Len(buffer) + 1
      /\ ToSet(Append(buffer, saved + 1)) = ToSet(buffer) \cup {saved + 1}
      /\ Increasing(Append(buffer, saved + 1))
  BY <1>1, <1>3, SetOfSequences, AppendRange DEF StorageInv, QueuesOK
<1>5. Below(ToSet(pending), ToSet(buffer) \cup {saved + 1})
  BY <1>2 DEF Below, Held, StorageInv, QueuesOK
<1>6. Below(Evicted, ToSet(pending) \cup (ToSet(buffer) \cup {saved + 1}))
  BY <1>2 DEF Below, Held, StorageInv, QueuesOK
<1> QED BY <1>1, <1>4, <1>5, <1>6 DEF Arrived

\* The flush of a batch that is the buffer, with or without a newcomer.
LEMMA BatchFlushed ==
  ASSUME StorageInv, NEW batch, Arrived(batch), ToSet(buffer) \subseteq ToSet(batch),
         FlushWriteBuffer(batch)
  PROVE  Flushed(ToSet(pending) \cup ToSet(batch))
BY SetOfSequences, FlushKeeps DEF StorageInv, QueuesOK, TxnOK, Held, StorageTypeOK

\* The queues and the transaction after a flush.
LEMMA FlushedQueues ==
  ASSUME StorageInv, NEW M, Flushed(M), M \subseteq Decision,
         saved' \in Nat, saved <= saved', M \subseteq 1 .. saved'
  PROVE  /\ QueuesOK' /\ TxnOK'
         /\ buffer' \in Seq(Decision) /\ Len(buffer') < BatchSize
         /\ pending' \in Seq(Decision) /\ Len(pending') <= PendingMax
         /\ txn' \cup table' \cup log' \cup dropped' \subseteq Decision
<1>1. buffer' = <<>> /\ ToSet(buffer') = {} /\ Increasing(buffer')
  BY EmptyRange DEF Flushed
<1>2. txn' \cup table' \cup log' \cup dropped' \subseteq Decision
  BY SetOfSequences DEF Flushed, StorageInv
<1>3. log' \cup dropped' \subseteq 1 .. saved'
  <2>1. log \cup dropped \subseteq 1 .. saved'
    BY SetOfSequences DEF StorageInv, QueuesOK, Evicted
  <2> QED BY <2>1 DEF Flushed
<1>4. QueuesOK'
  <2>1. Held' = ToSet(pending') /\ Evicted' = log' \cup dropped'
    BY <1>1 DEF Held, Evicted
  <2>2. Below(ToSet(pending'), ToSet(buffer'))
    BY <1>1 DEF Below
  <2>3. Held' \cup Evicted' \subseteq 1 .. saved'
    BY <1>3, <2>1 DEF Flushed
  <2> QED BY <1>1, <2>1, <2>2, <2>3 DEF QueuesOK, Flushed
<1>5. TxnOK'
  BY <1>1 DEF TxnOK, Held, Evicted, Flushed
<1>6. buffer' \in Seq(Decision) /\ Len(buffer') < BatchSize
  <2>1. Len(buffer') = 0
    BY <1>1
  <2> QED BY <1>1, <2>1, StorageAssumption
<1> QED BY <1>2, <1>4, <1>5, <1>6 DEF Flushed

\* The records of a flush have been tried as often as before it.
LEMMA FlushedTries ==
  ASSUME StorageInv, ~busy, NEW M, M \subseteq ToSet(pending) \cup ToSet(buffer) \cup {saved + 1},
         Flushed(M), M \subseteq Decision, failures' = failures, tries' = tries,
         saved' \in {saved, saved + 1}, retry' = <<>>, remaining' = <<>>
  PROVE  TriesOK' /\ \A d \in ToSet(pending') : tries[d] <= RoundsBehind
<1>1. \A d \in M : tries[d] <= RoundsBehind
  <2>1. RoundsBehind \in Nat
    BY SetOfSequences DEF StorageInv, RoundsBehind
  <2>2. \A d \in M : d = saved + 1 => tries[d] = 0
    BY SetOfSequences DEF StorageInv, TriesOK
  <2> QED BY <2>1, <2>2 DEF StorageInv, TriesOK
<1>2. ToSet(pending') \subseteq M
  BY DEF Flushed
<1>3. RoundsBehind' = RoundsBehind
  BY DEF RoundsBehind
<1>4. ToSet(buffer') = {} /\ ToSet(retry') = {} /\ ToSet(remaining') = {}
  BY EmptyRange DEF Flushed
<1>5. \A d \in Decision : d > saved' => tries[d] = 0
  BY SetOfSequences DEF StorageInv, TriesOK, Decision
<1>6. RetriesBounded'
  BY DEF RetriesBounded, StorageInv, TriesOK
<1> QED BY <1>1, <1>2, <1>3, <1>4, <1>5, <1>6 DEF TriesOK

\* What is left of the invariant when only the round of retries is not running.
LEMMA QuietRound ==
  ASSUME ~busy', retry' = <<>>, remaining' = <<>>, pending' \in Seq(Decision)
  PROVE  RoundOK'
<1>1. ToSet(retry') = {} /\ ToSet(remaining') = {} /\ Increasing(retry') /\ Increasing(remaining')
  BY EmptyRange
<1>2. Len(retry') = 0 /\ Len(remaining') = 0 /\ Len(pending') \in Nat
  OBVIOUS
<1> QED BY <1>1, <1>2 DEF RoundOK, Below

LEMMA SaveKeeps == StorageInv /\ Save => StorageInv'
<1> SUFFICES ASSUME StorageInv, Save PROVE StorageInv'
  OBVIOUS
<1> DEFINE batch == Append(buffer, saved + 1)
<1>1. /\ ~busy /\ ~busy'
      /\ saved < MaxSaves /\ saved' = saved + 1
      /\ UNCHANGED <<stage, failures, lastFlush, clock, retry, remaining, busy, tries, boot>>
  BY DEF Save, Ready, flushState, loop
<1>2. /\ Arrived(batch)
      /\ ToSet(batch) = ToSet(buffer) \cup {saved + 1}
      /\ Len(batch) = Len(buffer) + 1
      /\ batch \in Seq(Decision)
      /\ saved + 1 \in Decision
  BY <1>1, NewcomerArrived
<1> HIDE DEF batch
<1>3. retry' = <<>> /\ remaining' = <<>>
  BY <1>1 DEF StorageInv, RoundOK
<1>4. /\ saved \in Nat /\ saved' \in Nat /\ saved' \in 0 .. MaxSaves
      /\ saved <= saved'
      /\ Held \cup Evicted \subseteq 1 .. saved'
  <2>1. saved \in Nat /\ MaxSaves \in Nat /\ Held \cup Evicted \subseteq 1 .. saved
    BY SetOfSequences DEF StorageInv, QueuesOK
  <2> QED BY <1>1, <2>1
<1>5. CASE Len(batch) >= BatchSize /\ FlushWriteBuffer(batch)
  <2> DEFINE M == ToSet(pending) \cup ToSet(batch)
  <2>1. Flushed(M)
    BY <1>2, <1>5, BatchFlushed
  <2>2. M \subseteq Decision /\ M \subseteq 1 .. saved'
        /\ M \subseteq ToSet(pending) \cup ToSet(buffer) \cup {saved + 1}
    BY <1>1, <1>2, <1>4, SetOfSequences DEF StorageInv, Held
  <2> HIDE DEF M
  <2>3. /\ QueuesOK' /\ TxnOK'
        /\ buffer' \in Seq(Decision) /\ Len(buffer') < BatchSize
        /\ pending' \in Seq(Decision) /\ Len(pending') <= PendingMax
        /\ txn' \cup table' \cup log' \cup dropped' \subseteq Decision
    BY <1>1, <1>4, <2>1, <2>2, FlushedQueues
  <2>4. TriesOK'
    BY <1>1, <1>3, <2>1, <2>2, FlushedTries
  <2>5. RoundOK'
    BY <1>1, <1>3, <2>3, QuietRound
  <2>6. StorageTypeOK'
    BY <1>1, <1>3, <1>4, <2>3 DEF StorageInv, StorageTypeOK
  <2> QED BY <2>3, <2>4, <2>5, <2>6 DEF StorageInv
<1>6. CASE Len(batch) < BatchSize /\ buffer' = batch /\ UNCHANGED <<pending, disk>>
  <2>1. UNCHANGED <<pending, txn, table, log, dropped>> /\ buffer' = batch
    BY <1>6 DEF disk
  <2>2. QueuesOK'
    <3>1. Held' = ToSet(pending) \cup ToSet(batch) /\ Evicted' = Evicted
      BY <2>1 DEF Held, Evicted
    <3>2. Held' \cup Evicted' \subseteq 1 .. saved'
      BY <1>1, <1>2, <1>4, <3>1 DEF Held
    <3> QED BY <1>2, <2>1, <3>1, <3>2 DEF QueuesOK, Arrived, StorageInv
  <2>3. TxnOK'
    BY <1>2, <2>1 DEF StorageInv, TxnOK, Held, Evicted
  <2>4. RoundOK'
    BY <1>1, <1>3, <2>1, SetOfSequences, QuietRound DEF StorageInv
  <2>5. StorageTypeOK'
    BY <1>1, <1>2, <1>4, <1>6, <2>1 DEF StorageInv, StorageTypeOK
  <2>6. TriesOK'
    <3>1. RoundsBehind' = RoundsBehind
      BY <1>1 DEF RoundsBehind
    <3>2. RetriesBounded'
      BY <1>1 DEF StorageInv, TriesOK, RetriesBounded
    <3>3. \A d \in Decision : d > saved' => tries[d] = 0
      BY <1>1, <1>4 DEF StorageInv, TriesOK, Decision
    <3>4. tries[saved + 1] = 0
      BY <1>2, <1>4 DEF StorageInv, TriesOK
    <3>5. \A d \in ToSet(buffer') : tries[d] = 0
      BY <1>2, <2>1, <3>4 DEF StorageInv, TriesOK
    <3> QED BY <1>1, <2>1, <3>1, <3>2, <3>3, <3>5 DEF StorageInv, TriesOK
  <2> QED BY <2>2, <2>3, <2>4, <2>5, <2>6 DEF StorageInv
<1> QED BY <1>5, <1>6 DEF Save, batch

\* The flush with which a reading method or a round of retries begins.
LEMMA FlushOfBuffer ==
  ASSUME StorageInv, FlushWriteBuffer(buffer), saved' = saved
  PROVE  /\ Flushed(Held)
         /\ Held \subseteq Decision
         /\ QueuesOK' /\ TxnOK'
         /\ buffer' \in Seq(Decision) /\ Len(buffer') < BatchSize
         /\ pending' \in Seq(Decision) /\ Len(pending') <= PendingMax
         /\ txn' \cup table' \cup log' \cup dropped' \subseteq Decision
<1>1. Flushed(Held)
  BY BufferArrived, BatchFlushed DEF Held
<1>2. /\ Held \subseteq Decision /\ Held \subseteq 1 .. saved'
      /\ saved' \in Nat /\ saved <= saved'
  BY SetOfSequences DEF StorageInv, Held, QueuesOK
<1> QED BY <1>1, <1>2, FlushedQueues

LEMMA ReadKeeps == StorageInv /\ Read => StorageInv'
<1> SUFFICES ASSUME StorageInv, Read PROVE StorageInv'
  OBVIOUS
<1>1. /\ ~busy /\ ~busy'
      /\ FlushWriteBuffer(buffer)
      /\ UNCHANGED <<stage, failures, lastFlush, clock, retry, remaining, busy, tries, saved, boot>>
  BY DEF Read, Ready, flushState, loop
<1>2. /\ Flushed(Held)
      /\ Held \subseteq Decision
      /\ QueuesOK' /\ TxnOK'
      /\ buffer' \in Seq(Decision) /\ Len(buffer') < BatchSize
      /\ pending' \in Seq(Decision) /\ Len(pending') <= PendingMax
      /\ txn' \cup table' \cup log' \cup dropped' \subseteq Decision
  BY <1>1, FlushOfBuffer
<1>3. retry' = <<>> /\ remaining' = <<>>
  BY <1>1 DEF StorageInv, RoundOK
<1>4. TriesOK'
  BY <1>1, <1>2, <1>3, FlushedTries DEF Held
<1>5. RoundOK'
  BY <1>1, <1>2, <1>3, QuietRound
<1>6. StorageTypeOK'
  BY <1>1, <1>2, <1>3 DEF StorageInv, StorageTypeOK
<1> QED BY <1>2, <1>4, <1>5, <1>6 DEF StorageInv

\* A breaker snapshot, saved or not, moves at most the open transaction.
LEMMA BreakerStateKeeps == StorageInv /\ SaveBreakerState => StorageInv'
<1> SUFFICES ASSUME StorageInv, SaveBreakerState PROVE StorageInv'
  OBVIOUS
<1>1. /\ UNCHANGED <<stage, buffer, pending, failures, lastFlush, clock, retry, remaining,
                     busy, tries, log, dropped, saved, boot>>
      /\ table \subseteq table'
      /\ txn' \cup table' \subseteq txn \cup table
  BY DEF SaveBreakerState, CommitWith, TxnFails, flushState, loop
<1>2. StorageTypeOK'
  BY <1>1 DEF StorageInv, StorageTypeOK
<1>3. QueuesOK'
  BY <1>1 DEF StorageInv, QueuesOK, Held, Evicted
<1>4. RoundOK'
  <2>1. busy => ToSet(pending) \subseteq ToSet(retry) \cup ToSet(remaining) \cup table'
    BY <1>1 DEF StorageInv, RoundOK
  <2> QED BY <1>1, <2>1 DEF StorageInv, RoundOK
<1>5. TxnOK'
  <2>1. txn' \subseteq Held \cup table \cup Evicted
    BY <1>1 DEF StorageInv, TxnOK
  <2> QED BY <1>1, <2>1 DEF TxnOK, Held, Evicted
<1>6. TriesOK'
  BY <1>1 DEF StorageInv, TriesOK, RetriesBounded, RoundsBehind
<1> QED BY <1>2, <1>3, <1>4, <1>5, <1>6 DEF StorageInv

LEMMA FlushPendingKeeps ==
  ASSUME StorageInv, FlushPending, stage' \in {"open", "cleanup", "closed"}
  PROVE  StorageInv'
<1>1. /\ ~busy
      /\ FlushWriteBuffer(buffer)
      /\ UNCHANGED <<clock, saved, boot, tries>>
      /\ retry = <<>> /\ remaining = <<>>
  BY DEF FlushPending, Ready, loop, StorageInv, RoundOK
<1>2. /\ Flushed(Held)
      /\ Held \subseteq Decision
      /\ QueuesOK' /\ TxnOK'
      /\ buffer' \in Seq(Decision) /\ Len(buffer') < BatchSize
      /\ pending' \in Seq(Decision) /\ Len(pending') <= PendingMax
      /\ txn' \cup table' \cup log' \cup dropped' \subseteq Decision
  BY <1>1, FlushOfBuffer
<1>3. /\ \A d \in ToSet(pending') : tries[d] <= RoundsBehind
      /\ \A d \in Decision : d > saved => tries[d] = 0
      /\ RoundsBehind \in Nat
      /\ RetriesBounded'
      /\ ToSet(buffer') = {}
  <2>1. \A d \in Held : tries[d] <= RoundsBehind
    BY <1>1, SetOfSequences DEF StorageInv, TriesOK, Held, RoundsBehind
  <2> QED BY <1>1, <1>2, <2>1, SetOfSequences, EmptyRange
      DEF StorageInv, TriesOK, RoundsBehind, RetriesBounded, Flushed
<1>4. CASE pending' = <<>> /\ failures' = 0 /\ UNCHANGED <<lastFlush, loop>>
  <2>1. /\ ~busy' /\ busy' = busy
        /\ retry' = <<>> /\ remaining' = <<>> /\ lastFlush' = lastFlush
        /\ ToSet(pending') = {} /\ ToSet(retry') = {} /\ ToSet(remaining') = {}
    BY <1>1, <1>4, EmptyRange DEF loop
  <2>2. StorageTypeOK'
    BY <1>1, <1>2, <1>4, <2>1, StorageAssumption DEF StorageInv, StorageTypeOK
  <2>3. RoundOK'
    BY <1>2, <2>1, QuietRound
  <2>4. TriesOK'
    BY <1>1, <1>3, <2>1 DEF TriesOK
  <2> QED BY <1>2, <2>2, <2>3, <2>4 DEF StorageInv
<1>5. CASE UNCHANGED <<flushState, loop>>
  <2>1. /\ ~busy' /\ busy' = busy
        /\ retry' = <<>> /\ remaining' = <<>>
        /\ UNCHANGED <<failures, lastFlush>>
        /\ ToSet(retry') = {} /\ ToSet(remaining') = {}
    BY <1>1, <1>5, EmptyRange DEF loop, flushState
  <2>2. StorageTypeOK'
    BY <1>1, <1>2, <2>1 DEF StorageInv, StorageTypeOK
  <2>3. RoundOK'
    BY <1>2, <2>1, QuietRound
  <2>4. RoundsBehind' = RoundsBehind
    BY <2>1 DEF RoundsBehind
  <2>5. TriesOK'
    BY <1>1, <1>3, <2>1, <2>4 DEF TriesOK
  <2> QED BY <1>2, <2>2, <2>3, <2>5 DEF StorageInv
<1>6. CASE /\ lastFlush' = clock
           /\ busy' = TRUE
           /\ retry' = pending'
           /\ remaining' = <<>>
           /\ UNCHANGED <<failures, tries>>
  <2>1. ToSet(remaining') = {} /\ Increasing(remaining') /\ Len(remaining') = 0
    BY <1>6, EmptyRange
  <2>2. RoundsBehind' = RoundsBehind
    BY <1>6 DEF RoundsBehind
  <2>3. StorageTypeOK'
    BY <1>1, <1>2, <1>6 DEF StorageInv, StorageTypeOK
  <2>4. RoundOK'
    <3>1. Len(pending') \in Nat /\ Increasing(pending') /\ buffer' = <<>>
      BY <1>2 DEF Flushed
    <3> QED BY <1>6, <2>1, <3>1 DEF RoundOK, Below
  <2>5. TriesOK'
    BY <1>1, <1>3, <1>6, <2>1, <2>2 DEF TriesOK
  <2> QED BY <1>2, <2>3, <2>4, <2>5 DEF StorageInv
<1> QED BY <1>4, <1>5, <1>6 DEF FlushPending

\* One record of a round: written, or put behind those that could not be.
LEMMA TryRecordKeeps == StorageInv /\ TryRecord => StorageInv'
<1> SUFFICES ASSUME StorageInv, TryRecord PROVE StorageInv'
  OBVIOUS
<1> DEFINE d == Head(retry)
<1>1. /\ busy /\ busy'
      /\ retry' = Tail(retry)
      /\ retry # <<>>
      /\ tries' = [tries EXCEPT ![d] = @ + 1]
      /\ UNCHANGED <<stage, buffer, pending, failures, lastFlush, clock, log, dropped, saved, boot>>
  BY DEF TryRecord, flushState
<1>2. /\ d \in Decision
      /\ retry' \in Seq(Decision)
      /\ Len(retry') = Len(retry) - 1
      /\ Increasing(retry')
      /\ ToSet(retry) = ToSet(retry') \cup {d}
      /\ Below({d}, ToSet(retry'))
      /\ Len(retry) \in Nat /\ Len(remaining) \in Nat /\ Len(pending) \in Nat
  <2>1. /\ retry \in Seq(Decision) /\ Increasing(retry)
        /\ remaining \in Seq(Decision) /\ pending \in Seq(Decision)
    BY SetOfSequences DEF StorageInv, RoundOK
  <2>2. Len(retry) \in Nat /\ Len(remaining) \in Nat /\ Len(pending) \in Nat
    BY <2>1
  <2> QED BY <1>1, <2>1, <2>2, TailRange, DecisionNumbers
<1>3. /\ table \subseteq table'
      /\ txn' \cup table' \subseteq txn \cup table \cup {d}
      /\ \/ d \in table' /\ remaining' = remaining
         \/ remaining' = Append(remaining, d)
  BY DEF TryRecord, CommitWith, TxnFails
<1> HIDE DEF d
<1>4. Below(ToSet(remaining), {d}) /\ Below(ToSet(remaining), ToSet(retry'))
  BY <1>2 DEF StorageInv, RoundOK, Below
<1>5. /\ remaining' \in Seq(Decision)
      /\ Len(remaining') <= Len(remaining) + 1 /\ Len(remaining') \in Nat
      /\ ToSet(remaining') \subseteq ToSet(remaining) \cup {d}
      /\ ToSet(remaining) \subseteq ToSet(remaining')
      /\ d \in table' \cup ToSet(remaining')
      /\ Increasing(remaining')
  <2>1. remaining \in Seq(Decision) /\ Increasing(remaining)
    BY SetOfSequences DEF StorageInv, RoundOK
  <2>2. CASE d \in table' /\ remaining' = remaining
    BY <1>2, <2>1, <2>2
  <2>3. CASE remaining' = Append(remaining, d)
    <3>1. /\ Append(remaining, d) \in Seq(Decision)
          /\ Len(Append(remaining, d)) = Len(remaining) + 1
          /\ ToSet(Append(remaining, d)) = ToSet(remaining) \cup {d}
          /\ Increasing(Append(remaining, d))
      BY <1>2, <1>4, <2>1, AppendRange
    <3> QED BY <1>2, <2>3, <3>1
  <2> QED BY <1>3, <2>2, <2>3
<1>6. /\ tries' \in [Decision -> Nat]
      /\ tries[d] \in Nat /\ tries'[d] = tries[d] + 1
      /\ \A e \in Decision : e # d => tries'[e] = tries[e]
  BY <1>1, <1>2 DEF StorageInv, StorageTypeOK
<1>7. StorageTypeOK'
  <2>1. txn' \cup table' \cup log' \cup dropped' \subseteq Decision
    BY <1>1, <1>2, <1>3, SetOfSequences DEF StorageInv
  <2> QED BY <1>1, <1>2, <1>5, <1>6, <2>1 DEF StorageInv, StorageTypeOK
<1>8. QueuesOK'
  BY <1>1 DEF StorageInv, QueuesOK, Held, Evicted
<1>9. d \in ToSet(pending)
  BY <1>2 DEF StorageInv, RoundOK
<1>10. TxnOK'
  <2>1. txn' \subseteq Held \cup table' \cup Evicted
    BY <1>3, <1>9 DEF StorageInv, TxnOK, Held
  <2> QED BY <1>1, <2>1 DEF TxnOK, Held, Evicted
<1>11. RoundOK'
  <2>1. ToSet(pending) \subseteq ToSet(retry') \cup ToSet(remaining') \cup table'
    BY <1>1, <1>2, <1>3, <1>5 DEF StorageInv, RoundOK
  <2>2. Below(ToSet(remaining'), ToSet(retry'))
    BY <1>2, <1>4, <1>5 DEF Below
  <2>3. ToSet(retry') \cup ToSet(remaining') \subseteq ToSet(pending)
    BY <1>2, <1>5, <1>9 DEF StorageInv, RoundOK
  <2>4. Len(retry') + Len(remaining') <= Len(pending)
    BY <1>2, <1>5 DEF StorageInv, RoundOK
  <2> QED BY <1>1, <1>2, <1>5, <2>1, <2>2, <2>3, <2>4 DEF StorageInv, RoundOK
<1>12. TriesOK'
  <2>1. RoundsBehind' = RoundsBehind /\ RoundsBehind \in Nat /\ RoundsBehind + 1 <= MaxAttempts
    BY <1>1, SetOfSequences DEF StorageInv, RoundsBehind
  <2>2. tries'[d] <= RoundsBehind + 1
    BY <1>2, <1>6, <2>1 DEF StorageInv, TriesOK
  <2>3. RetriesBounded'
    <3>1. \A e \in Decision : tries[e] <= MaxAttempts
      BY DEF StorageInv, TriesOK, RetriesBounded
    <3>2. tries'[d] <= MaxAttempts
      BY <1>6, <2>1, <2>2, StorageAssumption
    <3> QED BY <1>6, <3>1, <3>2 DEF RetriesBounded
  <2>4. d <= saved
    BY <1>9, SetOfSequences DEF StorageInv, QueuesOK, Held
  <2>5. \A e \in Decision : e > saved' => tries'[e] = 0
    BY <1>1, <1>6, <2>4, DecisionNumbers, SetOfSequences DEF StorageInv, TriesOK
  <2>6. \A e \in ToSet(buffer') : tries'[e] = 0
    <3>1. ToSet(buffer) = {}
      BY <1>1, EmptyRange DEF StorageInv, RoundOK
    <3> QED BY <1>1, <3>1
  <2>7. \A e \in ToSet(retry') : e # d /\ e \in ToSet(retry) /\ e \in Decision
    BY <1>2, DecisionNumbers, SetOfSequences DEF StorageInv, Below
  <2>8. \A e \in ToSet(retry') : tries'[e] <= RoundsBehind'
    BY <1>6, <2>1, <2>7 DEF StorageInv, TriesOK
  <2>9. \A e \in ToSet(remaining') : tries'[e] <= RoundsBehind' + 1
    <3>1. \A e \in ToSet(remaining) : e \in Decision /\ tries[e] <= RoundsBehind + 1
      BY SetOfSequences DEF StorageInv, TriesOK
    <3> QED BY <1>5, <1>6, <2>1, <2>2, <3>1
  <2> QED BY <1>1, <2>3, <2>5, <2>6, <2>8, <2>9 DEF TriesOK
<1> QED BY <1>7, <1>8, <1>10, <1>11, <1>12 DEF StorageInv

\* A round ends like a flush of what is pending: what is left for the next round
\* is in order, what was written is in the table, and at the cap the rest goes
\* to the fallback log.
LEMMA EndFlushFlushes ==
  ASSUME StorageInv, EndFlush
  PROVE  /\ Flushed(Held)
         /\ Held \subseteq Decision
         /\ \/ pending' = <<>>
            \/ /\ pending' = remaining
               /\ failures' < MaxAttempts
               /\ RoundsBehind' = RoundsBehind + 1
         /\ failures' \in 0 .. MaxAttempts
<1>1. /\ busy /\ retry = <<>> /\ buffer = <<>>
      /\ UNCHANGED <<buffer, txn, table>>
      /\ ToSet(buffer) = {} /\ ToSet(retry) = {}
  BY EmptyRange DEF EndFlush, StorageInv, RoundOK
<1>2. /\ remaining \in Seq(Decision) /\ Increasing(remaining)
      /\ ToSet(remaining) \subseteq ToSet(pending)
      /\ ToSet(pending) \subseteq ToSet(remaining) \cup table
      /\ Len(remaining) <= PendingMax
  <2>1. /\ ToSet(remaining) \subseteq ToSet(pending)
        /\ ToSet(pending) \subseteq ToSet(remaining) \cup table
        /\ Increasing(remaining)
    BY <1>1 DEF StorageInv, RoundOK
  <2>2. Len(retry) = 0 /\ Len(retry) + Len(remaining) <= Len(pending)
    BY <1>1 DEF StorageInv, RoundOK
  <2>3. /\ remaining \in Seq(Decision) /\ Len(remaining) \in Nat
        /\ Len(pending) \in Nat /\ Len(pending) <= PendingMax /\ PendingMax \in Nat
    BY SetOfSequences DEF StorageInv, StorageTypeOK
  <2> QED BY <2>1, <2>2, <2>3
<1>3. /\ Held = ToSet(pending) /\ Held \subseteq Decision
      /\ Below(Evicted, ToSet(pending))
      /\ txn \subseteq Decision
      /\ txn \subseteq ToSet(pending) \cup table \cup Evicted
  BY <1>1, SetOfSequences DEF Held, StorageInv, QueuesOK, TxnOK
<1> DEFINE failed == IF failures < MaxAttempts THEN failures + 1 ELSE MaxAttempts
           capped == remaining # <<>> /\ failed >= MaxAttempts
<1>4. /\ failures' = IF remaining = <<>> THEN 0 ELSE failed
      /\ pending' = IF capped THEN <<>> ELSE remaining
      /\ AppendFallback(IF capped THEN ToSet(remaining) ELSE {})
  BY DEF EndFlush
<1>5. /\ failed \in 0 .. MaxAttempts
      /\ failed < MaxAttempts => failures < MaxAttempts /\ failed = failures + 1
      /\ MaxAttempts \in Nat
  BY SetOfSequences DEF StorageInv
<1> HIDE DEF failed
<1>6. PICK refused \in SUBSET (IF capped THEN ToSet(remaining) ELSE {}) :
        /\ log' = log \cup ((IF capped THEN ToSet(remaining) ELSE {}) \ refused)
        /\ dropped' = dropped \cup refused
  BY <1>4 DEF AppendFallback
<1>7. CASE capped
  <2>1. pending' = <<>> /\ ToSet(pending') = {} /\ Increasing(pending') /\ Len(pending') = 0
    BY <1>4, <1>7, EmptyRange
  <2>2. /\ log' \cup dropped' = log \cup dropped \cup ToSet(remaining)
        /\ log \subseteq log' /\ dropped \subseteq dropped'
        /\ log' \subseteq log \cup ToSet(remaining)
        /\ dropped' \subseteq dropped \cup ToSet(remaining)
    BY <1>6, <1>7
  <2>3. Flushed(Held)
    <3>1. txn' \subseteq table' \cup log' \cup dropped'
      BY <1>1, <1>2, <1>3, <2>2 DEF Evicted
    <3>2. pending' \in Seq(Decision) /\ Len(pending') <= PendingMax
      BY <2>1, StorageAssumption
    <3>3. Below(log' \cup dropped', ToSet(pending'))
      BY <2>1 DEF Below
    <3>4. Held \ ToSet(pending') \subseteq table' \cup log' \cup dropped'
      BY <1>1, <1>2, <1>3, <2>2
    <3>5. log' \subseteq log \cup Held /\ dropped' \subseteq dropped \cup Held
      BY <1>2, <1>3, <2>2
    <3>6. ToSet(pending') \subseteq Held /\ table \subseteq table'
          /\ table' \subseteq table \cup txn \cup Held /\ txn' \subseteq Decision
      BY <1>1, <1>3, <2>1
    <3> QED BY <1>1, <2>1, <2>2, <3>1, <3>2, <3>3, <3>4, <3>5, <3>6 DEF Flushed
  <2>4. failures' = failed
    BY <1>4, <1>7
  <2> QED BY <1>3, <1>5, <2>1, <2>3, <2>4
<1>8. CASE ~capped
  <2>1. pending' = remaining /\ log' = log /\ dropped' = dropped
    BY <1>4, <1>6, <1>8
  <2>2. Flushed(Held)
    <3>1. txn' \subseteq ToSet(pending') \cup table' \cup log' \cup dropped'
      BY <1>1, <1>2, <1>3, <2>1 DEF Evicted
    <3>2. Below(log' \cup dropped', ToSet(pending'))
      BY <1>2, <1>3, <2>1 DEF Below, Evicted
    <3> QED BY <1>1, <1>2, <1>3, <2>1, <3>1, <3>2 DEF Flushed
  <2>3. CASE remaining = <<>>
    BY <1>3, <1>4, <1>5, <2>1, <2>2, <2>3
  <2>4. CASE remaining # <<>>
    <3>1. failures' = failed /\ failed < MaxAttempts /\ failures < MaxAttempts
          /\ failed = failures + 1
      BY <1>4, <1>5, <1>8, <2>4
    <3>2. RoundsBehind' = RoundsBehind + 1
      BY <3>1 DEF RoundsBehind
    <3> QED BY <1>3, <1>5, <2>1, <2>2, <3>1, <3>2
  <2> QED BY <2>3, <2>4
<1> QED BY <1>7, <1>8

LEMMA EndFlushKeeps == StorageInv /\ EndFlush => StorageInv'
<1> SUFFICES ASSUME StorageInv, EndFlush PROVE StorageInv'
  OBVIOUS
<1>1. /\ retry' = <<>> /\ remaining' = <<>> /\ busy' = FALSE
      /\ UNCHANGED <<stage, lastFlush, clock, tries, saved, boot>>
  BY DEF EndFlush
<1>2. /\ Flushed(Held)
      /\ Held \subseteq Decision
      /\ \/ pending' = <<>>
         \/ /\ pending' = remaining
            /\ failures' < MaxAttempts
            /\ RoundsBehind' = RoundsBehind + 1
      /\ failures' \in 0 .. MaxAttempts
  BY EndFlushFlushes
<1>3. /\ QueuesOK' /\ TxnOK'
      /\ buffer' \in Seq(Decision) /\ Len(buffer') < BatchSize
      /\ pending' \in Seq(Decision) /\ Len(pending') <= PendingMax
      /\ txn' \cup table' \cup log' \cup dropped' \subseteq Decision
  <2>1. /\ saved' \in Nat /\ saved <= saved' /\ Held \subseteq 1 .. saved'
    BY <1>1, SetOfSequences DEF StorageInv, QueuesOK
  <2> QED BY <1>2, <2>1, FlushedQueues
<1>4. RoundOK'
  BY <1>1, <1>3, QuietRound
<1>5. StorageTypeOK'
  <2>1. {buffer', pending', retry', remaining'} \subseteq Seq(Decision)
    BY <1>1, <1>3
  <2>2. failures' \in 0 .. MaxAttempts /\ busy' \in BOOLEAN
    BY <1>1, <1>2
  <2> QED BY <1>1, <1>3, <2>1, <2>2 DEF StorageInv, StorageTypeOK
<1>6. TriesOK'
  <2>1. ToSet(retry') = {} /\ ToSet(remaining') = {} /\ ToSet(buffer') = {}
    BY <1>1, <1>2, EmptyRange DEF Flushed
  <2>2. \A d \in ToSet(pending') : tries[d] <= RoundsBehind'
    BY <1>2, EmptyRange DEF StorageInv, TriesOK
  <2>3. RetriesBounded' /\ \A d \in Decision : d > saved' => tries'[d] = 0
    BY <1>1 DEF StorageInv, TriesOK, RetriesBounded
  <2> QED BY <1>1, <2>1, <2>2, <2>3 DEF TriesOK
<1> QED BY <1>3, <1>4, <1>5, <1>6 DEF StorageInv

LEMMA TickKeeps == StorageInv /\ Tick => StorageInv'
<1> SUFFICES ASSUME StorageInv, Tick PROVE StorageInv'
  OBVIOUS
<1>1. /\ clock' = clock + 1
      /\ UNCHANGED <<stage, buffer, pending, failures, lastFlush, retry, remaining, busy,
                     tries, txn, table, log, dropped, saved, boot>>
  BY DEF Tick, flushState, loop, disk
<1>2. StorageTypeOK'
  BY <1>1 DEF StorageInv, StorageTypeOK
<1> QED BY <1>1, <1>2 DEF StorageInv, QueuesOK, RoundOK, TxnOK, TriesOK, RetriesBounded,
        RoundsBehind, Held, Evicted

\* Closing flushes the buffer too; the open transaction is gone after it.
LEMMA CloseFlushes ==
  ASSUME StorageInv, Close
  PROVE  Flushed(Held)
<1>1. /\ txn' = {} /\ CloseConnection
      /\ pending \in Seq(Decision) /\ Increasing(pending) /\ Len(pending) <= PendingMax
      /\ Below(Evicted, ToSet(pending))
      /\ Held = ToSet(pending) \cup ToSet(buffer)
  BY SetOfSequences DEF Close, StorageInv, StorageTypeOK, QueuesOK, Below, Held
<1>2. CASE buffer = <<>> /\ UNCHANGED <<buffer, pending, table, log, dropped>>
  <2>1. Held = ToSet(pending)
    BY <1>1, <1>2, EmptyRange
  <2> QED BY <1>1, <1>2, <2>1 DEF Flushed, Evicted
<1>3. CASE /\ buffer' = <<>>
           /\ table' = table \cup txn \cup ToSet(buffer)
           /\ UNCHANGED <<pending, log, dropped>>
  BY <1>1, <1>3 DEF Flushed, Evicted
<1>4. CASE buffer' = <<>> /\ BufferOrFallback(buffer) /\ UNCHANGED table
  <2>1. /\ pending' \in Seq(Decision)
        /\ Len(pending') <= PendingMax
        /\ Increasing(pending')
        /\ ToSet(pending') \subseteq Held
        /\ Held \ ToSet(pending') \subseteq log' \cup dropped'
        /\ log \subseteq log' /\ dropped \subseteq dropped'
        /\ log' \subseteq log \cup Held /\ dropped' \subseteq dropped \cup Held
        /\ Below(log' \cup dropped', ToSet(pending'))
    BY <1>1, <1>4, BufferArrived, FallbackKeeps
  <2> QED BY <1>1, <1>4, <2>1 DEF Flushed
<1> QED BY <1>1, <1>2, <1>3, <1>4 DEF CloseConnection

LEMMA CloseKeeps == StorageInv /\ Close => StorageInv'
<1> SUFFICES ASSUME StorageInv, Close PROVE StorageInv'
  OBVIOUS
<1>1. /\ ~busy /\ busy' = busy /\ stage' = "closed"
      /\ UNCHANGED <<failures, lastFlush, clock, retry, remaining, tries, saved, boot>>
      /\ retry' = <<>> /\ remaining' = <<>>
  BY DEF Close, flushState, loop, StorageInv, RoundOK
<1>2. /\ Flushed(Held)
      /\ Held \subseteq Decision /\ Held \subseteq 1 .. saved'
      /\ saved' \in Nat /\ saved <= saved'
  BY <1>1, CloseFlushes, SetOfSequences DEF StorageInv, QueuesOK, Held
<1>3. /\ QueuesOK' /\ TxnOK'
      /\ buffer' \in Seq(Decision) /\ Len(buffer') < BatchSize
      /\ pending' \in Seq(Decision) /\ Len(pending') <= PendingMax
      /\ txn' \cup table' \cup log' \cup dropped' \subseteq Decision
  BY <1>2, FlushedQueues
<1>4. TriesOK'
  BY <1>1, <1>2, FlushedTries DEF Held
<1>5. RoundOK'
  BY <1>1, <1>3, QuietRound
<1>6. StorageTypeOK'
  BY <1>1, <1>3 DEF StorageInv, StorageTypeOK
<1> QED BY <1>3, <1>4, <1>5, <1>6 DEF StorageInv

LEMMA ExitKeeps == StorageInv /\ Exit => StorageInv'
<1> SUFFICES ASSUME StorageInv, Exit PROVE StorageInv'
  OBVIOUS
<1>1. /\ stage' = "closed" /\ txn' = {}
      /\ UNCHANGED <<buffer, pending, failures, lastFlush, clock, retry, remaining, busy,
                     tries, table, log, dropped, saved, boot>>
  BY DEF Exit, flushState, loop
<1>2. StorageTypeOK'
  BY <1>1 DEF StorageInv, StorageTypeOK
<1>3. TxnOK'
  BY <1>1 DEF TxnOK
<1> QED BY <1>1, <1>2, <1>3 DEF StorageInv, QueuesOK, RoundOK, TriesOK, RetriesBounded,
        RoundsBehind, Held, Evicted

LEMMA RestartKeeps == StorageInv /\ Restart => StorageInv'
<1> SUFFICES ASSUME StorageInv, Restart PROVE StorageInv'
  OBVIOUS
<1>1. /\ stage' = "open"
      /\ buffer' = <<>> /\ pending' = <<>> /\ retry' = <<>> /\ remaining' = <<>>
      /\ failures' = 0 /\ lastFlush' = 0 /\ busy' = FALSE /\ txn' = {}
      /\ boot' = boot + 1
      /\ UNCHANGED <<clock, table, log, dropped, saved, tries>>
  BY DEF Restart
<1>2. /\ ToSet(buffer') = {} /\ ToSet(pending') = {}
      /\ ToSet(retry') = {} /\ ToSet(remaining') = {}
      /\ Increasing(buffer') /\ Increasing(pending')
  BY <1>1, EmptyRange
<1>3. /\ <<>> \in Seq(Decision) /\ Len(<<>>) = 0
  OBVIOUS
<1>4. StorageTypeOK'
  <2>1. Len(buffer') < BatchSize /\ Len(pending') <= PendingMax /\ failures' \in 0 .. MaxAttempts
    BY <1>1, <1>3, StorageAssumption
  <2>2. {buffer', pending', retry', remaining'} \subseteq Seq(Decision)
    BY <1>1, <1>3
  <2>3. {lastFlush', clock', boot'} \subseteq Nat
    BY <1>1 DEF StorageInv, StorageTypeOK
  <2> QED BY <1>1, <2>1, <2>2, <2>3 DEF StorageInv, StorageTypeOK
<1>5. QueuesOK'
  <2>1. Held' = {} /\ Evicted' = Evicted
    BY <1>1, <1>2 DEF Held, Evicted
  <2>2. Below(ToSet(pending'), ToSet(buffer')) /\ Below(Evicted', Held')
    BY <1>2, <2>1 DEF Below
  <2> QED BY <1>1, <1>2, <2>1, <2>2 DEF StorageInv, QueuesOK
<1>6. RoundOK'
  BY <1>1, <1>3, QuietRound
<1>7. TxnOK'
  BY <1>1 DEF TxnOK
<1>8. TriesOK'
  BY <1>1, <1>2 DEF StorageInv, TriesOK, RetriesBounded
<1> QED BY <1>4, <1>5, <1>6, <1>7, <1>8 DEF StorageInv

LEMMA StorageInitOK == StorageInit => StorageInv
<1> SUFFICES ASSUME StorageInit PROVE StorageInv
  OBVIOUS
<1>1. /\ stage = "open"
      /\ buffer = <<>> /\ pending = <<>> /\ retry = <<>> /\ remaining = <<>>
      /\ failures = 0 /\ lastFlush = 0 /\ clock = 0 /\ saved = 0 /\ boot = 0
      /\ busy = FALSE /\ txn = {} /\ table = {} /\ log = {} /\ dropped = {}
      /\ tries = [d \in Decision |-> 0]
  BY DEF StorageInit
<1>2. /\ ToSet(buffer) = {} /\ ToSet(pending) = {}
      /\ ToSet(retry) = {} /\ ToSet(remaining) = {}
      /\ Increasing(<<>>)
  BY <1>1, EmptyRange
<1>3. /\ <<>> \in Seq(Decision) /\ Len(<<>>) = 0
  OBVIOUS
<1>4. StorageTypeOK
  <2>1. Len(buffer) < BatchSize /\ Len(pending) <= PendingMax
        /\ failures \in 0 .. MaxAttempts /\ saved \in 0 .. MaxSaves
    BY <1>1, <1>3, StorageAssumption
  <2>2. {buffer, pending, retry, remaining} \subseteq Seq(Decision)
    BY <1>1, <1>3
  <2>3. {lastFlush, clock, boot} \subseteq Nat /\ tries \in [Decision -> Nat]
    BY <1>1
  <2>4. txn \cup table \cup log \cup dropped = {}
    BY <1>1
  <2>5. stage \in {"open", "cleanup", "closed"} /\ busy \in BOOLEAN
    BY <1>1
  <2> QED BY <2>1, <2>2, <2>3, <2>4, <2>5 DEF StorageTypeOK
<1>5. QueuesOK
  BY <1>1, <1>2 DEF QueuesOK, Held, Evicted, Below
<1>6. RoundOK
  BY <1>1, <1>2, <1>3 DEF RoundOK, Below
<1>7. TxnOK
  BY <1>1 DEF TxnOK
<1>8. TriesOK
  <2>1. \A d \in Decision : tries[d] = 0
    BY <1>1
  <2>2. RetriesBounded
    BY <2>1, StorageAssumption DEF RetriesBounded
  <2>3. \A d \in Decision : tries[d] <= RoundsBehind
    BY <1>1, <2>1, StorageAssumption DEF RoundsBehind
  <2> QED BY <1>1, <1>2, <2>1, <2>2, <2>3 DEF TriesOK
<1> QED BY <1>4, <1>5, <1>6, <1>7, <1>8 DEF StorageInv

-----------------------------------------------------------------------------
\* Memory bounded and in order, rounds of retries that never lose a record, no
\* record tried too often: preserved by every method, failure and restart.
THEOREM StorageInvariant == StorageSpec => []StorageInv
<1>1. StorageInit => StorageInv
  BY StorageInitOK
<1>2. StorageInv /\ [StorageNext]_storageVars => StorageInv'
  <2> SUFFICES ASSUME StorageInv, [StorageNext]_storageVars PROVE StorageInv'
    OBVIOUS
  <2>1. CASE Save
    BY <2>1, SaveKeeps
  <2>2. CASE Read
    BY <2>2, ReadKeeps
  <2>3. CASE SaveBreakerState
    BY <2>3, BreakerStateKeeps
  <2>4. CASE Flush
    BY <2>4, FlushPendingKeeps DEF Flush, StorageInv, StorageTypeOK
  <2>5. CASE Shutdown
    BY <2>5, FlushPendingKeeps DEF Shutdown
  <2>6. CASE TryRecord
    BY <2>6, TryRecordKeeps
  <2>7. CASE EndFlush
    BY <2>7, EndFlushKeeps
  <2>8. CASE Tick
    BY <2>8, TickKeeps
  <2>9. CASE Close
    BY <2>9, CloseKeeps
  <2>10. CASE Exit
    BY <2>10, ExitKeeps
  <2>11. CASE Restart
    BY <2>11, RestartKeeps
  <2>12. CASE UNCHANGED storageVars
    BY <2>12 DEF storageVars, flushState, loop, disk, StorageInv, StorageTypeOK, QueuesOK,
       RoundOK, TxnOK, TriesOK, RetriesBounded, RoundsBehind, Held, Evicted
  <2> QED BY <2>1, <2>2, <2>3, <2>4, <2>5, <2>6, <2>7, <2>8, <2>9, <2>10, <2>11, <2>12
      DEF StorageNext
<1> QED BY <1>1, <1>2, PTL DEF StorageSpec

\* The memory of a gateway whose database fails stays within batch_size and
\* PENDING_MAX, however the failures fall.
THEOREM StorageTyped == StorageSpec => []StorageTypeOK
<1>1. StorageInv => StorageTypeOK
  BY DEF StorageInv
<1> QED BY <1>1, StorageInvariant, PTL

\* The records in memory are in order of arrival, and those evicted to the
\* fallback log are older than all of them.
THEOREM StorageArrivalOrder == StorageSpec => []ArrivalOrder
<1>1. StorageInv => ArrivalOrder
  <2> SUFFICES ASSUME StorageInv PROVE ArrivalOrder
    OBVIOUS
  <2> DEFINE queued == pending \o buffer
  <2>1. /\ queued \in Seq(Decision)
        /\ ToSet(queued) = Held
        /\ Increasing(queued)
    BY SetOfSequences, ConcatRange DEF StorageInv, QueuesOK, Held
  <2> HIDE DEF queued
  <2>2. \A i \in 1 .. Len(queued) : queued[i] \in Held
    BY <2>1, RangeOf
  <2>3. \A d \in log \cup dropped, i \in 1 .. Len(queued) : d < queued[i]
    BY <2>2 DEF StorageInv, QueuesOK, Below, Evicted
  <2> QED BY <2>1, <2>3 DEF ArrivalOrder, Increasing, queued
<1> QED BY <1>1, StorageInvariant, PTL

\* No record meets the database more than max_flush_attempts times in the loop
\* of flush_pending, however rounds succeed in part and new records join.
THEOREM StorageRetriesBounded == StorageSpec => []RetriesBounded
<1>1. StorageInv => RetriesBounded
  BY DEF StorageInv, TriesOK
<1> QED BY <1>1, StorageInvariant, PTL

-----------------------------------------------------------------------------
\* A flush settles decisions: those that leave memory are durable or refused,
\* and a commit brings no decision that was not in memory, durable or refused.
LEMMA FlushSettles ==
  ASSUME StorageInv, NEW M, Flushed(M), Held \subseteq M
  PROVE  Log!Settle(M)
<1>1. ToSet(buffer') = {}
  BY EmptyRange DEF Flushed
<1>2. table' \subseteq table \cup log \cup dropped \cup M
  BY DEF Flushed, StorageInv, TxnOK, Evicted
<1> QED BY <1>1, <1>2 DEF Flushed, Log!Settle

\* A step that moves only rows of the open transaction settles nothing else.
LEMMA CommitSettles ==
  ASSUME StorageInv, UNCHANGED <<buffer, pending, log, dropped, saved, boot>>,
         table \subseteq table', table' \subseteq table \cup txn \cup Held
  PROVE  Log!SettleDecisions
<1>1. table' \subseteq table \cup log \cup dropped \cup Held
  BY DEF StorageInv, TxnOK, Evicted
<1>2. Log!Settle(Held)
  BY <1>1 DEF Log!Settle, Held
<1> QED BY <1>2 DEF Log!SettleDecisions, Held

\* Storage implements the decision log: save accepts a decision and may settle
\* others, every other method, failure and round of retries only settles, and
\* only the end of a process forgets what is in memory.
THEOREM StorageImplementsLog == StorageSpec => NothingLost
<1>1. StorageInit => Log!LogInit
  BY EmptyRange DEF StorageInit, Log!LogInit
<1>2. StorageInv /\ [StorageNext]_storageVars => [Log!LogNext]_(Log!logVars)
  <2> SUFFICES ASSUME StorageInv, [StorageNext]_storageVars
               PROVE  Log!LogNext \/ UNCHANGED Log!logVars
    OBVIOUS
  <2>1. CASE Save
    <3> DEFINE batch == Append(buffer, saved + 1)
               M == ToSet(pending) \cup ToSet(batch)
    <3>1. /\ saved' = saved + 1 /\ UNCHANGED boot
          /\ Arrived(batch)
          /\ ToSet(batch) = ToSet(buffer) \cup {saved + 1}
      BY <2>1, NewcomerArrived DEF Save
    <3>2. /\ M = (ToSet(buffer) \cup ToSet(pending)) \cup {saved'}
          /\ Held \subseteq M
      BY <3>1 DEF Held
    <3>3. CASE FlushWriteBuffer(batch)
      <4>1. Log!Settle(M)
        BY <3>1, <3>2, <3>3, BatchFlushed, FlushSettles
      <4> QED BY <3>1, <3>2, <4>1 DEF Log!LogNext, Log!AcceptDecision
    <3>4. CASE buffer' = batch /\ UNCHANGED <<pending, disk>>
      <4>1. Log!Settle(M)
        BY <3>1, <3>4 DEF Log!Settle, disk
      <4> QED BY <3>1, <3>2, <4>1 DEF Log!LogNext, Log!AcceptDecision
    <3> QED BY <2>1, <3>3, <3>4 DEF Save
  <2>2. ASSUME Flushed(Held), UNCHANGED <<saved, boot>> PROVE Log!LogNext
    <3>1. Log!Settle(Held)
      BY <2>2, FlushSettles
    <3> QED BY <2>2, <3>1 DEF Log!LogNext, Log!SettleDecisions, Held
  <2>3. CASE Read
    BY <2>2, <2>3, FlushOfBuffer DEF Read
  <2>4. CASE SaveBreakerState
    <3>1. /\ UNCHANGED <<buffer, pending, log, dropped, saved, boot>>
          /\ table \subseteq table' /\ table' \subseteq table \cup txn
      BY <2>4 DEF SaveBreakerState, CommitWith
    <3> QED BY <3>1, CommitSettles DEF Log!LogNext
  <2>5. CASE Flush \/ Shutdown
    BY <2>2, <2>5, FlushOfBuffer DEF Flush, Shutdown, FlushPending
  <2>6. CASE TryRecord
    <3>1. /\ UNCHANGED <<buffer, pending, log, dropped, saved, boot>>
          /\ table \subseteq table' /\ table' \subseteq table \cup txn \cup {Head(retry)}
          /\ retry # <<>>
      BY <2>6 DEF TryRecord, CommitWith
    <3>2. Head(retry) \in Held
      BY <3>1, SetOfSequences, TailRange, DecisionNumbers DEF StorageInv, RoundOK, Held
    <3> QED BY <3>1, <3>2, CommitSettles DEF Log!LogNext
  <2>7. CASE EndFlush
    BY <2>2, <2>7, EndFlushFlushes DEF EndFlush
  <2>8. CASE Close
    BY <2>2, <2>8, CloseFlushes DEF Close
  <2>9. CASE Restart
    <3>1. ToSet(buffer') = {} /\ ToSet(pending') = {}
      BY <2>9, EmptyRange DEF Restart
    <3> QED BY <2>9, <3>1 DEF Restart, Log!LogNext, Log!EndProcess
  <2>10. CASE Tick
    BY <2>10 DEF Tick, disk, Log!logVars
  <2>11. CASE Exit
    BY <2>11 DEF Exit, Log!logVars
  <2>12. CASE UNCHANGED storageVars
    BY <2>12 DEF storageVars, disk, Log!logVars
  <2> QED BY <2>1, <2>3, <2>4, <2>5, <2>6, <2>7, <2>8, <2>9, <2>10, <2>11, <2>12
      DEF StorageNext
<1> QED BY <1>1, <1>2, StorageInvariant, PTL DEF StorageSpec, NothingLost, Log!LogSpec
=============================================================================
