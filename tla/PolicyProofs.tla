---------------------------- MODULE PolicyProofs ----------------------------
(***************************************************************************)
(* Proofs about the rules and weights a request is judged by, for any rule *)
(* files, bodies, weights, worker threads and edits: what the policy       *)
(* engine, the matchers generated from its rules and the checks of chat    *)
(* tools decide, and what the two hot reloads leave in force.              *)
(*                                                                         *)
(* The first half is about data.  The engine walks a body segment by       *)
(* segment; the lemmas show by counting segments that the nodes it reaches *)
(* are those a path can be laid to, that the prefix index prunes only walks*)
(* that find nothing, and that the first rule of the sorted list that      *)
(* matches is what FirstMatchWins says.  The invariants of the engine and  *)
(* of the chat check are small on top of that.                             *)
(*                                                                         *)
(* The second half is about the reloads.  Neither takes a lock; both rest  *)
(* on modification times that are not used twice and on what the threads   *)
(* in the middle of a load hold, which is what their inductive invariants  *)
(* say.                                                                    *)
(***************************************************************************)
EXTENDS ChatTools, Codegen, PolicyReload, LethalityReload, RankProofs

-----------------------------------------------------------------------------
(* Walking a body                                                          *)

\* What Reached is defined to be: there is such a function, one step at a time.
LEMMA ReachedIs ==
  ASSUME NEW body, NEW start, NEW segs, Len(segs) \in Nat
  PROVE  Reached(body, start, segs)
           = [n \in 0..Len(segs) |->
                IF n = 0 THEN {start}
                ELSE UNION {Onward(body, a, segs[n]) : a \in Reached(body, start, segs)[n - 1]}]
<1> DEFINE N == Len(segs)
           Next(n, from) == IF n = 0 THEN {start} ELSE UNION {Onward(body, a, segs[n]) : a \in from}
           S == {m \in 0..N : \E g : g = [n \in 0..m |-> Next(n, g[n - 1])]}
<1>1. \A from, to : Next(0, from) = Next(0, to)
  OBVIOUS
<1> HIDE DEF Next
<1>2. 0 \in S
  <2> DEFINE g == [n \in 0..0 |-> Next(0, {})]
  <2>1. g = [n \in 0..0 |-> Next(n, g[n - 1])]
    BY <1>1
  <2> QED
    BY <2>1
<1>3. ASSUME NEW m \in 0..(N - 1), m \in S
      PROVE  m + 1 \in S
  <2>1. PICK g : g = [n \in 0..m |-> Next(n, g[n - 1])]
    BY <1>3
  <2> DEFINE h == [n \in 0..(m + 1) |-> IF n <= m THEN g[n] ELSE Next(n, g[m])]
  <2>2. \A n \in 0..(m + 1) : h[n] = Next(n, h[n - 1])
    <3> SUFFICES ASSUME NEW n \in 0..(m + 1) PROVE h[n] = Next(n, h[n - 1])
      OBVIOUS
    <3>1. CASE n = 0
      <4>1. h[0] = g[0] /\ g[0] = Next(0, g[0 - 1])
        BY <2>1
      <4> QED
        BY <1>1, <3>1, <4>1
    <3>2. CASE n \in 1..m
      <4>1. h[n] = g[n] /\ h[n - 1] = g[n - 1]
        BY <3>2
      <4>2. g[n] = Next(n, g[n - 1])
        BY <2>1, <3>2
      <4> QED
        BY <4>1, <4>2
    <3>3. CASE n = m + 1
      <4>1. h[n] = Next(n, g[m]) /\ h[m] = g[m]
        BY <3>3
      <4> QED
        BY <3>3, <4>1
    <3> QED
      BY <3>1, <3>2, <3>3
  <2>3. h = [n \in 0..(m + 1) |-> Next(n, h[n - 1])]
    BY <2>2
  <2> HIDE DEF h
  <2> QED
    BY <2>3
<1>4. N \in S
  <2>1. N \in Nat /\ N \in 0..N
    OBVIOUS
  <2> HIDE DEF S, N
  <2> QED
    BY <1>2, <1>3, <2>1, CountingUp
<1>5. \E g : g = [n \in 0..N |-> Next(n, g[n - 1])]
  BY <1>4
<1> QED
  BY <1>5, Zenon DEF Reached, Next


LEMMA ReachedStart ==
  ASSUME NEW body, NEW start, NEW segs, Len(segs) \in Nat
  PROVE  Reached(body, start, segs)[0] = {start}
BY ReachedIs

LEMMA ReachedOn ==
  ASSUME NEW body, NEW start, NEW segs, Len(segs) \in Nat, NEW n \in 1..Len(segs)
  PROVE  Reached(body, start, segs)[n]
           = UNION {Onward(body, a, segs[n]) : a \in Reached(body, start, segs)[n - 1]}
<1> DEFINE r == Reached(body, start, segs)
<1>1. r = [m \in 0..Len(segs) |->
             IF m = 0 THEN {start} ELSE UNION {Onward(body, a, segs[m]) : a \in r[m - 1]}]
  BY ReachedIs
<1>2. n \in 0..Len(segs) /\ n # 0
  OBVIOUS
<1> HIDE DEF r
<1>3. r[n] = UNION {Onward(body, a, segs[n]) : a \in r[n - 1]}
  BY <1>1, <1>2
<1> QED
  BY <1>3 DEF r

LEMMA Addresses ==
  ASSUME NEW body, IsJson(body), NEW a \in DOMAIN body
  PROVE  /\ a \in Seq(FieldName) /\ Len(a) \in Nat
         /\ \A n \in 0..Len(a) : SubSeq(a, 1, n) \in DOMAIN body
         /\ SubSeq(a, 1, Len(a)) = a
<1>1. a \in Seq(FieldName) /\ \A n \in 0..Len(a) : SubSeq(a, 1, n) \in DOMAIN body
  BY DEF IsJson
<1> QED
  BY <1>1, LenProperties, SubSeqFull

\* From the whole body, a walk can get to what has dicts and lists above it only.
LEMMA BeneathWhole ==
  ASSUME NEW body, IsJson(body), NEW a
  PROVE  a \in Beneath(body, <<>>)
           <=> a \in DOMAIN body /\ \A n \in 0..(Len(a) - 1) : Container(body[SubSeq(a, 1, n)])
<1>1. Len(<<>>) = 0
  OBVIOUS
<1>2. a \in DOMAIN body => Len(a) \in Nat
  BY Addresses
<1>3. SubSeq(<<>>, 1, 0) = <<>> /\ SubSeq(a, 1, 0) = <<>>
  BY SubSeqEmpty
<1> QED
  BY <1>1, <1>2, <1>3 DEF Beneath, IsPrefix

\* What Selects asks of one segment, laid from k to l.
Allows(body, address, s, k, l) ==
  IF s.op = "descend" THEN k <= l
  ELSE /\ l = k + 1
       /\ s.op # "wild" =>
            /\ address[l] = s.at
            /\ body[SubSeq(address, 1, k)].kind = IF s.op = "key" THEN "dict" ELSE "list"

LEMMA OnwardGoes ==
  ASSUME NEW body, IsJson(body), NEW a \in Beneath(body, <<>>), NEW s \in Segment,
         NEW b \in Onward(body, a, s)
  PROVE  /\ b \in Beneath(body, <<>>)
         /\ Len(a) \in 0..Len(b) /\ SubSeq(b, 1, Len(a)) = a
         /\ Allows(body, b, s, Len(a), Len(b))
<1>1. b \in Beneath(body, a)
  BY DEF Onward, Children
<1>2. a \in DOMAIN body /\ b \in DOMAIN body
  BY <1>1 DEF Beneath
<1>3. Len(a) \in 0..Len(b) /\ SubSeq(b, 1, Len(a)) = a
  BY <1>1, <1>2, Addresses DEF Beneath, IsPrefix
<1>4. b \in Beneath(body, <<>>)
  <2> SUFFICES ASSUME NEW n \in 0..(Len(b) - 1)
               PROVE  Container(body[SubSeq(b, 1, n)])
    BY <1>2, BeneathWhole
  <2>0. Len(b) \in Nat /\ b \in Seq(FieldName)
    BY <1>2, Addresses
  <2>1. CASE n < Len(a)
    <3>1. SubSeq(a, 1, n) = SubSeq(b, 1, n)
      BY <2>0, <2>1, <1>3, Beginning
    <3>2. Container(body[SubSeq(a, 1, n)])
      BY <2>1, <1>3, BeneathWhole
    <3> QED
      BY <3>1, <3>2
  <2>2. CASE n >= Len(a)
    <3>1. n \in Len(a)..(Len(b) - 1)
      BY <2>0, <2>2, <1>3
    <3> QED
      BY <1>1, <3>1 DEF Beneath
  <2> QED
    BY <1>3, <2>1, <2>2
<1>5. Allows(body, b, s, Len(a), Len(b))
  <2>1. CASE s.op = "descend"
    BY <1>3, <2>1 DEF Allows
  <2>2. CASE s.op = "wild"
    <3>1. b \in Children(body, a)
      BY <2>2 DEF Onward
    <3> QED
      BY <2>2, <3>1 DEF Allows, Children
  <2>3. CASE s.op \in {"key", "idx"}
    <3>1. /\ b \in Children(body, a) /\ b = Append(a, s.at)
          /\ body[a].kind = IF s.op = "key" THEN "dict" ELSE "list"
      BY <2>3 DEF Onward
    <3>2. s.at \in FieldName
      BY <2>3 DEF Segment
    <3>3. Len(b) = Len(a) + 1
      BY <3>1 DEF Children
    <3>4. b[Len(a) + 1] = s.at
      BY <1>2, <3>1, <3>2, Addresses, AppendProperties
    <3> QED
      BY <1>3, <2>3, <3>1, <3>3, <3>4 DEF Allows
  <2> QED
    BY <2>1, <2>2, <2>3 DEF Segment
<1> QED
  BY <1>3, <1>4, <1>5

LEMMA OnwardReaches ==
  ASSUME NEW body, IsJson(body), NEW b \in Beneath(body, <<>>), NEW s \in Segment,
         NEW k \in 0..Len(b), NEW l \in 0..Len(b), Allows(body, b, s, k, l)
  PROVE  SubSeq(b, 1, l) \in Onward(body, SubSeq(b, 1, k), s)
<1> DEFINE a == SubSeq(b, 1, k)
           c == SubSeq(b, 1, l)
<1>1. b \in DOMAIN body /\ b \in Seq(FieldName) /\ Len(b) \in Nat
  BY BeneathWhole, Addresses
<1>2. /\ a \in Seq(FieldName) /\ Len(a) = k /\ c \in Seq(FieldName) /\ Len(c) = l
      /\ a \in DOMAIN body /\ c \in DOMAIN body
      /\ \A n \in 0..l : SubSeq(c, 1, n) = SubSeq(b, 1, n)
      /\ \A i \in 1..k : a[i] = b[i]
      /\ \A i \in 1..l : c[i] = b[i]
  BY <1>1, Beginning, Addresses
<1>3. SubSeq(a, 1, k) = a
  BY <1>1, Beginning
<1>4. k <= l
  BY <1>1 DEF Allows
<1>5. SubSeq(c, 1, k) = a
  BY <1>2, <1>4
<1> HIDE DEF a, c
<1>6. c \in Beneath(body, a)
  <2>1. IsPrefix(a, c)
    BY <1>2, <1>3, <1>4, <1>5 DEF IsPrefix
  <2>2. ASSUME NEW n \in k..(l - 1)
        PROVE  Container(body[SubSeq(c, 1, n)])
    <3>1. n \in 0..(Len(b) - 1) /\ SubSeq(c, 1, n) = SubSeq(b, 1, n)
      BY <1>1, <1>2
    <3> QED
      BY <3>1, BeneathWhole
  <2> QED
    BY <1>2, <2>1, <2>2 DEF Beneath
<1>7. CASE s.op = "descend"
  BY <1>6, <1>7 DEF Onward, a, c
<1>8. CASE s.op = "wild"
  <2>1. Len(c) = Len(a) + 1
    BY <1>2, <1>8 DEF Allows
  <2> QED
    BY <1>6, <1>8, <2>1 DEF Onward, Children, a, c
<1>9. CASE s.op \in {"key", "idx"}
  <2>1. /\ l = k + 1 /\ b[l] = s.at
        /\ body[a].kind = IF s.op = "key" THEN "dict" ELSE "list"
    BY <1>9 DEF Allows, a
  <2>2. c = Append(a, s.at)
    <3>1. s.at \in FieldName
      BY <1>9 DEF Segment
    <3>2. Append(a, s.at) \in Seq(FieldName) /\ Len(Append(a, s.at)) = k + 1
      BY <1>2, <3>1, AppendProperties
    <3>3. \A i \in 1..(k + 1) : c[i] = Append(a, s.at)[i]
      BY <1>2, <2>1, <3>1, AppendProperties
    <3> QED
      BY <1>2, <2>1, <3>2, <3>3, SeqEqual
  <2>3. c \in Children(body, a)
    BY <1>2, <1>6, <2>1 DEF Children
  <2>4. c \in Onward(body, a, s)
    BY <1>9, <2>1, <2>2, <2>3 DEF Onward
  <2> QED
    BY <2>4 DEF a, c
<1> QED
  BY <1>7, <1>8, <1>9 DEF Segment

\* What is laid along an address is laid along every address below it.
LEMMA AllowsBelow ==
  ASSUME NEW body, NEW b \in Seq(FieldName), NEW m \in 0..Len(b), NEW s \in Segment,
         NEW k \in 0..m, NEW l \in 0..m, Allows(body, SubSeq(b, 1, m), s, k, l)
  PROVE  Allows(body, b, s, k, l)
<1> DEFINE a == SubSeq(b, 1, m)
<1>1. (\A i \in 1..m : a[i] = b[i]) /\ SubSeq(a, 1, k) = SubSeq(b, 1, k)
  BY Beginning
<1>2. Allows(body, a, s, k, l)
  OBVIOUS
<1> HIDE DEF a
<1>3. l = k + 1 => l \in 1..m
  OBVIOUS
<1> QED
  BY <1>1, <1>2, <1>3 DEF Allows

LEMMA ReachedIsLaid ==
  ASSUME NEW body, IsJson(body), NEW segs \in Seq(Segment), NEW a \in ExtractAt(body, <<>>, segs)
  PROVE  a \in Beneath(body, <<>>) /\ Selects(body, segs, a)
<1> DEFINE N == Len(segs)
           r == Reached(body, <<>>, segs)
           Laid(n, b) ==
             \E cut \in [0..n -> 0..Len(b)] :
               /\ cut[0] = 0 /\ cut[n] = Len(b)
               /\ \A i \in 1..n : Allows(body, b, segs[i], cut[i - 1], cut[i])
           S == {n \in 0..N : \A b \in r[n] : b \in Beneath(body, <<>>) /\ Laid(n, b)}
<1>1. N \in Nat /\ \A i \in 1..N : segs[i] \in Segment
  OBVIOUS
<1>2. 0 \in S
  <2>1. r[0] = {<<>>}
    BY <1>1, ReachedStart
  <2>2. <<>> \in Beneath(body, <<>>)
    <3>1. <<>> \in DOMAIN body /\ Len(<<>>) = 0
      BY DEF IsJson
    <3> QED
      BY <3>1, BeneathWhole
  <2>3. Laid(0, <<>>)
    <3> DEFINE cut == [i \in 0..0 |-> 0]
    <3>1. cut \in [0..0 -> 0..Len(<<>>)] /\ cut[0] = 0 /\ cut[0] = Len(<<>>)
      OBVIOUS
    <3>2. \A i \in 1..0 : Allows(body, <<>>, segs[i], cut[i - 1], cut[i])
      OBVIOUS
    <3> QED
      BY <3>1, <3>2
  <2> QED
    BY <1>1, <2>1, <2>2, <2>3
<1>3. ASSUME NEW n \in 0..(N - 1), n \in S
      PROVE  n + 1 \in S
  <2>0. n + 1 \in 0..N
    BY <1>1
  <2> SUFFICES ASSUME NEW b \in r[n + 1]
               PROVE  b \in Beneath(body, <<>>) /\ Laid(n + 1, b)
    BY <2>0, Zenon
  <2>1. n + 1 \in 1..N /\ (n + 1) - 1 = n
    BY <1>1
  <2>2. PICK c \in r[n] : b \in Onward(body, c, segs[n + 1])
    BY <1>1, <2>1, ReachedOn
  <2>3. c \in Beneath(body, <<>>) /\ Laid(n, c)
    BY <1>3, <2>2
  <2>4. /\ b \in Beneath(body, <<>>)
        /\ Len(c) \in 0..Len(b) /\ SubSeq(b, 1, Len(c)) = c
        /\ Allows(body, b, segs[n + 1], Len(c), Len(b))
    BY <1>1, <2>1, <2>2, <2>3, OnwardGoes
  <2>5. b \in Seq(FieldName) /\ Len(b) \in Nat
    BY <2>4, BeneathWhole, Addresses
  <2>6. PICK cut \in [0..n -> 0..Len(c)] :
          /\ cut[0] = 0 /\ cut[n] = Len(c)
          /\ \A i \in 1..n : Allows(body, c, segs[i], cut[i - 1], cut[i])
    BY <2>3
  <2> DEFINE new == [i \in 0..(n + 1) |-> IF i <= n THEN cut[i] ELSE Len(b)]
  <2>7. new \in [0..(n + 1) -> 0..Len(b)] /\ new[0] = 0 /\ new[n + 1] = Len(b)
    BY <2>4, <2>5, <2>6
  <2>8. ASSUME NEW i \in 1..(n + 1)
        PROVE  Allows(body, b, segs[i], new[i - 1], new[i])
    <3>1. CASE i = n + 1
      <4>1. new[i - 1] = Len(c) /\ new[i] = Len(b)
        BY <2>6, <3>1
      <4> QED
        BY <2>4, <3>1, <4>1
    <3>2. CASE i <= n
      <4>1. new[i - 1] = cut[i - 1] /\ new[i] = cut[i]
        BY <3>2
      <4>2. cut[i - 1] \in 0..Len(c) /\ cut[i] \in 0..Len(c) /\ segs[i] \in Segment
        BY <1>1, <2>6, <3>2
      <4>3. Allows(body, SubSeq(b, 1, Len(c)), segs[i], cut[i - 1], cut[i])
        <5>1. Allows(body, c, segs[i], cut[i - 1], cut[i])
          BY <2>6, <3>2
        <5> QED
          BY <2>4, <5>1, Zenon
      <4>4. Allows(body, b, segs[i], cut[i - 1], cut[i])
        BY <2>4, <2>5, <4>2, <4>3, AllowsBelow
      <4> QED
        BY <4>1, <4>4
    <3> QED
      BY <3>1, <3>2
  <2> HIDE DEF new
  <2> QED
    BY <2>4, <2>7, <2>8
<1>4. N \in S
  <2>1. N \in 0..N
    BY <1>1
  <2> HIDE DEF S
  <2> QED
    BY <1>1, <1>2, <1>3, <2>1, CountingUp
<1>5. a \in Beneath(body, <<>>) /\ Laid(N, a)
  BY <1>4 DEF ExtractAt
<1> QED
  BY <1>5 DEF Selects, Allows

LEMMA LaidIsReached ==
  ASSUME NEW body, IsJson(body), NEW segs \in Seq(Segment), NEW a \in Beneath(body, <<>>),
         Selects(body, segs, a)
  PROVE  a \in ExtractAt(body, <<>>, segs)
<1> DEFINE N == Len(segs)
           r == Reached(body, <<>>, segs)
<1>1. N \in Nat /\ \A i \in 1..N : segs[i] \in Segment
  OBVIOUS
<1>2. PICK cut \in [0..N -> 0..Len(a)] :
        /\ cut[0] = 0 /\ cut[N] = Len(a)
        /\ \A i \in 1..N : Allows(body, a, segs[i], cut[i - 1], cut[i])
  BY DEF Selects, Allows
<1> DEFINE S == {n \in 0..N : SubSeq(a, 1, cut[n]) \in r[n]}
<1>3. 0 \in S
  <2>1. r[0] = {<<>>}
    BY <1>1, ReachedStart
  <2>2. SubSeq(a, 1, 0) = <<>>
    BY SubSeqEmpty
  <2>3. SubSeq(a, 1, cut[0]) = <<>> /\ 0 \in 0..N
    BY <1>1, <1>2, <2>2
  <2> HIDE DEF r
  <2> QED
    BY <2>1, <2>3
<1>4. ASSUME NEW n \in 0..(N - 1), n \in S
      PROVE  n + 1 \in S
  <2>1. n + 1 \in 1..N /\ (n + 1) - 1 = n
    BY <1>1
  <2>2. /\ cut[n] \in 0..Len(a) /\ cut[n + 1] \in 0..Len(a) /\ segs[n + 1] \in Segment
        /\ Allows(body, a, segs[n + 1], cut[n], cut[n + 1])
    BY <1>1, <1>2, <2>1
  <2>3. SubSeq(a, 1, cut[n + 1]) \in Onward(body, SubSeq(a, 1, cut[n]), segs[n + 1])
    BY <2>2, OnwardReaches
  <2>4. SubSeq(a, 1, cut[n]) \in r[n]
    BY <1>4
  <2>5. r[n + 1] = UNION {Onward(body, b, segs[n + 1]) : b \in r[n]}
    BY <1>1, <2>1, ReachedOn
  <2> QED
    BY <1>1, <2>1, <2>3, <2>4, <2>5
<1>5. N \in S
  <2>1. N \in 0..N
    BY <1>1
  <2> HIDE DEF S
  <2> QED
    BY <1>1, <1>3, <1>4, <2>1, CountingUp
<1>6. SubSeq(a, 1, Len(a)) = a
  BY BeneathWhole, Addresses
<1> QED
  BY <1>2, <1>5, <1>6 DEF ExtractAt

-----------------------------------------------------------------------------
(* One rule, one request                                                   *)

LEMMA ParsedTree ==
  ASSUME NEW body, IsJson(body)
  PROVE  /\ IsJson(Parsed(body)) /\ DOMAIN Parsed(body) = DOMAIN body
         /\ \A a \in DOMAIN body : a # <<>> => Parsed(body)[a] = body[a]
<1>1. CASE body[<<>>].kind = "text"
  <2> DEFINE tree == [body EXCEPT ![<<>>].kind = "dict"]
  <2>1. Parsed(body) = tree
    BY <1>1 DEF Parsed
  <2>2. DOMAIN tree = DOMAIN body /\ \A a \in DOMAIN body : a # <<>> => tree[a] = body[a]
    OBVIOUS
  <2>3. tree[<<>>] \in [kind : {"dict", "list", "text", "str", "num"}, val : STRING]
    BY DEF IsJson
  <2>4. \A a \in DOMAIN body : /\ a \in Seq(FieldName)
                               /\ \A n \in 0..Len(a) : SubSeq(a, 1, n) \in DOMAIN body
    BY DEF IsJson
  <2>5. \A a \in DOMAIN body : tree[a] \in [kind : {"dict", "list", "text", "str", "num"}, val : STRING]
    BY <2>2, <2>3 DEF IsJson
  <2>6. <<>> \in DOMAIN body
    BY DEF IsJson
  <2> HIDE DEF tree
  <2>7. IsJson(tree)
    BY <2>2, <2>4, <2>5, <2>6 DEF IsJson
  <2> QED
    BY <2>1, <2>2, <2>7
<1>2. CASE body[<<>>].kind # "text"
  BY <1>2 DEF Parsed
<1> QED
  BY <1>1, <1>2

\* What _json_extract finds, and what it is said to find.
LEMMA ExtractSays ==
  ASSUME NEW body, IsJson(body), body # NoBody, Walkable(body), NEW segs \in Seq(Segment), NEW a
  PROVE  a \in JsonExtract(body, segs)
           <=> /\ a \in DOMAIN body
               /\ \A n \in 0..(Len(a) - 1) : Container(Parsed(body)[SubSeq(a, 1, n)])
               /\ Selects(Parsed(body), segs, a)
<1> DEFINE tree == Parsed(body)
<1>1. IsJson(tree) /\ DOMAIN tree = DOMAIN body
  BY ParsedTree
<1>2. JsonExtract(body, segs) = ExtractAt(tree, <<>>, segs)
  BY DEF JsonExtract
<1> HIDE DEF tree
<1>3. a \in ExtractAt(tree, <<>>, segs) <=> a \in Beneath(tree, <<>>) /\ Selects(tree, segs, a)
  BY <1>1, ReachedIsLaid, LaidIsReached
<1>4. a \in Beneath(tree, <<>>)
        <=> a \in DOMAIN tree /\ \A n \in 0..(Len(a) - 1) : Container(tree[SubSeq(a, 1, n)])
  BY <1>1, BeneathWhole
<1> QED
  BY <1>1, <1>2, <1>3, <1>4 DEF tree

\* The index prunes only rules whose walk finds nothing.
LEMMA PrunedFindsNothing ==
  ASSUME NEW body, body = NoBody \/ IsJson(body), NEW rule, NEW segs \in Seq(Segment),
         rule.jsonPath = segs, JsonExtract(body, segs) # {}
  PROVE  MayApply(rule, body)
<1>1. Walkable(body) /\ body # NoBody /\ IsJson(body)
  BY DEF JsonExtract, Walkable
<1>2. PICK a : a \in JsonExtract(body, segs)
  OBVIOUS
<1>3. a \in DOMAIN body /\ Selects(Parsed(body), segs, a)
  BY <1>1, <1>2, ExtractSays
<1>4. CASE segs = <<>>
  BY <1>4 DEF MayApply
<1>5. CASE segs # <<>>
  <2>1. Len(segs) \in Nat \ {0} /\ 1 \in 1..Len(segs) /\ segs[1] \in Segment
    BY <1>5, EmptySeq
  <2>2. CASE segs[1].op \in {"wild", "descend"}
    BY <2>2 DEF MayApply
  <2>3. CASE segs[1].op \in {"key", "idx"}
    <3>1. PICK cut \in [0..Len(segs) -> 0..Len(a)] :
            /\ cut[0] = 0
            /\ \A i \in 1..Len(segs) : Allows(Parsed(body), a, segs[i], cut[i - 1], cut[i])
      BY <1>3 DEF Selects, Allows
    <3>2. Allows(Parsed(body), a, segs[1], 0, cut[1]) /\ cut[1] \in 0..Len(a)
      BY <2>1, <3>1
    <3>3. /\ cut[1] = 1 /\ a[1] = segs[1].at
          /\ Parsed(body)[SubSeq(a, 1, 0)].kind = IF segs[1].op = "key" THEN "dict" ELSE "list"
      BY <2>3, <3>2 DEF Allows
    <3>4. SubSeq(a, 1, 0) = <<>>
      BY SubSeqEmpty
    <3>5. a \in Seq(FieldName) /\ 1 \in 0..Len(a) /\ SubSeq(a, 1, 1) \in DOMAIN body
      BY <1>1, <1>3, <3>2, <3>3, Addresses
    <3>6. SubSeq(a, 1, 1) = <<segs[1].at>>
      <4>1. /\ SubSeq(a, 1, 1) \in Seq(FieldName) /\ Len(SubSeq(a, 1, 1)) = 1
            /\ SubSeq(a, 1, 1)[1] = a[1]
        BY <3>5, Beginning
      <4>2. segs[1].at \in FieldName
        BY <2>1, <2>3 DEF Segment
      <4> DEFINE at == segs[1].at
                 b == SubSeq(a, 1, 1)
      <4>3. b \in Seq(FieldName) /\ Len(b) = 1 /\ b[1] = at /\ at \in FieldName
        BY <3>3, <4>1, <4>2
      <4> HIDE DEF at, b
      <4>4. <<at>> \in Seq(FieldName) /\ Len(<<at>>) = 1 /\ <<at>>[1] = at
        BY <4>3
      <4>5. \A i \in 1..Len(b) : b[i] = <<at>>[i]
        BY <4>3, <4>4
      <4>6. b = <<at>>
        BY <4>3, <4>4, <4>5, SeqEqual
      <4> QED
        BY <4>6 DEF at, b
    <3> QED
      BY <1>1, <2>1, <2>3, <3>3, <3>4, <3>5, <3>6 DEF MayApply
  <2> QED
    BY <2>1, <2>2, <2>3 DEF Segment
<1> QED
  BY <1>4, <1>5

\* A rule has a json_path or tool_args, and not both.
OneCondition(rule) == rule.jsonPath = NoCondition \/ rule.toolArgs = NoCondition

\* The engine tries exactly the rules that apply.
LEMMA TriedApplies ==
  ASSUME NEW rule \in PolicyRule, OneCondition(rule), NEW req \in PolicyRequest
  PROVE  MayApply(rule, req.body) /\ Visible(rule, req) /\ Matches(rule, req) <=> Applies(rule, req)
<1>1. CASE rule.jsonPath = NoCondition
  BY <1>1 DEF MayApply, Matches, Applies
<1>2. CASE rule.jsonPath # NoCondition
  <2> DEFINE body == req.body
             segs == rule.jsonPath
             found == JsonExtract(body, segs)
             Says(a) == rule.pattern # NoCondition => Words(body, a) \cap rule.pattern.words # {}
  <2>1. rule.toolArgs = NoCondition
    BY <1>2 DEF OneCondition
  <2>2. segs \in Seq(Segment)
    BY <1>2 DEF PolicyRule
  <2>3. body = NoBody \/ IsJson(body)
    BY PolicyAssumption DEF PolicyRequest
  <2>4. found # {} => Walkable(body) /\ MayApply(rule, body)
    BY <2>2, <2>3, PrunedFindsNothing DEF JsonExtract
  <2>5. Walkable(body) => body # NoBody /\ IsJson(body)
    BY <2>3 DEF Walkable
  <2>6. Walkable(body) => (SaysBody(rule, body) <=> \E a \in found : Says(a))
    <3> SUFFICES ASSUME Walkable(body)
                 PROVE  SaysBody(rule, body) <=> \E a \in found : Says(a)
      OBVIOUS
    <3>1. \A a : a \in found
                   <=> /\ a \in DOMAIN body
                       /\ \A n \in 0..(Len(a) - 1) : Container(Parsed(body)[SubSeq(a, 1, n)])
                       /\ Selects(Parsed(body), segs, a)
      BY <2>2, <2>5, ExtractSays
    <3> HIDE DEF found, body
    <3> QED
      BY <3>1 DEF SaysBody
  <2>7. Matches(rule, req) <=> /\ MethodMatches(rule, req.method)
                               /\ PathMatches(rule, req.path)
                               /\ \E a \in found : Says(a)
    BY <1>2, <2>1 DEF Matches
  <2>8. Applies(rule, req) <=> /\ Visible(rule, req)
                               /\ MethodMatches(rule, req.method)
                               /\ PathMatches(rule, req.path)
                               /\ Walkable(body) /\ SaysBody(rule, body)
    BY <1>2, <2>1 DEF Applies
  <2> HIDE DEF Says, found, body
  <2>9. (\E a \in found : Says(a)) => Walkable(body) /\ MayApply(rule, body)
    BY <2>4
  <2> QED
    BY <2>6, <2>7, <2>8, <2>9 DEF body
<1> QED
  BY <1>1, <1>2
-----------------------------------------------------------------------------
(* The order of the rules                                                  *)

\* sort: every rule of the file has a place, the same priorities in file order.
LEMMA SortedByPriority ==
  ASSUME NEW file \in Seq(PolicyRule)
  PROVE  LET place(n) == AtRank(DOMAIN file, Earlier(file), n)
         IN  /\ DOMAIN ByPriority(file) = 1..Len(file) /\ DOMAIN file = 1..Len(file)
             /\ Len(file) \in Nat
             /\ \A n \in 1..Len(file) : place(n) \in 1..Len(file)
                                        /\ ByPriority(file)[n] = file[place(n)]
             /\ \A i \in 1..Len(file) : \E n \in 1..Len(file) : place(n) = i
             /\ \A m, n \in 1..Len(file) : m < n => <<place(m), place(n)>> \in Earlier(file)
<1> DEFINE D == DOMAIN file
           N == Len(file)
           R == Earlier(file)
<1>1. D = 1..N /\ N \in Nat
  OBVIOUS
<1>2. IsFiniteSet(D) /\ Cardinality(D) = N
  BY <1>1, IntervalSize
<1>3. \A i \in D : file[i].priority \in Int
  <2>1. \A i \in D : file[i] \in PolicyRule
    OBVIOUS
  <2> QED
    BY <2>1 DEF PolicyRule
<1>4. \A i, j \in D : <<i, j>> \in R <=> \/ file[i].priority < file[j].priority
                                         \/ file[i].priority = file[j].priority /\ i < j
  BY DEF Earlier
<1>5. /\ \A x \in D : <<x, x>> \notin R
      /\ \A x, y, z \in D : <<x, y>> \in R /\ <<y, z>> \in R => <<x, z>> \in R
      /\ \A x, y \in D : x # y => <<x, y>> \in R \/ <<y, x>> \in R
  <2> HIDE DEF R
  <2> QED
    BY <1>1, <1>3, <1>4
<1>6. /\ \A n \in 1..Cardinality(D) : AtRank(D, R, n) \in D
      /\ \A x \in D : \E n \in 1..Cardinality(D) : AtRank(D, R, n) = x
      /\ \A m, n \in 1..Cardinality(D) : m < n => <<AtRank(D, R, m), AtRank(D, R, n)>> \in R
  <2> HIDE DEF D, R
  <2> QED
    BY <1>2, <1>5, Ranking
<1>7. DOMAIN ByPriority(file) = D /\ \A n \in D : ByPriority(file)[n] = file[AtRank(D, R, n)]
  BY DEF ByPriority
<1> HIDE DEF D, R
<1> QED
  BY <1>1, <1>2, <1>6, <1>7 DEF D, R

\* What loading makes of a file: its rules in place, with no more conditions.
LEMMA LoadedIs ==
  ASSUME NEW file \in PolicyFile, Loadable(file)
  PROVE  /\ file \in Seq(PolicyRule) /\ LoadedRules(file) \in Seq(PolicyRule)
         /\ DOMAIN LoadedRules(file) = DOMAIN file
         /\ \A i \in DOMAIN file : /\ LoadedRules(file)[i] = [file[i] EXCEPT !.action = Action(file[i])]
                                   /\ OneCondition(LoadedRules(file)[i])
<1>1. file \in Seq(PolicyRule)
  BY PolicyAssumption DEF Loadable
<1>2. ASSUME NEW i \in DOMAIN file
      PROVE  LoadedRules(file)[i] \in PolicyRule /\ OneCondition(LoadedRules(file)[i])
  <2>1. file[i] \in PolicyRule
    BY <1>1, <1>2
  <2>2. Action(file[i]) \in DOMAIN UpperOf
    <3>1. file[i].action = NoCondition \/ file[i].action \in DOMAIN UpperOf
      BY <2>1 DEF PolicyRule
    <3> QED
      BY <3>1, PolicyAssumption DEF Action
  <2>3. LoadedRules(file)[i] = [file[i] EXCEPT !.action = Action(file[i])]
    BY DEF LoadedRules
  <2>4. LoadedRules(file)[i] \in PolicyRule
    BY <2>1, <2>2, <2>3 DEF PolicyRule
  <2>5. OneCondition(file[i])
    BY <1>2 DEF Loadable, Valid, OneCondition
  <2>6. OneCondition(LoadedRules(file)[i])
    BY <2>1, <2>3, <2>5 DEF OneCondition, PolicyRule
  <2> QED
    BY <2>4, <2>6
<1>3. DOMAIN file = 1..Len(file) /\ Len(file) \in Nat
  BY <1>1
<1>4. LoadedRules(file) = [i \in 1..Len(file) |-> LoadedRules(file)[i]]
  BY <1>3 DEF LoadedRules
<1>5. LoadedRules(file) \in [1..Len(file) -> PolicyRule]
  BY <1>2, <1>3, <1>4
<1> QED
  BY <1>1, <1>2, <1>3, <1>5 DEF LoadedRules

LEMMA EvaluatesFirst ==
  ASSUME NEW file \in Seq(PolicyRule), \A i \in DOMAIN file : OneCondition(file[i]),
         NEW req \in PolicyRequest
  PROVE  LET hits == {i \in DOMAIN file : Applies(file[i], req)}
             answer == Evaluate(ByPriority(file), req)
         IN  /\ req.astBlock /\ req.body # NoBody => answer = AstBlock
             /\ ~(req.astBlock /\ req.body # NoBody) /\ hits = {} => answer = NoRule
             /\ ~(req.astBlock /\ req.body # NoBody) /\ hits # {} =>
                  \E i \in hits : answer = file[i] /\ \A j \in hits : j = i \/ <<i, j>> \in Earlier(file)
<1> DEFINE place(n) == AtRank(DOMAIN file, Earlier(file), n)
           rules == ByPriority(file)
           hits == {i \in DOMAIN file : Applies(file[i], req)}
           tried == {n \in DOMAIN rules : /\ MayApply(rules[n], req.body)
                                          /\ Visible(rules[n], req) /\ Matches(rules[n], req)}
<1>1. /\ DOMAIN rules = 1..Len(file) /\ DOMAIN file = 1..Len(file) /\ Len(file) \in Nat
      /\ \A n \in 1..Len(file) : place(n) \in 1..Len(file) /\ rules[n] = file[place(n)]
      /\ \A i \in 1..Len(file) : \E n \in 1..Len(file) : place(n) = i
      /\ \A m, n \in 1..Len(file) : m < n => <<place(m), place(n)>> \in Earlier(file)
  BY SortedByPriority
<1>2. \A i \in 1..Len(file) : file[i] \in PolicyRule /\ OneCondition(file[i])
  BY <1>1
<1> HIDE DEF place, rules
<1>3. \A n \in 1..Len(file) : n \in tried <=> place(n) \in hits
  <2> SUFFICES ASSUME NEW n \in 1..Len(file) PROVE n \in tried <=> place(n) \in hits
    OBVIOUS
  <2>1. rules[n] = file[place(n)] /\ place(n) \in 1..Len(file)
    BY <1>1
  <2>2. rules[n] \in PolicyRule /\ OneCondition(rules[n])
    BY <1>2, <2>1
  <2>3. MayApply(rules[n], req.body) /\ Visible(rules[n], req) /\ Matches(rules[n], req)
          <=> Applies(rules[n], req)
    BY <2>2, TriedApplies
  <2> QED
    BY <1>1, <2>1, <2>3
<1>4. Evaluate(rules, req) = IF req.astBlock /\ req.body # NoBody THEN AstBlock
                             ELSE IF tried = {} THEN NoRule ELSE rules[Min(tried)]
  BY DEF Evaluate
<1>5. tried \in SUBSET (1..Len(file)) /\ hits \in SUBSET (1..Len(file))
  BY <1>1
<1> HIDE DEF tried, hits
<1>6. hits = {} => tried = {}
  BY <1>1, <1>3, <1>5
<1>7. ASSUME hits # {}
      PROVE  /\ tried # {}
             /\ \E i \in hits : rules[Min(tried)] = file[i]
                                /\ \A j \in hits : j = i \/ <<i, j>> \in Earlier(file)
  <2>1. tried # {}
    BY <1>1, <1>3, <1>5, <1>7
  <2>2. tried \in SUBSET Nat /\ IsFiniteSet(tried)
    <3>1. IsFiniteSet(1..Len(file))
      BY <1>1, IntervalSize
    <3>2. IsFiniteSet(tried)
      BY <1>5, <3>1, FS_Subset
    <3> QED
      BY <1>5, <3>2
  <2>3. PICK m \in tried : m = Min(tried) /\ \A n \in tried : m <= n
    BY <2>1, <2>2, LeastIndex
  <2>4. m \in 1..Len(file) /\ place(m) \in hits /\ rules[m] = file[place(m)]
    BY <1>1, <1>3, <1>5, <2>3
  <2>5. ASSUME NEW j \in hits
        PROVE  j = place(m) \/ <<place(m), j>> \in Earlier(file)
    <3>1. PICK n \in 1..Len(file) : place(n) = j
      BY <1>1, <1>5
    <3>2. n \in tried
      BY <1>3, <3>1
    <3>3. m = n \/ m < n
      BY <2>3, <2>4, <3>2
    <3> QED
      BY <1>1, <2>4, <3>1, <3>3
  <2> QED
    BY <2>1, <2>3, <2>4, <2>5
<1> QED
  BY <1>4, <1>6, <1>7 DEF hits, rules

-----------------------------------------------------------------------------
(* The engine                                                              *)

\* The rules are the last accepted file's, which is valid, as loading leaves
\* them, and the answer is the engine's to the request that is open.
PolicyInv ==
  /\ polFile \in PolicyFile /\ Loadable(polFile)
  /\ polRules = ByPriority(LoadedRules(polFile))
  /\ polRequest # NoRequest =>
       polRequest \in PolicyRequest /\ polAnswer = Evaluate(polRules, polRequest)

LEMMA ReloadKeepsRules ==
  ASSUME PolicyInv, polRequest = NoRequest, NEW f \in PolicyFile, Reload(f)
  PROVE  PolicyInv'
BY DEF PolicyInv, Reload

LEMMA PolicyInvStep == PolicyInv /\ [PolicyMatchNext]_policyVars => PolicyInv'
<1> SUFFICES ASSUME PolicyInv, [PolicyMatchNext]_policyVars
             PROVE  PolicyInv'
  OBVIOUS
<1>1. CASE polRequest = NoRequest /\ \E f \in PolicyFile : Reload(f)
  BY <1>1, ReloadKeepsRules
<1>2. ASSUME NEW req \in PolicyRequest, Ask(req)
      PROVE  PolicyInv'
  BY <1>2 DEF PolicyInv, Ask
<1>3. CASE Answered
  BY <1>3 DEF PolicyInv, Answered
<1>4. CASE UNCHANGED policyVars
  BY <1>4 DEF PolicyInv, policyVars
<1> QED
  BY <1>1, <1>2, <1>3, <1>4 DEF PolicyMatchNext

\* For any rule files and bodies: the engine's list is the last accepted file,
\* sorted, and every answer is what it evaluates to.
THEOREM PolicyInvariant == PolicyMatchSpec => []PolicyInv
<1>1. PolicyMatchInit => PolicyInv
  BY DEF PolicyMatchInit, PolicyInv
<1> QED
  BY <1>1, PolicyInvStep, PTL DEF PolicyMatchSpec

LEMMA PolicyInvFirstMatch == PolicyInv => FirstMatchWins
<1> SUFFICES ASSUME PolicyInv, polRequest # NoRequest
             PROVE  LET file == LoadedRules(polFile)
                        hits == {i \in DOMAIN file : Applies(file[i], polRequest)}
                        Before(i, j) ==
                          \/ file[i].priority < file[j].priority
                          \/ file[i].priority = file[j].priority /\ i <= j
                    IN  IF polRequest.astBlock /\ polRequest.body # NoBody THEN polAnswer = AstBlock
                        ELSE IF hits = {} THEN polAnswer = NoRule
                        ELSE \E i \in hits : polAnswer = file[i] /\ \A j \in hits : Before(i, j)
  BY DEF FirstMatchWins
<1> DEFINE file == LoadedRules(polFile)
           hits == {i \in DOMAIN file : Applies(file[i], polRequest)}
           Before(i, j) == \/ file[i].priority < file[j].priority
                           \/ file[i].priority = file[j].priority /\ i <= j
<1>1. /\ file \in Seq(PolicyRule) /\ polRequest \in PolicyRequest
      /\ \A i \in DOMAIN file : OneCondition(file[i])
      /\ polAnswer = Evaluate(ByPriority(file), polRequest)
  BY LoadedIs DEF PolicyInv
<1> HIDE DEF file
<1>2. /\ polRequest.astBlock /\ polRequest.body # NoBody => polAnswer = AstBlock
      /\ ~(polRequest.astBlock /\ polRequest.body # NoBody) /\ hits = {} => polAnswer = NoRule
      /\ ~(polRequest.astBlock /\ polRequest.body # NoBody) /\ hits # {} =>
           \E i \in hits : polAnswer = file[i]
                           /\ \A j \in hits : j = i \/ <<i, j>> \in Earlier(file)
  BY <1>1, EvaluatesFirst
<1>3. ASSUME NEW i \in hits, NEW j \in hits, j = i \/ <<i, j>> \in Earlier(file)
      PROVE  Before(i, j)
  <2>1. i \in Int /\ file[i].priority \in Int
    <3>1. i \in DOMAIN file /\ DOMAIN file = 1..Len(file) /\ file[i] \in PolicyRule
      BY <1>1
    <3> QED
      BY <3>1 DEF PolicyRule
  <2>2. CASE j = i
    BY <2>1, <2>2
  <2>3. CASE <<i, j>> \in Earlier(file)
    <3>1. j \in Int
      <4>1. j \in DOMAIN file /\ DOMAIN file = 1..Len(file)
        BY <1>1
      <4> QED
        BY <4>1
    <3>2. \/ file[i].priority < file[j].priority
          \/ file[i].priority = file[j].priority /\ i < j
      BY <2>3 DEF Earlier
    <3> QED
      BY <2>1, <3>1, <3>2
  <2> QED
    BY <1>3, <2>2, <2>3
<1> HIDE DEF hits, Before
<1>4. IF polRequest.astBlock /\ polRequest.body # NoBody THEN polAnswer = AstBlock
      ELSE IF hits = {} THEN polAnswer = NoRule
      ELSE \E i \in hits : polAnswer = file[i] /\ \A j \in hits : Before(i, j)
  BY <1>2, <1>3
<1> QED
  BY <1>4 DEF hits, Before, file

\* For any rule files, priorities, bodies and requests: the answer is the first
\* applicable rule of the last accepted file, whatever the index prunes, and
\* the AST gate's block where it blocks.
THEOREM PolicyFirstMatchWins == PolicyMatchSpec => []FirstMatchWins
  BY PolicyInvariant, PolicyInvFirstMatch, PTL
-----------------------------------------------------------------------------
(* The generated matchers                                                  *)

\* One rule of the compiled kinds: its function tests what the engine tests.
LEMMA GeneratedMatches ==
  ASSUME NEW rule, Compilable(rule), NEW req, InUpper(req.method)
  PROVE  /\ GeneratedMatch(rule, req.path, req.method, ToolsNamed(req))
              <=> MayApply(rule, req.body) /\ Visible(rule, req) /\ Matches(rule, req)
         /\ ~GeneratedRaises(rule, req.method, ToolsNamed(req))
<1> DEFINE path == req.path
           method == req.method
           tools == ToolsNamed(req)
<1>1. /\ rule.method # NoCondition /\ rule.tenant = NoTenant /\ rule.toolArgs = NoCondition
      /\ SameMethod(rule, method) <=> MethodMatches(rule, method)
  BY DEF Compilable, InUpper, SameMethod, MethodMatches
<1>0. Visible(rule, req)
  BY <1>1 DEF Visible
<1>2. CASE rule.jsonPath = NoCondition
  <2>1. ~HasJson(rule) /\ MayApply(rule, req.body)
    BY <1>2 DEF HasJson, MayApply
  <2>2. Matches(rule, req) <=> MethodMatches(rule, method) /\ PathMatches(rule, path)
    BY <1>1, <1>2 DEF Matches
  <2> QED
    BY <1>0, <1>1, <2>1, <2>2 DEF GeneratedMatch, GeneratedRaises, PathRendered
<1>3. CASE rule.jsonPath # NoCondition
  <2>1. /\ rule.jsonPath = NamePath /\ rule.pattern # NoCondition
        /\ rule.pattern.doubled = rule.pattern.words
        /\ rule.path = [kind |-> "glob", at |-> <<>>]
    BY <1>3 DEF Compilable
  <2>2. HasJson(rule)
    BY <1>3, <2>1 DEF HasJson
  <2>3. MayApply(rule, req.body)
    <3>1. NamePath[1].op = "descend"
      BY DEF NamePath
    <3> QED
      BY <2>1, <3>1 DEF MayApply
  <2>4. PathMatches(rule, path)
    BY <2>1 DEF PathMatches
  <2> DEFINE found == JsonExtract(req.body, NamePath)
             words == rule.pattern.words
  <2>5. Matches(rule, req) <=> MethodMatches(rule, method)
                               /\ \E a \in found : Words(req.body, a) \cap words # {}
    <3>1. Matches(rule, req) <=> /\ MethodMatches(rule, method)
                                 /\ PathMatches(rule, path)
                                 /\ found # {}
                                 /\ \/ rule.pattern = NoCondition
                                    \/ \E a \in found : Words(req.body, a) \cap words # {}
      BY <1>1, <1>3, <2>1 DEF Matches
    <3> HIDE DEF found
    <3> QED
      BY <2>1, <2>4, <3>1
  <2>6. tools \cap words # {} <=> \E a \in found : Words(req.body, a) \cap words # {}
    BY DEF ToolsNamed
  <2>7. words # NoCondition
    BY <1>3, <2>1 DEF Compilable
  <2>8. JsonRendered(rule, tools) <=> tools \cap words # {}
    BY <2>1, <2>7 DEF JsonRendered
  <2>9. ~JsonRaises(rule, tools)
    BY <2>1, <2>7 DEF JsonRaises
  <2> HIDE DEF found, tools, words
  <2>10. /\ GeneratedMatch(rule, path, method, tools)
              <=> MayApply(rule, req.body) /\ Visible(rule, req) /\ Matches(rule, req)
         /\ ~GeneratedRaises(rule, method, tools)
    BY <1>0, <1>1, <2>2, <2>3, <2>5, <2>6, <2>8, <2>9 DEF GeneratedMatch, GeneratedRaises
  <2> QED
    BY <2>10 DEF tools
<1> QED
  BY <1>2, <1>3

\* No name of the file is overwritten by a later one.
LEMMA NamesStand ==
  ASSUME NEW file \in Seq(PolicyRule), NEW i \in DOMAIN file,
         IsInjective([j \in DOMAIN file |-> IdentOf[file[j].name]]), file[i].action # NoCondition
  PROVE  FunctionOf(file, file[i].name) = file[i] /\ EntryOf(file, file[i].name) = file[i]
<1> DEFINE functions == {j \in DOMAIN file : IdentOf[file[j].name] = IdentOf[file[i].name]}
           entries == {j \in DOMAIN file : file[j].name = file[i].name}
<1>1. \A j \in DOMAIN file : IdentOf[file[j].name] = IdentOf[file[i].name] => j = i
  BY DEF IsInjective
<1>2. functions = {i} /\ entries = {i}
  BY <1>1
<1>3. i \in Int
  <2>1. DOMAIN file = 1..Len(file)
    OBVIOUS
  <2> QED
    BY <2>1
<1>4. Max({i}) = i
  BY <1>3 DEF Max
<1>5. FunctionOf(file, file[i].name) = file[i]
  BY <1>2, <1>4, Zenon DEF FunctionOf
<1>6. file[Max(entries)] = file[i]
  BY <1>2, <1>4
<1>7. EntryOf(file, file[i].name)
        = [file[Max(entries)] EXCEPT !.action = IF file[Max(entries)].action = NoCondition THEN "None"
                                                ELSE file[Max(entries)].action]
  BY DEF EntryOf
<1> HIDE DEF entries
<1>8. EntryOf(file, file[i].name) = [file[i] EXCEPT !.action = file[i].action]
  BY <1>6, <1>7
<1>9. file[i] \in PolicyRule
  OBVIOUS
<1> QED
  BY <1>5, <1>8, <1>9 DEF PolicyRule

LEMMA PolicyInvGenerated == PolicyInv => GeneratedAgrees
<1> DEFINE file == polFile
           req == polRequest
           order == ByPriority(file)
           tools == ToolsNamed(req)
           tried == {n \in DOMAIN order : /\ MayApply(order[n], req.body)
                                          /\ Visible(order[n], req) /\ Matches(order[n], req)}
           Function(n) == FunctionOf(file, order[n].name)
           hits == {n \in DOMAIN order : GeneratedMatch(Function(n), req.path, req.method, tools)}
           raises == {n \in DOMAIN order : GeneratedRaises(Function(n), req.method, tools)}
<1> SUFFICES ASSUME PolicyInv, req # NoRequest, InUpper(req.method), polAnswer # AstBlock,
                    \A i \in DOMAIN file : Compilable(file[i]),
                    IsInjective([i \in DOMAIN file |-> IdentOf[file[i].name]])
             PROVE  MatchAny(file, req.path, req.method, tools) = polAnswer
  BY DEF GeneratedAgrees
<1>2. file \in Seq(PolicyRule)
  BY LoadedIs DEF PolicyInv
<1>0. LoadedRules(file) = file
  <2>1. ASSUME NEW i \in DOMAIN file
        PROVE  [file[i] EXCEPT !.action = Action(file[i])] = file[i]
    <3>1. file[i] \in PolicyRule
      BY <1>2
    <3>2. Action(file[i]) = file[i].action
      BY DEF Compilable, InUpper, Action
    <3> QED
      BY <3>1, <3>2 DEF PolicyRule
  <2>2. DOMAIN file = 1..Len(file) /\ file = [i \in DOMAIN file |-> file[i]]
    BY <1>2
  <2> QED
    BY <2>1, <2>2 DEF LoadedRules
<1>1. polAnswer = Evaluate(order, req)
  BY <1>0 DEF PolicyInv
<1>3. polAnswer = IF tried = {} THEN NoRule ELSE order[Min(tried)]
  <2>1. polAnswer = IF req.astBlock /\ req.body # NoBody THEN AstBlock
                    ELSE IF tried = {} THEN NoRule ELSE order[Min(tried)]
    BY <1>1 DEF Evaluate
  <2> QED
    BY <2>1
<1>4. MatchAny(file, req.path, req.method, tools)
        = IF hits \cup raises = {} THEN NoRule
          ELSE IF Min(hits \cup raises) \in raises THEN Raised
          ELSE EntryOf(file, order[Min(hits \cup raises)].name)
  BY DEF MatchAny, GeneratedOrder
<1>5. ASSUME NEW n \in DOMAIN order
      PROVE  /\ \E i \in DOMAIN file : order[n] = file[i]
             /\ FunctionOf(file, order[n].name) = order[n]
             /\ EntryOf(file, order[n].name) = order[n]
  <2>1. PICK i \in DOMAIN file : order[n] = file[i]
    BY <1>2, SortedByPriority
  <2>2. file[i].action # NoCondition
    BY DEF Compilable, InUpper
  <2> QED
    BY <1>2, <2>1, <2>2, NamesStand
<1>6. hits = tried /\ raises = {}
  <2> SUFFICES ASSUME NEW n \in DOMAIN order PROVE (n \in hits <=> n \in tried) /\ n \notin raises
    OBVIOUS
  <2>1. Function(n) = order[n] /\ Compilable(order[n])
    BY <1>5
  <2> HIDE DEF order, tools, Function
  <2>2. /\ GeneratedMatch(order[n], req.path, req.method, tools)
              <=> MayApply(order[n], req.body) /\ Visible(order[n], req) /\ Matches(order[n], req)
        /\ ~GeneratedRaises(order[n], req.method, tools)
    BY <2>1, GeneratedMatches DEF tools
  <2> QED
    BY <2>1, <2>2
<1>10. hits \cup raises = tried
  BY <1>6
<1>7. CASE tried = {}
  <2> HIDE DEF tried, hits, raises, order, tools
  <2> QED
    BY <1>3, <1>4, <1>7, <1>10
<1>8. CASE tried # {}
  <2>1. Min(tried) \in DOMAIN order
    <3>1. DOMAIN order = 1..Len(file) /\ Len(file) \in Nat
      BY <1>2, SortedByPriority
    <3>2. IsFiniteSet(1..Len(file))
      BY <3>1, IntervalSize
    <3>3. tried \in SUBSET (1..Len(file))
      BY <3>1
    <3> HIDE DEF tried
    <3>4. IsFiniteSet(tried)
      BY <3>2, <3>3, FS_Subset
    <3>5. tried \in SUBSET Nat
      BY <3>3
    <3> QED
      BY <1>8, <3>1, <3>3, <3>4, <3>5, LeastIndex
  <2> HIDE DEF tried, hits, raises, order, tools
  <2> QED
    BY <1>3, <1>4, <1>5, <1>6, <1>8, <1>10, <2>1
<1> QED
  BY <1>7, <1>8

\* For any rule files of the compiled kinds, in upper case and with patterns the
\* escaping leaves alone, whose identifiers stay distinct: the generated module
\* answers every request as the engine does, and does not raise.
THEOREM PolicyGeneratedAgrees == PolicyMatchSpec => []GeneratedAgrees
  BY PolicyInvariant, PolicyInvGenerated, PTL
-----------------------------------------------------------------------------
(* Tools of a chat request                                                 *)

LEMMA EntryIs ==
  ASSUME NEW body, IsJson(body), NEW p, NEW d
  PROVE  d \in Entries(body, p)
           <=> IsList(body, p) /\ d \in DOMAIN body /\ Len(d) = Len(p) + 1 /\ SubSeq(d, 1, Len(p)) = p
<1>1. CASE ~IsList(body, p)
  BY <1>1 DEF Entries
<1>2. CASE IsList(body, p)
  <2>1. p \in DOMAIN body /\ body[p].kind = "list" /\ Len(p) \in Nat /\ SubSeq(p, 1, Len(p)) = p
    BY <1>2, Addresses DEF IsList
  <2>2. d \in Entries(body, p) <=> d \in Beneath(body, p) /\ Len(d) = Len(p) + 1
    BY <1>2 DEF Entries, Children
  <2>3. Len(d) = Len(p) + 1 => Len(p)..(Len(d) - 1) = {Len(p)}
    BY <2>1
  <2>4. ASSUME Len(d) = Len(p) + 1
        PROVE  d \in Beneath(body, p) <=> d \in DOMAIN body /\ SubSeq(d, 1, Len(p)) = p
    <3>1. IsPrefix(p, d) <=> SubSeq(d, 1, Len(p)) = p
      BY <2>1, <2>4 DEF IsPrefix
    <3>2. SubSeq(d, 1, Len(p)) = p => \A n \in Len(p)..(Len(d) - 1) : Container(body[SubSeq(d, 1, n)])
      BY <2>1, <2>3, <2>4 DEF Container
    <3> QED
      BY <3>1, <3>2 DEF Beneath
  <2> QED
    BY <1>2, <2>2, <2>4
<1> QED
  BY <1>1, <1>2

LEMMA OneKey ==
  ASSUME NEW k \in FieldName
  PROVE  <<k>> \in Seq(FieldName) /\ Len(<<k>>) = 1 /\ <<k>>[1] = k
OBVIOUS

LEMMA FirstKey ==
  ASSUME NEW a \in Seq(FieldName), Len(a) >= 1, NEW k \in FieldName
  PROVE  SubSeq(a, 1, 1) = <<k>> <=> a[1] = k
<1> DEFINE b == SubSeq(a, 1, 1)
           c == <<k>>
<1>1. b \in Seq(FieldName) /\ Len(b) = 1 /\ b[1] = a[1]
  <2>1. 1 \in 0..Len(a)
    BY LenProperties
  <2> QED
    BY <2>1, Beginning
<1>2. c \in Seq(FieldName) /\ Len(c) = 1 /\ c[1] = k
  BY OneKey
<1> HIDE DEF b, c
<1>3. a[1] = k => \A i \in 1..Len(b) : b[i] = c[i]
  BY <1>1, <1>2
<1>4. a[1] = k => b = c
  BY <1>1, <1>2, <1>3, SeqEqual
<1>5. b = c => a[1] = k
  BY <1>1, <1>2
<1> QED
  BY <1>4, <1>5 DEF b, c

LEMMA FieldsAreNamed ==
  /\ "function" \in FieldName /\ "name" \in FieldName /\ "tools" \in FieldName
  /\ "messages" \in FieldName /\ "tool_calls" \in FieldName
BY PolicyAssumption, ChatAssumption

LEMMA NameParts ==
  ASSUME NEW d \in Seq(FieldName)
  PROVE  /\ FunctionAt(d) \in Seq(FieldName) /\ Len(FunctionAt(d)) = Len(d) + 1
         /\ NameAt(d) \in Seq(FieldName) /\ Len(NameAt(d)) = Len(d) + 2
         /\ SubSeq(NameAt(d), 1, Len(d)) = d
         /\ SubSeq(NameAt(d), 1, Len(d) + 1) = FunctionAt(d)
         /\ \A i \in 1..Len(d) : NameAt(d)[i] = d[i]
         /\ NameAt(d)[Len(d) + 1] = "function" /\ NameAt(d)[Len(d) + 2] = "name"
<1> DEFINE f == Append(d, "function")
           a == Append(f, "name")
<1>0. Len(d) \in Nat /\ "function" \in FieldName /\ "name" \in FieldName
  BY FieldsAreNamed, LenProperties
<1>1. /\ f \in Seq(FieldName) /\ Len(f) = Len(d) + 1
      /\ \A i \in 1..Len(d) : f[i] = d[i]
      /\ f[Len(d) + 1] = "function"
  BY <1>0, AppendProperties
<1> HIDE DEF f
<1>2. /\ a \in Seq(FieldName) /\ Len(a) = Len(f) + 1
      /\ \A i \in 1..Len(f) : a[i] = f[i]
      /\ a[Len(f) + 1] = "name"
  BY <1>0, <1>1, AppendProperties
<1> HIDE DEF a
<1>3. /\ \A i \in 1..Len(d) : a[i] = d[i]
      /\ a[Len(d) + 1] = "function" /\ a[Len(d) + 2] = "name" /\ Len(a) = Len(d) + 2
  BY <1>0, <1>1, <1>2
<1>4. /\ SubSeq(a, 1, Len(d)) \in Seq(FieldName) /\ Len(SubSeq(a, 1, Len(d))) = Len(d)
      /\ \A i \in 1..Len(d) : SubSeq(a, 1, Len(d))[i] = a[i]
  BY <1>0, <1>2, <1>3, Beginning
<1>5. SubSeq(a, 1, Len(d)) = d
  BY <1>3, <1>4, SeqEqual
<1>6. /\ SubSeq(a, 1, Len(f)) \in Seq(FieldName) /\ Len(SubSeq(a, 1, Len(f))) = Len(f)
      /\ \A i \in 1..Len(f) : SubSeq(a, 1, Len(f))[i] = a[i]
  BY <1>0, <1>1, <1>2, <1>3, Beginning
<1>7. SubSeq(a, 1, Len(f)) = f
  BY <1>1, <1>2, <1>6, SeqEqual
<1> QED
  BY <1>1, <1>2, <1>3, <1>5, <1>7 DEF a, f, NameAt, FunctionAt

LEMMA NameFrom ==
  ASSUME NEW a \in Seq(FieldName), NEW k \in Nat, Len(a) = k + 2, a[k + 1] = "function", a[k + 2] = "name"
  PROVE  /\ SubSeq(a, 1, k + 1) = FunctionAt(SubSeq(a, 1, k))
         /\ a = NameAt(SubSeq(a, 1, k))
<1>1. SubSeq(a, 1, k + 1) = Append(SubSeq(a, 1, k), a[k + 1])
  BY BeginningNext
<1>2. SubSeq(a, 1, (k + 1) + 1) = Append(SubSeq(a, 1, k + 1), a[(k + 1) + 1])
  <2>1. k + 1 \in 0..(Len(a) - 1)
    OBVIOUS
  <2> QED
    BY <2>1, BeginningNext
<1>3. SubSeq(a, 1, k + 2) = a
  BY SubSeqFull
<1>4. (k + 1) + 1 = k + 2
  OBVIOUS
<1> QED
  BY <1>1, <1>2, <1>3, <1>4 DEF FunctionAt, NameAt

DeclaredIn(body) == Entries(body, <<"tools">>) \cup CallsIn(body)

\* Where declarations are: an entry of "tools", or one of the "tool_calls" of a
\* message that is an object.
LEMMA DeclaredAt ==
  ASSUME NEW body, IsJson(body), NEW d \in Seq(FieldName)
  PROVE  d \in DeclaredIn(body)
           <=> /\ d \in DOMAIN body
               /\ \/ Len(d) = 2 /\ d[1] = "tools" /\ IsList(body, <<"tools">>)
                  \/ /\ Len(d) = 4 /\ d[1] = "messages" /\ d[3] = "tool_calls"
                     /\ IsList(body, <<"messages">>)
                     /\ IsDict(body, SubSeq(d, 1, 2)) /\ IsList(body, SubSeq(d, 1, 3))
<1>1. d \in Entries(body, <<"tools">>)
        <=> d \in DOMAIN body /\ Len(d) = 2 /\ d[1] = "tools" /\ IsList(body, <<"tools">>)
  <2> DEFINE p == <<"tools">>
  <2>1. Len(p) = 1
    BY FieldsAreNamed, OneKey
  <2>2. Len(d) = 2 => (SubSeq(d, 1, 1) = p <=> d[1] = "tools")
    <3>1. "tools" \in FieldName
      BY FieldsAreNamed
    <3>2. Len(d) = 2 => Len(d) >= 1
      OBVIOUS
    <3> QED
      BY <3>1, <3>2, FirstKey
  <2> HIDE DEF p
  <2>3. d \in Entries(body, p)
          <=> IsList(body, p) /\ d \in DOMAIN body /\ Len(d) = Len(p) + 1 /\ SubSeq(d, 1, Len(p)) = p
    BY EntryIs
  <2>4. Len(p) + 1 = 2
    BY <2>1
  <2>5. d \in Entries(body, p) <=> d \in DOMAIN body /\ Len(d) = 2 /\ d[1] = "tools" /\ IsList(body, p)
    BY <2>1, <2>2, <2>3, <2>4
  <2> QED
    BY <2>5 DEF p
<1>2. ASSUME d \in CallsIn(body)
      PROVE  /\ d \in DOMAIN body
             /\ Len(d) = 4 /\ d[1] = "messages" /\ d[3] = "tool_calls"
             /\ IsList(body, <<"messages">>)
             /\ IsDict(body, SubSeq(d, 1, 2)) /\ IsList(body, SubSeq(d, 1, 3))
  <2>1. PICK m \in Messages(body) : d \in Entries(body, Append(m, "tool_calls"))
    BY <1>2 DEF CallsIn
  <2>2. m \in Entries(body, <<"messages">>) /\ IsDict(body, m)
    BY <2>1 DEF Messages
  <2>3. Len(<<"messages">>) = 1
    BY FieldsAreNamed, OneKey
  <2>4. /\ IsList(body, <<"messages">>) /\ m \in DOMAIN body
        /\ Len(m) = 2 /\ SubSeq(m, 1, 1) = <<"messages">>
    <3> DEFINE p == <<"messages">>
    <3>1. m \in Entries(body, p) /\ Len(p) = 1
      BY <2>2, <2>3
    <3> HIDE DEF p
    <3>2. IsList(body, p) /\ m \in DOMAIN body /\ Len(m) = Len(p) + 1 /\ SubSeq(m, 1, Len(p)) = p
      BY <3>1, EntryIs
    <3>3. IsList(body, p) /\ m \in DOMAIN body /\ Len(m) = 2 /\ SubSeq(m, 1, 1) = p
      BY <3>1, <3>2
    <3> QED
      BY <3>3 DEF p
  <2>5. m \in Seq(FieldName)
    BY <2>4, Addresses
  <2>6. m[1] = "messages"
    <3>1. "messages" \in FieldName /\ Len(m) >= 1
      BY <2>4, FieldsAreNamed
    <3> QED
      BY <2>4, <2>5, <3>1, FirstKey
  <2> DEFINE c == Append(m, "tool_calls")
  <2>7. Len(c) = 3 /\ c[3] = "tool_calls" /\ c[1] = m[1] /\ c[2] = m[2] /\ c \in Seq(FieldName)
    <3>1. "tool_calls" \in FieldName
      BY FieldsAreNamed
    <3>2. /\ c \in Seq(FieldName) /\ Len(c) = Len(m) + 1
          /\ \A i \in 1..Len(m) : c[i] = m[i]
          /\ c[Len(m) + 1] = "tool_calls"
      BY <2>5, <3>1, AppendProperties
    <3> HIDE DEF c
    <3> QED
      BY <2>4, <3>2
  <2>8. /\ IsList(body, c) /\ d \in DOMAIN body
        /\ Len(d) = Len(c) + 1 /\ SubSeq(d, 1, Len(c)) = c
    BY <2>1, EntryIs
  <2> HIDE DEF c
  <2>9. Len(d) = 4 /\ SubSeq(d, 1, 3) = c
    BY <2>7, <2>8
  <2>10. 3 \in 0..Len(d) /\ 2 \in 0..Len(d)
    BY <2>9
  <2>11. \A i \in 1..3 : c[i] = d[i]
    BY <2>9, <2>10, Beginning
  <2>12. /\ SubSeq(d, 1, 2) \in Seq(FieldName) /\ Len(SubSeq(d, 1, 2)) = 2
         /\ \A i \in 1..2 : SubSeq(d, 1, 2)[i] = d[i]
    BY <2>10, Beginning
  <2>13. SubSeq(d, 1, 2) = m
    <3>1. \A i \in 1..2 : SubSeq(d, 1, 2)[i] = m[i]
      BY <2>7, <2>11, <2>12
    <3> QED
      BY <2>4, <2>5, <2>12, <3>1, SeqEqual
  <2>14. d[1] = "messages" /\ d[3] = "tool_calls"
    BY <2>6, <2>7, <2>11
  <2>15. IsList(body, SubSeq(d, 1, 3)) /\ IsDict(body, SubSeq(d, 1, 2))
    BY <2>2, <2>8, <2>9, <2>13, Zenon
  <2> QED
    BY <2>4, <2>8, <2>9, <2>14, <2>15
<1>3. ASSUME d \in DOMAIN body, Len(d) = 4, d[1] = "messages", d[3] = "tool_calls",
             IsList(body, <<"messages">>), IsDict(body, SubSeq(d, 1, 2)), IsList(body, SubSeq(d, 1, 3))
      PROVE  d \in CallsIn(body)
  <2> DEFINE m == SubSeq(d, 1, 2)
             c == SubSeq(d, 1, 3)
  <2>1. c = Append(m, "tool_calls")
    <3>1. 2 \in 0..(Len(d) - 1)
      BY <1>3
    <3>2. SubSeq(d, 1, 2 + 1) = Append(SubSeq(d, 1, 2), d[2 + 1])
      BY <3>1, BeginningNext
    <3> QED
      BY <1>3, <3>2
  <2>2. /\ Len(m) = 2 /\ m \in Seq(FieldName) /\ m[1] = d[1]
        /\ Len(c) = 3 /\ m \in DOMAIN body
    <3>1. 2 \in 0..Len(d) /\ 3 \in 0..Len(d) /\ 1 \in 1..2
      BY <1>3
    <3>2. m \in Seq(FieldName) /\ Len(m) = 2 /\ m[1] = d[1]
      BY <3>1, Beginning
    <3>3. Len(c) = 3
      BY <3>1, Beginning
    <3>4. m \in DOMAIN body
      BY <1>3, <3>1, Addresses
    <3> QED
      BY <3>2, <3>3, <3>4
  <2>3. d \in Entries(body, c)
    <3>1. SubSeq(d, 1, 3) = c
      OBVIOUS
    <3>2. IsList(body, c)
      BY <1>3
    <3> HIDE DEF c, m
    <3>3. Len(d) = Len(c) + 1 /\ SubSeq(d, 1, Len(c)) = c
      BY <1>3, <2>2, <3>1
    <3> QED
      BY <1>3, <3>2, <3>3, EntryIs
  <2>4. SubSeq(m, 1, 1) = <<"messages">>
    <3>1. "messages" \in FieldName /\ m[1] = "messages" /\ Len(m) >= 1 /\ m \in Seq(FieldName)
      BY <1>3, <2>2, FieldsAreNamed
    <3> HIDE DEF m
    <3> QED
      BY <3>1, FirstKey
  <2>5. m \in Entries(body, <<"messages">>)
    <3> DEFINE p == <<"messages">>
    <3>1. Len(p) = 1 /\ SubSeq(m, 1, 1) = p /\ IsList(body, p)
      BY <1>3, <2>4, FieldsAreNamed, OneKey
    <3> HIDE DEF p, m
    <3>2. Len(m) = Len(p) + 1 /\ SubSeq(m, 1, Len(p)) = p
      BY <2>2, <3>1
    <3>3. m \in Entries(body, p)
      BY <2>2, <3>1, <3>2, EntryIs
    <3> QED
      BY <3>3 DEF p, m
  <2>6. m \in Messages(body)
    BY <1>3, <2>5 DEF Messages
  <2> QED
    BY <2>1, <2>3, <2>6, Zenon DEF CallsIn
<1> QED
  BY <1>1, <1>2, <1>3 DEF DeclaredIn

\* What a name at its place is the name of.
LEMMA Declaring ==
  ASSUME NEW body, IsJson(body), NEW a \in DOMAIN body, NEW k \in Nat,
         Len(a) = k + 2, a[k + 1] = "function", a[k + 2] = "name"
  PROVE  /\ SubSeq(a, 1, k) \in Seq(FieldName) /\ SubSeq(a, 1, k) \in DOMAIN body
         /\ Len(SubSeq(a, 1, k)) = k
         /\ \A i \in 1..k : SubSeq(a, 1, k)[i] = a[i]
         /\ \A l \in 0..k : SubSeq(SubSeq(a, 1, k), 1, l) = SubSeq(a, 1, l)
         /\ FunctionAt(SubSeq(a, 1, k)) = SubSeq(a, 1, k + 1)
         /\ SubSeq(a, 1, k + 1) \in DOMAIN body
         /\ NameAt(SubSeq(a, 1, k)) = a
<1>1. a \in Seq(FieldName) /\ \A n \in 0..Len(a) : SubSeq(a, 1, n) \in DOMAIN body
  BY Addresses
<1>2. k \in 0..Len(a) /\ k + 1 \in 0..Len(a)
  OBVIOUS
<1>3. /\ SubSeq(a, 1, k) \in Seq(FieldName) /\ Len(SubSeq(a, 1, k)) = k
      /\ \A i \in 1..k : SubSeq(a, 1, k)[i] = a[i]
      /\ \A l \in 0..k : SubSeq(SubSeq(a, 1, k), 1, l) = SubSeq(a, 1, l)
  BY <1>1, <1>2, Beginning
<1>4. FunctionAt(SubSeq(a, 1, k)) = SubSeq(a, 1, k + 1) /\ NameAt(SubSeq(a, 1, k)) = a
  BY <1>1, NameFrom
<1> QED
  BY <1>1, <1>2, <1>3, <1>4

\* A name stands well exactly when a declaration stands where it leads up to.
LEMMA PlaceDeclared ==
  ASSUME NEW body, IsJson(body), NEW a \in NamePlaces(body)
  PROVE  LET d == SubSeq(a, 1, Len(a) - 2)
         IN  /\ d \in DOMAIN body /\ FunctionAt(d) \in DOMAIN body /\ NameAt(d) = a
             /\ WellPlaced(body, a) <=> /\ d \in DeclaredIn(body)
                                       /\ IsDict(body, d) /\ IsDict(body, FunctionAt(d))
             /\ \/ Len(d) = 2 /\ d[1] = "tools" /\ <<"tools">> \in DOMAIN body
                \/ /\ Len(d) = 4 /\ d[1] = "messages" /\ d[3] = "tool_calls"
                   /\ <<"messages">> \in DOMAIN body
                   /\ IsDict(body, SubSeq(d, 1, 2)) /\ SubSeq(d, 1, 3) \in DOMAIN body
<1> DEFINE d == SubSeq(a, 1, Len(a) - 2)
<1>0. /\ a \in DOMAIN body /\ a \in Seq(FieldName)
      /\ \A n \in 0..Len(a) : SubSeq(a, 1, n) \in DOMAIN body
  <2>1. a \in DOMAIN body
    BY DEF NamePlaces
  <2> QED
    BY <2>1, Addresses
<1>1. CASE Len(a) = 4
  <2>1. a[1] = "tools" /\ a[2 + 1] = "function" /\ a[2 + 2] = "name" /\ Len(a) = 2 + 2
    BY <1>1 DEF NamePlaces
  <2> DEFINE e == SubSeq(a, 1, 2)
  <2>2. /\ e \in Seq(FieldName) /\ e \in DOMAIN body /\ Len(e) = 2
        /\ \A i \in 1..2 : e[i] = a[i]
        /\ FunctionAt(e) = SubSeq(a, 1, 2 + 1)
        /\ SubSeq(a, 1, 2 + 1) \in DOMAIN body /\ NameAt(e) = a
    <3>1. PICK k \in Nat : k = 2
      OBVIOUS
    <3>2. Len(a) = k + 2 /\ a[k + 1] = "function" /\ a[k + 2] = "name"
      BY <2>1, <3>1
    <3>3. /\ SubSeq(a, 1, k) \in Seq(FieldName) /\ SubSeq(a, 1, k) \in DOMAIN body
          /\ Len(SubSeq(a, 1, k)) = k
          /\ \A i \in 1..k : SubSeq(a, 1, k)[i] = a[i]
          /\ \A l \in 0..k : SubSeq(SubSeq(a, 1, k), 1, l) = SubSeq(a, 1, l)
          /\ FunctionAt(SubSeq(a, 1, k)) = SubSeq(a, 1, k + 1)
          /\ SubSeq(a, 1, k + 1) \in DOMAIN body
          /\ NameAt(SubSeq(a, 1, k)) = a
      BY <1>0, <3>2, Declaring
    <3> QED
      BY <3>1, <3>3
  <2> DEFINE f == SubSeq(a, 1, 3)
             g == SubSeq(a, 1, 1)
  <2>3. g = <<"tools">>
    BY <1>0, <1>1, <2>1, FieldsAreNamed, FirstKey
  <2>4. WellPlaced(body, a) <=> body[g].kind = "list" /\ body[e].kind = "dict" /\ body[f].kind = "dict"
    <3>1. WellPlaced(body, a) <=> \A n \in 1..3 : body[SubSeq(a, 1, n)].kind = <<"list", "dict", "dict">>[n]
      BY <1>1 DEF WellPlaced
    <3>2. 1..3 = {1, 2, 3}
      OBVIOUS
    <3> QED
      BY <3>1, <3>2
  <2>5. g \in DOMAIN body /\ f \in DOMAIN body /\ FunctionAt(e) = f
    BY <1>0, <1>1, <2>2
  <2> HIDE DEF e, f, g
  <2>6. e[1] = "tools"
    BY <2>1, <2>2
  <2>7. e \in DeclaredIn(body) <=> body[g].kind = "list"
    <3>1. IsList(body, <<"tools">>) <=> body[g].kind = "list"
      BY <2>3, <2>5 DEF IsList
    <3> QED
      BY <2>2, <2>6, <3>1, DeclaredAt
  <2>8. /\ IsDict(body, e) <=> body[e].kind = "dict"
        /\ IsDict(body, FunctionAt(e)) <=> body[f].kind = "dict"
    BY <2>2, <2>5 DEF IsDict
  <2>9. d = e
    BY <1>1 DEF e
  <2> HIDE DEF d
  <2>10. /\ e \in DOMAIN body /\ FunctionAt(e) \in DOMAIN body /\ NameAt(e) = a
         /\ WellPlaced(body, a) <=> e \in DeclaredIn(body) /\ IsDict(body, e) /\ IsDict(body, FunctionAt(e))
         /\ Len(e) = 2 /\ e[1] = "tools" /\ <<"tools">> \in DOMAIN body
    BY <2>2, <2>3, <2>4, <2>5, <2>6, <2>7, <2>8
  <2>11. /\ d \in DOMAIN body /\ FunctionAt(d) \in DOMAIN body /\ NameAt(d) = a
         /\ WellPlaced(body, a) <=> d \in DeclaredIn(body) /\ IsDict(body, d) /\ IsDict(body, FunctionAt(d))
         /\ Len(d) = 2 /\ d[1] = "tools" /\ <<"tools">> \in DOMAIN body
    BY <2>9, <2>10
  <2> QED
    BY <2>11 DEF d
<1>2. CASE Len(a) = 6
  <2>1. /\ a[1] = "messages" /\ a[3] = "tool_calls" /\ a[4 + 1] = "function" /\ a[4 + 2] = "name"
        /\ Len(a) = 4 + 2 /\ IsDict(body, SubSeq(a, 1, 2))
    BY <1>2 DEF NamePlaces
  <2> DEFINE e == SubSeq(a, 1, 4)
  <2>2. /\ e \in Seq(FieldName) /\ e \in DOMAIN body /\ Len(e) = 4
        /\ \A i \in 1..4 : e[i] = a[i]
        /\ \A l \in 0..4 : SubSeq(e, 1, l) = SubSeq(a, 1, l)
        /\ FunctionAt(e) = SubSeq(a, 1, 4 + 1)
        /\ SubSeq(a, 1, 4 + 1) \in DOMAIN body /\ NameAt(e) = a
    <3>1. PICK k \in Nat : k = 4
      OBVIOUS
    <3>2. Len(a) = k + 2 /\ a[k + 1] = "function" /\ a[k + 2] = "name"
      BY <2>1, <3>1
    <3>3. /\ SubSeq(a, 1, k) \in Seq(FieldName) /\ SubSeq(a, 1, k) \in DOMAIN body
          /\ Len(SubSeq(a, 1, k)) = k
          /\ \A i \in 1..k : SubSeq(a, 1, k)[i] = a[i]
          /\ \A l \in 0..k : SubSeq(SubSeq(a, 1, k), 1, l) = SubSeq(a, 1, l)
          /\ FunctionAt(SubSeq(a, 1, k)) = SubSeq(a, 1, k + 1)
          /\ SubSeq(a, 1, k + 1) \in DOMAIN body
          /\ NameAt(SubSeq(a, 1, k)) = a
      BY <1>0, <3>2, Declaring
    <3> QED
      BY <3>1, <3>3
  <2> DEFINE f == SubSeq(a, 1, 5)
             g == SubSeq(a, 1, 1)
             m == SubSeq(a, 1, 2)
             c == SubSeq(a, 1, 3)
  <2>3. g = <<"messages">>
    <3>1. Len(a) >= 1 /\ "messages" \in FieldName
      BY <1>2, FieldsAreNamed
    <3> QED
      BY <1>0, <2>1, <3>1, FirstKey
  <2>4. WellPlaced(body, a) <=> /\ body[g].kind = "list" /\ body[m].kind = "dict" /\ body[c].kind = "list"
                                /\ body[e].kind = "dict" /\ body[f].kind = "dict"
    <3>1. WellPlaced(body, a) <=> \A n \in 1..5 : body[SubSeq(a, 1, n)].kind
                                                 = <<"list", "dict", "list", "dict", "dict">>[n]
      BY <1>2 DEF WellPlaced
    <3>2. 1..5 = {1, 2, 3, 4, 5}
      OBVIOUS
    <3> QED
      BY <3>1, <3>2
  <2>5. /\ g \in DOMAIN body /\ f \in DOMAIN body /\ FunctionAt(e) = f
        /\ c \in DOMAIN body /\ m \in DOMAIN body
        /\ SubSeq(e, 1, 2) = m /\ SubSeq(e, 1, 3) = c /\ IsDict(body, m)
    BY <1>0, <1>2, <2>1, <2>2
  <2> HIDE DEF e, f, g, m, c
  <2>6. e[1] = "messages" /\ e[3] = "tool_calls"
    BY <2>1, <2>2
  <2>7. e \in DeclaredIn(body) <=> body[g].kind = "list" /\ body[m].kind = "dict" /\ body[c].kind = "list"
    <3>1. IsList(body, <<"messages">>) <=> body[g].kind = "list"
      BY <2>3, <2>5 DEF IsList
    <3>2. IsList(body, c) <=> body[c].kind = "list"
      BY <2>5 DEF IsList
    <3>3. IsDict(body, m) <=> body[m].kind = "dict"
      BY <2>5 DEF IsDict
    <3>4. e \in DeclaredIn(body) <=> /\ e \in DOMAIN body
                                    /\ IsList(body, <<"messages">>)
                                    /\ IsDict(body, SubSeq(e, 1, 2)) /\ IsList(body, SubSeq(e, 1, 3))
      BY <2>2, <2>6, DeclaredAt
    <3> QED
      BY <2>2, <2>5, <3>1, <3>2, <3>3, <3>4
  <2>8. /\ IsDict(body, e) <=> body[e].kind = "dict"
        /\ IsDict(body, FunctionAt(e)) <=> body[f].kind = "dict"
    BY <2>2, <2>5 DEF IsDict
  <2>9. d = e
    BY <1>2 DEF e
  <2> HIDE DEF d
  <2>10. /\ e \in DOMAIN body /\ FunctionAt(e) \in DOMAIN body /\ NameAt(e) = a
         /\ WellPlaced(body, a) <=> e \in DeclaredIn(body) /\ IsDict(body, e) /\ IsDict(body, FunctionAt(e))
         /\ Len(e) = 4 /\ e[1] = "messages" /\ e[3] = "tool_calls"
         /\ <<"messages">> \in DOMAIN body
         /\ IsDict(body, SubSeq(e, 1, 2)) /\ SubSeq(e, 1, 3) \in DOMAIN body
    BY <2>2, <2>3, <2>4, <2>5, <2>6, <2>7, <2>8
  <2>11. /\ d \in DOMAIN body /\ FunctionAt(d) \in DOMAIN body /\ NameAt(d) = a
         /\ WellPlaced(body, a) <=> d \in DeclaredIn(body) /\ IsDict(body, d) /\ IsDict(body, FunctionAt(d))
         /\ Len(d) = 4 /\ d[1] = "messages" /\ d[3] = "tool_calls"
         /\ <<"messages">> \in DOMAIN body
         /\ IsDict(body, SubSeq(d, 1, 2)) /\ SubSeq(d, 1, 3) \in DOMAIN body
    BY <2>9, <2>10
  <2> QED
    BY <2>11 DEF d
<1> QED
  BY <1>1, <1>2 DEF NamePlaces

\* The name of a declaration stands at one of the places of names.
LEMMA DeclaredPlaced ==
  ASSUME NEW body, IsJson(body), IsDict(body, <<>>), NEW d \in DeclaredIn(body),
         IsDict(body, d), IsDict(body, FunctionAt(d)), NameAt(d) \in DOMAIN body
  PROVE  NameAt(d) \in NamePlaces(body) /\ SubSeq(NameAt(d), 1, Len(NameAt(d)) - 2) = d
<1> DEFINE a == NameAt(d)
           f == FunctionAt(d)
<1>1. d \in DOMAIN body /\ d \in Seq(FieldName) /\ Len(d) \in Nat
  <2>1. d \in DOMAIN body
    BY DEF IsDict
  <2> QED
    BY <2>1, Addresses
<1>2. /\ Len(a) = Len(d) + 2 /\ a \in Seq(FieldName)
      /\ SubSeq(a, 1, Len(d)) = d /\ SubSeq(a, 1, Len(d) + 1) = f
      /\ \A i \in 1..Len(d) : a[i] = d[i]
      /\ a[Len(d) + 1] = "function" /\ a[Len(d) + 2] = "name"
  BY <1>1, NameParts
<1>3. /\ \/ Len(d) = 2 /\ d[1] = "tools" /\ IsList(body, <<"tools">>)
         \/ /\ Len(d) = 4 /\ d[1] = "messages" /\ d[3] = "tool_calls"
            /\ IsList(body, <<"messages">>)
            /\ IsDict(body, SubSeq(d, 1, 2)) /\ IsList(body, SubSeq(d, 1, 3))
  BY <1>1, DeclaredAt
<1>4. \A l \in 0..Len(d) : SubSeq(d, 1, l) = SubSeq(a, 1, l)
  BY <1>1, <1>2, Beginning
<1>5. a \in DOMAIN body /\ IsDict(body, d) /\ IsDict(body, f)
  OBVIOUS
<1> HIDE DEF a, f
<1>6. SubSeq(a, 1, 0) = <<>>
  BY SubSeqEmpty
<1>7. Container(body[SubSeq(a, 1, 0)]) /\ Container(body[SubSeq(a, 1, Len(d))])
      /\ Container(body[SubSeq(a, 1, Len(d) + 1)])
  BY <1>2, <1>5, <1>6 DEF IsDict, Container
<1>8. CASE Len(d) = 2
  <2>1. d[1] = "tools" /\ IsList(body, <<"tools">>)
    BY <1>3, <1>8
  <2>2. SubSeq(a, 1, 1) = <<"tools">>
    <3>1. a[1] = "tools" /\ Len(a) >= 1 /\ "tools" \in FieldName
      BY <1>2, <1>8, <2>1, FieldsAreNamed
    <3> QED
      BY <1>2, <3>1, FirstKey
  <2>3. Container(body[SubSeq(a, 1, 1)])
    BY <2>1, <2>2 DEF IsList, Container
  <2>4. Len(a) = 4 /\ a[1] = "tools" /\ a[3] = "function" /\ a[4] = "name"
    BY <1>2, <1>8, <2>1
  <2>5. \A n \in 0..(Len(a) - 1) : Container(body[SubSeq(a, 1, n)])
    <3>1. 0..(Len(a) - 1) = {0, 1, 2, 3}
      BY <2>4
    <3>2. Container(body[SubSeq(a, 1, 2)]) /\ Container(body[SubSeq(a, 1, 3)])
      BY <1>7, <1>8
    <3> QED
      BY <1>7, <2>3, <3>1, <3>2
  <2>6. a \in NamePlaces(body)
    BY <1>5, <2>4, <2>5 DEF NamePlaces
  <2> QED
    BY <1>2, <2>4, <2>6, <1>8 DEF a
<1>9. CASE Len(d) = 4
  <2>1. /\ d[1] = "messages" /\ d[3] = "tool_calls" /\ IsList(body, <<"messages">>)
        /\ IsDict(body, SubSeq(d, 1, 2)) /\ IsList(body, SubSeq(d, 1, 3))
    BY <1>3, <1>9
  <2>2. SubSeq(a, 1, 1) = <<"messages">>
    <3>1. a[1] = "messages" /\ Len(a) >= 1 /\ "messages" \in FieldName
      BY <1>2, <1>9, <2>1, FieldsAreNamed
    <3> QED
      BY <1>2, <3>1, FirstKey
  <2>3. Container(body[SubSeq(a, 1, 1)])
    BY <2>1, <2>2 DEF IsList, Container
  <2>4. /\ Len(a) = 6 /\ a[1] = "messages" /\ a[3] = "tool_calls"
        /\ a[5] = "function" /\ a[6] = "name"
    BY <1>2, <1>9, <2>1
  <2>5. IsDict(body, SubSeq(a, 1, 2)) /\ IsList(body, SubSeq(a, 1, 3))
    <3>1. 2 \in 0..Len(d) /\ 3 \in 0..Len(d)
      BY <1>9
    <3>2. SubSeq(d, 1, 2) = SubSeq(a, 1, 2) /\ SubSeq(d, 1, 3) = SubSeq(a, 1, 3)
      BY <1>4, <3>1
    <3> QED
      BY <2>1, <3>2, Zenon
  <2>6. Container(body[SubSeq(a, 1, 2)]) /\ Container(body[SubSeq(a, 1, 3)])
    BY <2>5 DEF IsDict, IsList, Container
  <2>7. \A n \in 0..(Len(a) - 1) : Container(body[SubSeq(a, 1, n)])
    <3>1. 0..(Len(a) - 1) = {0, 1, 2, 3, 4, 5}
      BY <2>4
    <3>2. Container(body[SubSeq(a, 1, 4)]) /\ Container(body[SubSeq(a, 1, 5)])
      BY <1>7, <1>9
    <3> QED
      BY <1>7, <2>3, <2>6, <3>1, <3>2
  <2>8. a \in NamePlaces(body)
    BY <1>5, <2>4, <2>5, <2>7 DEF NamePlaces
  <2> QED
    BY <1>2, <2>4, <2>8, <1>9 DEF a
<1> QED
  BY <1>3, <1>8, <1>9

\* A body that is not refused as malformed declares well, and by name, at every
\* place where a name stands.
LEMMA SoundPlaced ==
  ASSUME NEW body, IsJson(body), IsDict(body, <<>>), ~MalformedDeclaration(body),
         NEW a \in NamePlaces(body)
  PROVE  WellPlaced(body, a) /\ IsString(body, a)
<1> DEFINE d == SubSeq(a, 1, Len(a) - 2)
<1>1. /\ d \in DOMAIN body /\ FunctionAt(d) \in DOMAIN body /\ NameAt(d) = a
      /\ WellPlaced(body, a) <=> /\ d \in DeclaredIn(body)
                                /\ IsDict(body, d) /\ IsDict(body, FunctionAt(d))
      /\ \/ Len(d) = 2 /\ d[1] = "tools" /\ <<"tools">> \in DOMAIN body
         \/ /\ Len(d) = 4 /\ d[1] = "messages" /\ d[3] = "tool_calls"
            /\ <<"messages">> \in DOMAIN body
            /\ IsDict(body, SubSeq(d, 1, 2)) /\ SubSeq(d, 1, 3) \in DOMAIN body
  BY PlaceDeclared
<1> HIDE DEF d
<1>2. /\ <<"tools">> \in DOMAIN body => IsList(body, <<"tools">>)
      /\ <<"messages">> \in DOMAIN body => IsList(body, <<"messages">>)
      /\ \A e \in DeclaredIn(body) : ~BadEntry(body, e)
      /\ \A m \in Messages(body) :
           Append(m, "tool_calls") \in DOMAIN body => IsList(body, Append(m, "tool_calls"))
  BY DEF MalformedDeclaration, DeclaredIn
<1>3. d \in Seq(FieldName)
  BY <1>1, Addresses
<1>4. d \in DeclaredIn(body)
  <2>1. CASE Len(d) = 2
    BY <1>1, <1>2, <1>3, <2>1, DeclaredAt
  <2>2. CASE Len(d) = 4
    <3>1. /\ d[1] = "messages" /\ d[3] = "tool_calls" /\ IsList(body, <<"messages">>)
          /\ IsDict(body, SubSeq(d, 1, 2)) /\ SubSeq(d, 1, 3) \in DOMAIN body
      BY <1>1, <1>2, <2>2
    <3> DEFINE m == SubSeq(d, 1, 2)
               p == <<"messages">>
    <3>2. 2 \in 0..Len(d) /\ 2 \in 0..(Len(d) - 1) /\ 1 \in 0..2 /\ 1 \in 1..2
      BY <2>2
    <3>3. m \in Seq(FieldName) /\ Len(m) = 2 /\ m[1] = d[1]
      BY <1>3, <3>2, Beginning
    <3>4. SubSeq(d, 1, 2 + 1) = Append(m, d[2 + 1])
      BY <1>3, <3>2, BeginningNext
    <3>5. SubSeq(d, 1, 3) = Append(m, "tool_calls")
      BY <3>1, <3>4
    <3> HIDE DEF m
    <3>6. SubSeq(m, 1, 1) = p
      <4>1. "messages" \in FieldName /\ Len(m) >= 1 /\ m[1] = "messages"
        BY <3>1, <3>3, FieldsAreNamed
      <4> QED
        BY <3>3, <4>1, FirstKey
    <3>7. Len(p) = 1 /\ IsList(body, p)
      BY <3>1, FieldsAreNamed, OneKey
    <3>8. m \in DOMAIN body /\ IsDict(body, m)
      BY <3>1 DEF m, IsDict
    <3> HIDE DEF p
    <3>9. Len(m) = Len(p) + 1 /\ SubSeq(m, 1, Len(p)) = p
      BY <3>3, <3>6, <3>7
    <3>10. m \in Entries(body, p)
      BY <3>7, <3>8, <3>9, EntryIs
    <3>11. m \in Messages(body)
      BY <3>8, <3>10 DEF Messages, p
    <3>12. IsList(body, SubSeq(d, 1, 3))
      BY <1>2, <3>1, <3>5, <3>11
    <3> QED
      BY <1>1, <1>3, <2>2, <3>1, <3>12, DeclaredAt
  <2> QED
    BY <1>1, <2>1, <2>2
<1>5. ~BadEntry(body, d)
  BY <1>2, <1>4
<1>6. IsDict(body, d) /\ IsDict(body, FunctionAt(d)) /\ IsString(body, NameAt(d))
  <2>1. a \in DOMAIN body
    BY DEF NamePlaces
  <2> QED
    BY <1>1, <1>5, <2>1 DEF BadEntry
<1> QED
  BY <1>1, <1>4, <1>6

\* The names _extract_tool_names finds are those that stand at their places.
LEMMA NamesExtracted ==
  ASSUME NEW body, IsJson(body), IsDict(body, <<>>)
  PROVE  ExtractToolNames(body)
           = {body[a].val : a \in {b \in NamePlaces(body) :
                                     /\ WellPlaced(body, b)
                                     /\ IsString(body, b) /\ body[b].val # ""}}
<1> DEFINE Declarations == {d \in DeclaredIn(body) : /\ IsDict(body, d) /\ IsDict(body, FunctionAt(d))
                                                   /\ IsString(body, NameAt(d))}
           Places == {b \in NamePlaces(body) : /\ WellPlaced(body, b)
                                              /\ IsString(body, b) /\ body[b].val # ""}
<1>1. ExtractToolNames(body) = {body[NameAt(d)].val : d \in Declarations} \ {""}
  BY DEF ExtractToolNames, NamesOf, DeclaredIn
<1>2. ASSUME NEW d \in Declarations, body[NameAt(d)].val # ""
      PROVE  NameAt(d) \in Places
  <2>1. NameAt(d) \in DOMAIN body
    BY DEF IsString
  <2>2. NameAt(d) \in NamePlaces(body) /\ SubSeq(NameAt(d), 1, Len(NameAt(d)) - 2) = d
    BY <2>1, DeclaredPlaced
  <2>3. WellPlaced(body, NameAt(d))
    BY <2>2, PlaceDeclared, Zenon
  <2> QED
    BY <1>2, <2>2, <2>3
<1>3. ASSUME NEW b \in Places
      PROVE  \E d \in Declarations : NameAt(d) = b /\ body[NameAt(d)].val # ""
  <2> DEFINE d == SubSeq(b, 1, Len(b) - 2)
  <2>1. /\ NameAt(d) = b
        /\ d \in DeclaredIn(body) /\ IsDict(body, d) /\ IsDict(body, FunctionAt(d))
    BY PlaceDeclared, Zenon
  <2> HIDE DEF d
  <2>2. IsString(body, NameAt(d)) /\ body[NameAt(d)].val # ""
    BY <2>1
  <2>3. d \in Declarations
    BY <2>1, <2>2
  <2> QED
    BY <2>1, <2>2, <2>3
<1> HIDE DEF Declarations, Places
<1>4. {body[NameAt(d)].val : d \in Declarations} \ {""} = {body[a].val : a \in Places}
  BY <1>2, <1>3
<1> QED
  BY <1>1, <1>4 DEF Places

\* What one handling of a chat request decides about the names at their places.
LEMMA ChatJudges ==
  ASSUME NEW b \in ChatBody, Chat(b)
  PROVE  ToolsAreJudged'
<1> DEFINE body == Parsed(b)
           Declares(a) == IsString(body, a) /\ body[a].val # ""
           named == {a \in NamePlaces(body) : WellPlaced(body, a) /\ Declares(a)}
           Decision == /\ chatDecision'.verdict # "DENY" =>
                            \A a \in NamePlaces(body) :
                              /\ IsString(body, a)
                              /\ Declares(a) => NormName[body[a].val] \notin DangerNorms
                       /\ named # {} =>
                            /\ \E a \in named : chatDecision'.tool = body[a].val
                            /\ \A a \in named : Lethality(body[a].val) <= chatDecision'.lethality
<1>1. IsJson(body)
  BY ChatAssumption, ParsedTree
<1>2. chatBody' = b
  BY DEF Chat
<1>3. SUFFICES ASSUME IsDict(body, <<>>)
               PROVE  Decision
  BY <1>2 DEF ToolsAreJudged
<1>4. ExtractToolNames(body) = {body[a].val : a \in named}
  <2>1. named = {a \in NamePlaces(body) : WellPlaced(body, a) /\ IsString(body, a) /\ body[a].val # ""}
    OBVIOUS
  <2> HIDE DEF body
  <2> QED
    BY <1>1, <1>3, <2>1, NamesExtracted
<1>5. PICK answer, verdict :
        /\ verdict = ChatVerdictOf(body, answer)
        /\ \/ AuditNames(body) = {} /\ chatDecision' = [verdict |-> verdict, tool |-> NoTool, lethality |-> 0]
           \/ \E worst \in Worst(AuditNames(body)) :
                chatDecision' = [verdict |-> verdict, tool |-> worst, lethality |-> Lethality(worst)]
  BY Zenon DEF Chat
<1> HIDE DEF body
<1>6. chatDecision'.verdict = verdict
  BY <1>5
<1>7. ASSUME chatDecision'.verdict # "DENY", NEW a \in NamePlaces(body)
      PROVE  /\ IsString(body, a)
             /\ Declares(a) => NormName[body[a].val] \notin DangerNorms
  <2>1. /\ ~MalformedDeclaration(body)
        /\ \A n \in ExtractToolNames(body) : NormName[n] \notin DangerNorms
    BY <1>5, <1>6, <1>7 DEF ChatVerdictOf
  <2>2. WellPlaced(body, a) /\ IsString(body, a)
    BY <1>1, <1>3, <2>1, SoundPlaced
  <2>3. Declares(a) => body[a].val \in ExtractToolNames(body)
    BY <1>4, <2>2
  <2> QED
    BY <2>1, <2>2, <2>3
<1>8. ASSUME named # {}
      PROVE  /\ \E a \in named : chatDecision'.tool = body[a].val
             /\ \A a \in named : Lethality(body[a].val) <= chatDecision'.lethality
  <2>1. ExtractToolNames(body) # {}
    BY <1>4, <1>8
  <2>2. AuditNames(body) = ExtractToolNames(body)
    BY <2>1 DEF AuditNames
  <2>3. PICK worst \in Worst(ExtractToolNames(body)) :
          chatDecision' = [verdict |-> verdict, tool |-> worst, lethality |-> Lethality(worst)]
    BY <1>5, <2>1, <2>2
  <2>4. worst \in ExtractToolNames(body) /\ \A n \in ExtractToolNames(body) : Lethality(n) <= Lethality(worst)
    BY <2>3 DEF Worst
  <2>5. chatDecision'.tool = worst /\ chatDecision'.lethality = Lethality(worst)
    BY <2>3
  <2> HIDE DEF named
  <2> QED
    BY <1>4, <2>4, <2>5
<1> QED
  BY <1>7, <1>8

ChatInv == chatBody \in ChatBody \cup {NoBody} /\ ToolsAreJudged

LEMMA ChatInvStep == ChatInv /\ [ChatNext]_<<policyVars, chatVars>> => ChatInv'
<1> SUFFICES ASSUME ChatInv, [ChatNext]_<<policyVars, chatVars>>
             PROVE  ChatInv'
  OBVIOUS
<1>1. ASSUME NEW b \in ChatBody, Chat(b)
      PROVE  ChatInv'
  <2>1. chatBody' = b
    BY <1>1 DEF Chat
  <2> QED
    BY <1>1, <2>1, ChatJudges DEF ChatInv
<1>2. CASE ChatDone
  BY <1>2 DEF ChatDone, ChatInv, ToolsAreJudged
<1>3. CASE UNCHANGED chatVars
  BY <1>3 DEF ChatInv, ToolsAreJudged, chatVars
<1> QED
  BY <1>1, <1>2, <1>3 DEF ChatNext

\* For any chat bodies and rule files, normal forms and weights: a request that
\* is not refused declares no dangerous tool at any place of a tool or a call,
\* and the record of a request that declares tools names one with the largest
\* weight.
THEOREM ChatToolsAreJudged == ChatSpec => []ToolsAreJudged
<1>1. PolicyMatchInit /\ ChatInit => ChatInv
  BY DEF ChatInit, ChatInv, ToolsAreJudged
<1>2. ChatInv => ToolsAreJudged
  BY DEF ChatInv
<1> QED
  BY <1>1, <1>2, ChatInvStep, PTL DEF ChatSpec

-----------------------------------------------------------------------------
(* The hot reload of the rules, and that of the lethality table            *)

ReloadTyped ==
  /\ reloadPc \in [Worker -> ReloadPhase]
  /\ DOMAIN parsed = Worker
  /\ lastMtime \in usedMtimes
  /\ policyFile.mtime \in usedMtimes
  /\ unchanged \subseteq Worker
  /\ lateEdit \in BOOLEAN

\* Without an edit between a parse and its stamp, who is between them has parsed
\* the file as it is.
LoadsAreCurrent ==
  \A w \in Worker :
    /\ reloadPc[w] \in {"rules", "index", "stamp"} =>
         parsed[w] = policyFile.body /\ policyFile.state = "good"
    /\ reloadPc[w] = "stamp" => indexOf = policyFile.body

\* The stamp is the time of the file only if the rules in force are those of it.
StampIsHonest == lastMtime = policyFile.mtime => indexOf = policyFile.body

ReloadInv ==
  /\ ReloadTyped
  /\ lateEdit \/ (LoadsAreCurrent /\ StampIsHonest /\ EditTakesEffect)

-----------------------------------------------------------------------------
LethPhase == {"import", "idle", "stat", "load", "table", "mtime", "use"}

LethTyped ==
  /\ lethPc \in [LethWorker -> LethPhase]
  /\ DOMAIN statted = LethWorker
  /\ DOMAIN loaded = LethWorker
  /\ lethMtime \in weightMtimes \cup {-1}
  /\ \A w \in LethWorker : lethPc[w] \in {"load", "table", "mtime"} => statted[w] \in weightMtimes
  /\ weightFile.mtime \in weightMtimes
  /\ weightMtimes \subseteq Nat
  /\ undisturbed \subseteq LethWorker
  /\ mixedInstall \in BOOLEAN
  /\ \A v, w \in LethWorker : lethPc[v] = "import" => lethPc[w] = "import"

\* The table to come: in the middle of their loads, threads agree, and what
\* they loaded after a stat of the file as it is, is its content.
InstallsAgree ==
  /\ \A v, w \in Installing : loaded[v] = loaded[w] /\ statted[v] = statted[w]
  /\ \A w \in Installing :
       /\ statted[w] = weightFile.mtime => loaded[w] = weightFile.body
       /\ lethPc[w] = "mtime" => table = loaded[w]

\* The table is the file's, and no load in progress will put another one there.
TableIsCurrent ==
  table = weightFile.body /\ \A v \in Installing : loaded[v] = weightFile.body

TimeIsHonest ==
  \A w \in LethWorker :
    /\ lethPc[w] = "import" => table = weightFile.body
    /\ lethPc[w] # "import" /\ lethMtime = weightFile.mtime => TableIsCurrent

\* A request that met no edit goes on to the file as it is.
UndisturbedOK ==
  \A w \in undisturbed :
    /\ lethPc[w] \in {"load", "table", "mtime"} => statted[w] = weightFile.mtime
    /\ lethPc[w] = "use" /\ weightFile.state # "absent" => TableIsCurrent

LethInv ==
  /\ LethTyped
  /\ mixedInstall \/ (InstallsAgree /\ TimeIsHonest /\ UndisturbedOK)


-----------------------------------------------------------------------------
\* A thread that goes on moves no other thread.
LEMMA Went ==
  ASSUME ReloadTyped, NEW w \in Worker, NEW phase \in ReloadPhase, Goto(w, phase)
  PROVE  /\ reloadPc' \in [Worker -> ReloadPhase]
         /\ reloadPc'[w] = phase
         /\ \A v \in Worker : v # w => reloadPc'[v] = reloadPc[v]
BY DEF ReloadTyped, Goto

LEMMA CheckMtimeKeeps ==
  ASSUME ReloadInv, NEW w \in Worker, CheckMtime(w)
  PROVE  ReloadInv'
<1>1. /\ UNCHANGED <<rulesOf, indexOf, lastMtime, policyFile, usedMtimes, lateEdit, parsed>>
      /\ unchanged' = unchanged \cup {w}
  BY DEF CheckMtime, engineVars, fileVars
<1>2. PICK phase \in {"load", "evaluate"} :
        /\ Goto(w, phase)
        /\ phase = "evaluate" => policyFile.state = "absent" \/ policyFile.mtime = lastMtime
  BY DEF CheckMtime
<1>3. /\ reloadPc' \in [Worker -> ReloadPhase]
      /\ reloadPc'[w] = phase
      /\ \A v \in Worker : v # w => reloadPc'[v] = reloadPc[v]
  BY <1>2, Went DEF ReloadInv, ReloadPhase
<1>4. ReloadTyped'
  BY <1>1, <1>3 DEF ReloadInv, ReloadTyped
<1>5. ASSUME ~lateEdit PROVE (LoadsAreCurrent /\ StampIsHonest /\ EditTakesEffect)'
  <2>1. LoadsAreCurrent /\ StampIsHonest /\ EditTakesEffect
    BY <1>5 DEF ReloadInv
  <2>2. LoadsAreCurrent' /\ StampIsHonest'
    BY <1>1, <1>3, <2>1 DEF LoadsAreCurrent, StampIsHonest
  <2>3. ASSUME NEW v \in unchanged', reloadPc'[v] = "evaluate", policyFile.state = "good"
        PROVE  indexOf = policyFile.body
    <3>1. CASE v = w
      BY <1>2, <1>3, <2>1, <2>3, <3>1 DEF StampIsHonest
    <3>2. CASE v # w
      BY <1>1, <1>3, <2>1, <2>3, <3>2 DEF EditTakesEffect, ReloadInv, ReloadTyped
    <3> QED BY <3>1, <3>2
  <2> QED BY <1>1, <2>2, <2>3 DEF EditTakesEffect
<1> QED BY <1>1, <1>4, <1>5 DEF ReloadInv

LEMMA ParseKeeps ==
  ASSUME ReloadInv, NEW w \in Worker, Parse(w)
  PROVE  ReloadInv'
<1>1. /\ UNCHANGED <<rulesOf, indexOf, lastMtime, policyFile, usedMtimes, lateEdit>>
      /\ unchanged' \subseteq unchanged
      /\ DOMAIN parsed' = Worker
      /\ \A v \in Worker : v # w => parsed'[v] = parsed[v]
  BY DEF Parse, engineVars, fileVars, ReloadInv, ReloadTyped
<1>2. PICK phase \in {"rules", "evaluate"} :
        /\ Goto(w, phase)
        /\ phase = "rules" => policyFile.state = "good" /\ parsed'[w] = policyFile.body
        /\ phase = "evaluate" => w \notin unchanged'
  BY DEF Parse, ReloadInv, ReloadTyped
<1>3. /\ reloadPc' \in [Worker -> ReloadPhase]
      /\ reloadPc'[w] = phase
      /\ \A v \in Worker : v # w => reloadPc'[v] = reloadPc[v]
  BY <1>2, Went DEF ReloadInv, ReloadPhase
<1>4. ReloadTyped'
  BY <1>1, <1>3 DEF ReloadInv, ReloadTyped
<1>5. ASSUME ~lateEdit PROVE (LoadsAreCurrent /\ StampIsHonest /\ EditTakesEffect)'
  <2>1. LoadsAreCurrent /\ StampIsHonest /\ EditTakesEffect /\ unchanged \subseteq Worker
    BY <1>5 DEF ReloadInv, ReloadTyped
  <2>2. LoadsAreCurrent'
    BY <1>1, <1>2, <1>3, <2>1 DEF LoadsAreCurrent
  <2>3. StampIsHonest'
    BY <1>1, <2>1 DEF StampIsHonest
  <2>4. EditTakesEffect'
    BY <1>1, <1>2, <1>3, <2>1 DEF EditTakesEffect
  <2> QED BY <2>2, <2>3, <2>4
<1> QED BY <1>1, <1>4, <1>5 DEF ReloadInv

\* The three assignments of a load, each of what the thread has parsed.
LEMMA InstallKeeps ==
  ASSUME ReloadInv, NEW w \in Worker, SetRules(w) \/ SetIndex(w) \/ SetStamp(w)
  PROVE  ReloadInv'
<1>1. /\ UNCHANGED <<policyFile, usedMtimes, lateEdit, parsed, unchanged>>
      /\ reloadPc[w] \in {"rules", "index", "stamp"}
  BY DEF SetRules, SetIndex, SetStamp, fileVars
<1>2. PICK phase \in {"index", "stamp", "evaluate"} :
        /\ Goto(w, phase)
        /\ phase = "index" => UNCHANGED <<indexOf, lastMtime>>
        /\ phase = "stamp" => indexOf' = parsed[w] /\ lastMtime' = lastMtime
        /\ phase = "evaluate" =>
             reloadPc[w] = "stamp" /\ indexOf' = indexOf /\ lastMtime' \in {lastMtime, policyFile.mtime}
  BY DEF SetRules, SetIndex, SetStamp
<1>3. /\ reloadPc' \in [Worker -> ReloadPhase]
      /\ reloadPc'[w] = phase
      /\ \A v \in Worker : v # w => reloadPc'[v] = reloadPc[v]
  BY <1>2, Went DEF ReloadInv, ReloadPhase
<1>4. ReloadTyped'
  BY <1>1, <1>2, <1>3 DEF ReloadInv, ReloadTyped
<1>5. ASSUME ~lateEdit PROVE (LoadsAreCurrent /\ StampIsHonest /\ EditTakesEffect)'
  <2>1. LoadsAreCurrent /\ StampIsHonest /\ EditTakesEffect /\ unchanged \subseteq Worker
    BY <1>5 DEF ReloadInv, ReloadTyped
  <2>2. parsed[w] = policyFile.body
    BY <1>1, <2>1 DEF LoadsAreCurrent
  <2>3. indexOf' = indexOf \/ indexOf' = policyFile.body
    BY <1>2, <2>2
  <2>4. phase # "index" => indexOf' = policyFile.body
    BY <1>2, <2>1, <2>2 DEF LoadsAreCurrent
  <2>5. LoadsAreCurrent'
    BY <1>1, <1>3, <2>1, <2>2, <2>3, <2>4 DEF LoadsAreCurrent
  <2>6. StampIsHonest'
    BY <1>1, <1>2, <2>1, <2>4 DEF StampIsHonest
  <2>7. EditTakesEffect'
    BY <1>1, <1>3, <2>1, <2>3, <2>4 DEF EditTakesEffect
  <2> QED BY <2>5, <2>6, <2>7
<1> QED BY <1>1, <1>4, <1>5 DEF ReloadInv

LEMMA EvaluateKeeps ==
  ASSUME ReloadInv, NEW w \in Worker, EvaluateByIndex(w)
  PROVE  ReloadInv'
<1>1. /\ UNCHANGED <<rulesOf, indexOf, lastMtime, policyFile, usedMtimes, lateEdit, parsed>>
      /\ unchanged' \subseteq unchanged
      /\ Goto(w, "idle")
  BY DEF EvaluateByIndex, engineVars, fileVars
<1>2. /\ reloadPc' \in [Worker -> ReloadPhase]
      /\ reloadPc'[w] = "idle"
      /\ \A v \in Worker : v # w => reloadPc'[v] = reloadPc[v]
  BY <1>1, Went DEF ReloadInv, ReloadPhase
<1>3. ReloadTyped'
  BY <1>1, <1>2 DEF ReloadInv, ReloadTyped
<1>4. ASSUME ~lateEdit PROVE (LoadsAreCurrent /\ StampIsHonest /\ EditTakesEffect)'
  <2>1. LoadsAreCurrent /\ StampIsHonest /\ EditTakesEffect /\ unchanged \subseteq Worker
    BY <1>4 DEF ReloadInv, ReloadTyped
  <2> QED BY <1>1, <1>2, <2>1 DEF LoadsAreCurrent, StampIsHonest, EditTakesEffect
<1> QED BY <1>1, <1>3, <1>4 DEF ReloadInv

\* An edit gives the file a time that no stamp has.
LEMMA EditKeeps ==
  ASSUME ReloadInv, Edit
  PROVE  ReloadInv'
<1>1. /\ unchanged' = {}
      /\ lateEdit' = (lateEdit \/ Loading # {})
      /\ UNCHANGED <<indexOf, lastMtime, reloadPc, parsed>>
  BY DEF Edit, engineVars
<1>2. /\ usedMtimes' = usedMtimes \cup {policyFile'.mtime}
      /\ policyFile'.mtime \notin usedMtimes
  BY DEF Edit
<1>3. lateEdit' \in BOOLEAN
  BY <1>1
<1>4. ReloadTyped'
  BY <1>1, <1>2, <1>3 DEF ReloadInv, ReloadTyped
<1>5. ASSUME ~lateEdit' PROVE (LoadsAreCurrent /\ StampIsHonest /\ EditTakesEffect)'
  <2>1. \A w \in Worker : reloadPc[w] \notin {"rules", "index", "stamp"}
    BY <1>1, <1>5 DEF Loading
  <2>2. lastMtime # policyFile'.mtime
    BY <1>2 DEF ReloadInv, ReloadTyped
  <2> QED BY <1>1, <2>1, <2>2 DEF LoadsAreCurrent, StampIsHonest, EditTakesEffect
<1> QED BY <1>4, <1>5 DEF ReloadInv

\* Loads that run to their stamp without an edit are current, and the stamp never
\* claims a file whose rules are not in force.
THEOREM ReloadInvariant == PolicyReloadSpec => []ReloadInv
<1>1. PolicyReloadInit => ReloadInv
  <2> SUFFICES ASSUME PolicyReloadInit PROVE ReloadInv
    OBVIOUS
  <2>1. /\ policyFile = [body |-> 0, mtime |-> 0, state |-> "good"]
        /\ indexOf = 0 /\ lastMtime = 0 /\ usedMtimes = {0} /\ unchanged = {}
        /\ reloadPc = [w \in Worker |-> "idle"]
        /\ parsed = [w \in Worker |-> 0]
        /\ lateEdit = FALSE
    BY DEF PolicyReloadInit
  <2>2. reloadPc \in [Worker -> ReloadPhase] /\ DOMAIN parsed = Worker
    BY <2>1 DEF ReloadPhase
  <2>3. ReloadTyped
    BY <2>1, <2>2 DEF ReloadTyped
  <2>4. LoadsAreCurrent /\ StampIsHonest /\ EditTakesEffect
    BY <2>1 DEF LoadsAreCurrent, StampIsHonest, EditTakesEffect
  <2> QED BY <2>3, <2>4 DEF ReloadInv
<1>2. ReloadInv /\ [PolicyReloadNext]_policyReloadVars => ReloadInv'
  <2>1. ReloadInv /\ UNCHANGED policyReloadVars => ReloadInv'
    BY DEF policyReloadVars, ReloadInv, ReloadTyped, LoadsAreCurrent, StampIsHonest,
       EditTakesEffect
  <2> QED BY <2>1, CheckMtimeKeeps, ParseKeeps, InstallKeeps, EvaluateKeeps, EditKeeps
      DEF PolicyReloadNext, ReloadStep
<1> QED BY <1>1, <1>2, PTL DEF PolicyReloadSpec

\* An edit takes effect without a restart, whatever the threads that reload at
\* once do, as long as no edit falls between a parse and its stamp.
THEOREM ReloadTakesEffect == PolicyReloadSpec => []QuietEditTakesEffect
<1>1. ReloadInv => QuietEditTakesEffect
  BY DEF ReloadInv, QuietEditTakesEffect
<1> QED BY <1>1, ReloadInvariant, PTL

-----------------------------------------------------------------------------
\* A thread that goes on moves no other thread.
LEMMA LethWent ==
  ASSUME LethTyped, NEW w \in LethWorker, lethPc[w] # "import",
         NEW phase \in LethPhase \ {"import"}, LethGoto(w, phase)
  PROVE  /\ lethPc' \in [LethWorker -> LethPhase]
         /\ lethPc'[w] = phase
         /\ \A v \in LethWorker : v # w => lethPc'[v] = lethPc[v]
         /\ \A v \in LethWorker : lethPc[v] # "import" /\ lethPc'[v] # "import"
<1>1. \A v \in LethWorker : lethPc[v] # "import"
  BY DEF LethTyped
<1>2. /\ lethPc' \in [LethWorker -> LethPhase]
      /\ lethPc'[w] = phase
      /\ \A v \in LethWorker : v # w => lethPc'[v] = lethPc[v]
  BY DEF LethTyped, LethGoto
<1> QED BY <1>1, <1>2

\* The parts of the invariant that hold while loads do not mix.
LEMMA Unmixed ==
  ASSUME LethInv, ~mixedInstall
  PROVE  /\ InstallsAgree /\ TimeIsHonest /\ UndisturbedOK
         /\ undisturbed \subseteq LethWorker
BY DEF LethInv, LethTyped

LEMMA ImportKeeps ==
  ASSUME LethInv, Import
  PROVE  LethInv'
<1>1. /\ \A w \in LethWorker : lethPc[w] = "import"
      /\ lethMtime' \in {-1, weightFile.mtime}
      /\ lethPc' = [w \in LethWorker |-> "idle"]
      /\ UNCHANGED <<table, weightFile, weightMtimes, statted, loaded, undisturbed, mixedInstall>>
  BY DEF Import, weightVars
<1>2. LethTyped'
  <2>1. lethPc' \in [LethWorker -> LethPhase]
    BY <1>1 DEF LethPhase
  <2> QED BY <1>1, <2>1 DEF LethInv, LethTyped
<1>3. ASSUME ~mixedInstall PROVE (InstallsAgree /\ TimeIsHonest /\ UndisturbedOK)'
  <2>1. Installing' = {}
    BY <1>1 DEF Installing
  <2>2. InstallsAgree'
    BY <2>1 DEF InstallsAgree
  <2>3. TimeIsHonest'
    BY <1>1, <1>3, <2>1, Unmixed DEF TimeIsHonest, TableIsCurrent
  <2>4. UndisturbedOK'
    BY <1>1, <1>3, Unmixed DEF UndisturbedOK
  <2> QED BY <2>2, <2>3, <2>4
<1> QED BY <1>1, <1>2, <1>3 DEF LethInv

LEMMA CheckWeightsKeeps ==
  ASSUME LethInv, NEW w \in LethWorker, CheckWeights(w)
  PROVE  LethInv'
<1>1. /\ UNCHANGED <<table, lethMtime, weightFile, weightMtimes, statted, loaded, mixedInstall>>
      /\ undisturbed' = undisturbed \cup {w}
      /\ lethPc[w] = "idle"
  BY DEF CheckWeights, tableVars, weightVars
<1>2. PICK phase \in {"stat", "use"} :
        /\ LethGoto(w, phase)
        /\ phase = "use" => weightFile.state = "absent" \/ weightFile.mtime = lethMtime
  BY DEF CheckWeights
<1>3. /\ lethPc' \in [LethWorker -> LethPhase]
      /\ lethPc'[w] = phase
      /\ \A v \in LethWorker : v # w => lethPc'[v] = lethPc[v]
      /\ \A v \in LethWorker : lethPc[v] # "import" /\ lethPc'[v] # "import"
  BY <1>1, <1>2, LethWent DEF LethInv, LethPhase
<1>4. LethTyped'
  BY <1>1, <1>3 DEF LethInv, LethTyped
<1>5. ASSUME ~mixedInstall PROVE (InstallsAgree /\ TimeIsHonest /\ UndisturbedOK)'
  <2>1. Installing' = Installing
    BY <1>1, <1>3 DEF Installing
  <2>2. InstallsAgree'
    BY <1>1, <1>3, <1>5, <2>1, Unmixed DEF InstallsAgree, Installing
  <2>3. TableIsCurrent' <=> TableIsCurrent
    BY <1>1, <2>1 DEF TableIsCurrent
  <2>4. TimeIsHonest'
    BY <1>1, <1>3, <1>5, <2>3, Unmixed DEF TimeIsHonest
  <2>5. UndisturbedOK'
    BY <1>1, <1>2, <1>3, <1>5, <2>3, Unmixed DEF UndisturbedOK, TimeIsHonest
  <2> QED BY <2>2, <2>4, <2>5
<1> QED BY <1>1, <1>4, <1>5 DEF LethInv

\* A stat, or a load given up: no table and no time is touched.
LEMMA StatWeightsKeeps ==
  ASSUME LethInv, NEW w \in LethWorker, StatWeights(w)
  PROVE  LethInv'
<1>1. /\ UNCHANGED <<table, lethMtime, weightFile, weightMtimes, loaded, mixedInstall>>
      /\ undisturbed' \subseteq undisturbed
      /\ lethPc[w] = "stat"
      /\ DOMAIN statted' = LethWorker
      /\ \A v \in LethWorker : v # w => statted'[v] = statted[v]
  BY DEF StatWeights, KeepTable, tableVars, weightVars, LethInv, LethTyped
<1>2. PICK phase \in {"load", "use"} :
        /\ LethGoto(w, phase)
        /\ phase = "load" => statted'[w] = weightFile.mtime
        /\ phase = "use" => w \notin undisturbed'
  BY DEF StatWeights, KeepTable, LethInv, LethTyped
<1>3. /\ lethPc' \in [LethWorker -> LethPhase]
      /\ lethPc'[w] = phase
      /\ \A v \in LethWorker : v # w => lethPc'[v] = lethPc[v]
      /\ \A v \in LethWorker : lethPc[v] # "import" /\ lethPc'[v] # "import"
  BY <1>1, <1>2, LethWent DEF LethInv, LethPhase
<1>4. LethTyped'
  BY <1>1, <1>2, <1>3 DEF LethInv, LethTyped
<1>5. ASSUME ~mixedInstall PROVE (InstallsAgree /\ TimeIsHonest /\ UndisturbedOK)'
  <2>1. Installing' = Installing /\ w \notin Installing /\ Installing \subseteq LethWorker
    BY <1>1, <1>3 DEF Installing
  <2>2. InstallsAgree'
    BY <1>1, <1>3, <1>5, <2>1, Unmixed DEF InstallsAgree
  <2>3. TableIsCurrent' <=> TableIsCurrent
    BY <1>1, <2>1 DEF TableIsCurrent
  <2>4. TimeIsHonest'
    BY <1>1, <1>3, <1>5, <2>3, Unmixed DEF TimeIsHonest
  <2>5. UndisturbedOK'
    BY <1>1, <1>2, <1>3, <1>5, <2>3, Unmixed DEF UndisturbedOK
  <2> QED BY <2>2, <2>4, <2>5
<1> QED BY <1>1, <1>4, <1>5 DEF LethInv

\* A load that succeeds agrees with those in progress, or mixes with them.
LEMMA LoadWeightsKeeps ==
  ASSUME LethInv, NEW w \in LethWorker, LoadWeights(w)
  PROVE  LethInv'
<1>1. /\ UNCHANGED <<table, lethMtime, weightFile, weightMtimes, statted>>
      /\ undisturbed' \subseteq undisturbed
      /\ lethPc[w] = "load"
      /\ DOMAIN loaded' = LethWorker
      /\ \A v \in LethWorker : v # w => loaded'[v] = loaded[v]
      /\ mixedInstall' \in BOOLEAN
  BY DEF LoadWeights, KeepTable, tableVars, weightVars, LethInv, LethTyped
<1>2. PICK phase \in {"table", "use"} :
        /\ LethGoto(w, phase)
        /\ phase = "table" =>
             /\ loaded'[w] = weightFile.body
             /\ mixedInstall' = (mixedInstall \/ \E v \in Installing :
                                   loaded[v] # weightFile.body \/ statted[v] # statted[w])
        /\ phase = "use" => w \notin undisturbed' /\ mixedInstall' = mixedInstall
  BY DEF LoadWeights, KeepTable, LethInv, LethTyped
<1>3. /\ lethPc' \in [LethWorker -> LethPhase]
      /\ lethPc'[w] = phase
      /\ \A v \in LethWorker : v # w => lethPc'[v] = lethPc[v]
      /\ \A v \in LethWorker : lethPc[v] # "import" /\ lethPc'[v] # "import"
  BY <1>1, <1>2, LethWent DEF LethInv, LethPhase
<1>4. LethTyped'
  BY <1>1, <1>3 DEF LethInv, LethTyped
<1>5. ASSUME ~mixedInstall' PROVE (InstallsAgree /\ TimeIsHonest /\ UndisturbedOK)'
  <2>1. /\ Installing' = IF phase = "table" THEN Installing \cup {w} ELSE Installing
        /\ w \notin Installing /\ Installing \subseteq LethWorker
    BY <1>1, <1>3 DEF Installing
  <2>2. /\ ~mixedInstall
        /\ phase = "table" => \A v \in Installing :
             loaded[v] = weightFile.body /\ statted[v] = statted[w]
    <3>1. CASE phase = "table"
      BY <1>2, <1>5, <3>1
    <3>2. CASE phase = "use"
      BY <1>2, <1>5, <3>2
    <3> QED BY <3>1, <3>2
  <2>3. InstallsAgree /\ TimeIsHonest /\ UndisturbedOK /\ undisturbed \subseteq LethWorker
    BY <2>2, Unmixed
  <2>4. InstallsAgree'
    <3>1. CASE phase = "table"
      BY <1>1, <1>2, <1>3, <2>1, <2>2, <2>3, <3>1 DEF InstallsAgree
    <3>2. CASE phase = "use"
      BY <1>1, <1>2, <1>3, <2>1, <2>3, <3>2 DEF InstallsAgree
    <3> QED BY <3>1, <3>2
  <2>5. TableIsCurrent => TableIsCurrent'
    BY <1>1, <1>2, <2>1 DEF TableIsCurrent
  <2>6. TimeIsHonest'
    BY <1>1, <1>3, <2>3, <2>5 DEF TimeIsHonest
  <2>7. UndisturbedOK'
    BY <1>1, <1>2, <1>3, <2>3, <2>5 DEF UndisturbedOK
  <2> QED BY <2>4, <2>6, <2>7
<1> QED BY <1>4, <1>5 DEF LethInv

LEMMA SetTableKeeps ==
  ASSUME LethInv, NEW w \in LethWorker, SetTable(w)
  PROVE  LethInv'
<1>1. /\ UNCHANGED <<lethMtime, weightFile, weightMtimes, statted, loaded, undisturbed, mixedInstall>>
      /\ lethPc[w] = "table" /\ table' = loaded[w] /\ LethGoto(w, "mtime")
  BY DEF SetTable, weightVars
<1>2. /\ lethPc' \in [LethWorker -> LethPhase]
      /\ lethPc'[w] = "mtime"
      /\ \A v \in LethWorker : v # w => lethPc'[v] = lethPc[v]
      /\ \A v \in LethWorker : lethPc[v] # "import" /\ lethPc'[v] # "import"
  BY <1>1, LethWent DEF LethInv, LethPhase
<1>3. LethTyped'
  BY <1>1, <1>2 DEF LethInv, LethTyped
<1>4. ASSUME ~mixedInstall PROVE (InstallsAgree /\ TimeIsHonest /\ UndisturbedOK)'
  <2>1. Installing' = Installing /\ w \in Installing
    BY <1>1, <1>2 DEF Installing
  <2>2. InstallsAgree'
    BY <1>1, <1>4, <2>1, Unmixed DEF InstallsAgree
  <2>3. TableIsCurrent => TableIsCurrent'
    BY <1>1, <2>1 DEF TableIsCurrent
  <2>4. TimeIsHonest'
    BY <1>1, <1>2, <1>4, <2>3, Unmixed DEF TimeIsHonest
  <2>5. UndisturbedOK'
    BY <1>1, <1>2, <1>4, <2>3, Unmixed DEF UndisturbedOK
  <2> QED BY <2>2, <2>4, <2>5
<1> QED BY <1>1, <1>3, <1>4 DEF LethInv

\* The time that goes with the table is the one its load began with.
LEMMA SetMtimeKeeps ==
  ASSUME LethInv, NEW w \in LethWorker, SetMtime(w)
  PROVE  LethInv'
<1>1. /\ UNCHANGED <<table, weightFile, weightMtimes, statted, loaded, undisturbed, mixedInstall>>
      /\ lethPc[w] = "mtime" /\ lethMtime' = statted[w] /\ LethGoto(w, "use")
  BY DEF SetMtime, weightVars
<1>2. /\ lethPc' \in [LethWorker -> LethPhase]
      /\ lethPc'[w] = "use"
      /\ \A v \in LethWorker : v # w => lethPc'[v] = lethPc[v]
      /\ \A v \in LethWorker : lethPc[v] # "import" /\ lethPc'[v] # "import"
  BY <1>1, LethWent DEF LethInv, LethPhase
<1>3. LethTyped'
  BY <1>1, <1>2 DEF LethInv, LethTyped
<1>4. ASSUME ~mixedInstall PROVE (InstallsAgree /\ TimeIsHonest /\ UndisturbedOK)'
  <2>1. Installing' = Installing \ {w} /\ w \in Installing /\ Installing \subseteq LethWorker
    BY <1>1, <1>2 DEF Installing
  <2>2. InstallsAgree /\ TimeIsHonest /\ UndisturbedOK /\ undisturbed \subseteq LethWorker
    BY <1>4, Unmixed
  <2>3. InstallsAgree'
    BY <1>1, <1>2, <2>1, <2>2 DEF InstallsAgree
  <2>4. TableIsCurrent => TableIsCurrent'
    BY <1>1, <2>1 DEF TableIsCurrent
  <2>5. statted[w] = weightFile.mtime => TableIsCurrent
    BY <1>1, <2>1, <2>2 DEF InstallsAgree, TableIsCurrent
  <2>6. TimeIsHonest'
    BY <1>1, <1>2, <2>4, <2>5 DEF TimeIsHonest
  <2>7. UndisturbedOK'
    <3>1. w \in undisturbed => statted[w] = weightFile.mtime
      BY <1>1, <2>2 DEF UndisturbedOK
    <3> QED BY <1>1, <1>2, <2>2, <2>4, <2>5, <3>1 DEF UndisturbedOK
  <2> QED BY <2>3, <2>6, <2>7
<1> QED BY <1>1, <1>3, <1>4 DEF LethInv

LEMMA LookUpKeeps ==
  ASSUME LethInv, NEW w \in LethWorker, LookUp(w)
  PROVE  LethInv'
<1>1. /\ UNCHANGED <<table, lethMtime, weightFile, weightMtimes, statted, loaded, mixedInstall>>
      /\ undisturbed' \subseteq undisturbed
      /\ lethPc[w] = "use" /\ LethGoto(w, "idle")
  BY DEF LookUp, tableVars, weightVars
<1>2. /\ lethPc' \in [LethWorker -> LethPhase]
      /\ lethPc'[w] = "idle"
      /\ \A v \in LethWorker : v # w => lethPc'[v] = lethPc[v]
      /\ \A v \in LethWorker : lethPc[v] # "import" /\ lethPc'[v] # "import"
  BY <1>1, LethWent DEF LethInv, LethPhase
<1>3. LethTyped'
  BY <1>1, <1>2 DEF LethInv, LethTyped
<1>4. ASSUME ~mixedInstall PROVE (InstallsAgree /\ TimeIsHonest /\ UndisturbedOK)'
  <2>1. Installing' = Installing /\ w \notin Installing /\ Installing \subseteq LethWorker
    BY <1>1, <1>2 DEF Installing
  <2>2. InstallsAgree'
    BY <1>1, <1>2, <1>4, <2>1, Unmixed DEF InstallsAgree
  <2>3. TableIsCurrent' <=> TableIsCurrent
    BY <1>1, <2>1 DEF TableIsCurrent
  <2>4. TimeIsHonest'
    BY <1>1, <1>2, <1>4, <2>3, Unmixed DEF TimeIsHonest
  <2>5. UndisturbedOK'
    BY <1>1, <1>2, <1>4, <2>3, Unmixed DEF UndisturbedOK
  <2> QED BY <2>2, <2>4, <2>5
<1> QED BY <1>1, <1>3, <1>4 DEF LethInv

\* An edit gives the file a time that nobody has taken: the loads in progress go
\* on with the old content and the old time.
LEMMA EditWeightsKeeps ==
  ASSUME LethInv, EditWeights
  PROVE  LethInv'
<1>1. /\ undisturbed' = {}
      /\ mixedInstall' = (mixedInstall \/ \E w \in LethWorker : lethPc[w] = "import")
      /\ UNCHANGED <<table, lethMtime, lethPc, statted, loaded>>
  BY DEF EditWeights, tableVars
<1>2. /\ weightMtimes' = weightMtimes \cup {weightFile'.mtime}
      /\ weightFile'.mtime \notin weightMtimes
      /\ weightFile'.mtime \in Nat
  BY LethalityAssumption DEF EditWeights
<1>3. LethTyped'
  <2>1. mixedInstall' \in BOOLEAN
    BY <1>1
  <2> QED BY <1>1, <1>2, <2>1 DEF LethInv, LethTyped
<1>4. ASSUME ~mixedInstall' PROVE (InstallsAgree /\ TimeIsHonest /\ UndisturbedOK)'
  <2>1. ~mixedInstall /\ \A w \in LethWorker : lethPc[w] # "import"
    BY <1>1, <1>4
  <2>2. Installing' = Installing
    BY <1>1 DEF Installing
  <2>3. \A w \in Installing : statted[w] # weightFile'.mtime
    BY <1>2 DEF Installing, LethInv, LethTyped
  <2>4. lethMtime # weightFile'.mtime
    BY <1>2 DEF LethInv, LethTyped
  <2>5. InstallsAgree'
    BY <1>1, <2>1, <2>2, <2>3, Unmixed DEF InstallsAgree
  <2>6. TimeIsHonest' /\ UndisturbedOK'
    BY <1>1, <2>1, <2>4 DEF TimeIsHonest, UndisturbedOK
  <2> QED BY <2>5, <2>6
<1> QED BY <1>3, <1>4 DEF LethInv

\* The time kept with the table never claims a file whose weights are not there,
\* or about to be replaced by those of a load that began before the edit.
THEOREM LethInvariant == LethSpec => []LethInv
<1>1. LethInit => LethInv
  <2> SUFFICES ASSUME LethInit PROVE LethInv
    OBVIOUS
  <2>1. /\ weightFile = [body |-> 0, mtime |-> 0, state |-> "good"]
        /\ table = 0 /\ lethMtime = -1 /\ weightMtimes = {0} /\ undisturbed = {}
        /\ lethPc = [w \in LethWorker |-> "import"]
        /\ statted = [w \in LethWorker |-> 0] /\ loaded = [w \in LethWorker |-> 0]
        /\ mixedInstall = FALSE
    BY DEF LethInit
  <2>2. lethPc \in [LethWorker -> LethPhase]
    BY <2>1 DEF LethPhase
  <2>3. /\ lethMtime \in weightMtimes \cup {-1} /\ weightFile.mtime \in weightMtimes
        /\ weightMtimes \subseteq Nat /\ undisturbed \subseteq LethWorker
        /\ DOMAIN statted = LethWorker /\ DOMAIN loaded = LethWorker
        /\ \A w \in LethWorker : lethPc[w] = "import"
    BY <2>1
  <2>4. LethTyped
    BY <2>1, <2>2, <2>3 DEF LethTyped
  <2>5. InstallsAgree /\ TimeIsHonest /\ UndisturbedOK
    BY <2>1 DEF InstallsAgree, TimeIsHonest, UndisturbedOK, Installing
  <2> QED BY <2>4, <2>5 DEF LethInv
<1>2. LethInv /\ [LethNext]_lethVars => LethInv'
  <2>1. LethInv /\ UNCHANGED lethVars => LethInv'
    BY DEF lethVars, tableVars, weightVars, LethInv, LethTyped, InstallsAgree, TimeIsHonest,
       UndisturbedOK, TableIsCurrent, Installing
  <2> QED BY <2>1, ImportKeeps, CheckWeightsKeeps, StatWeightsKeeps, LoadWeightsKeeps,
             SetTableKeeps, SetMtimeKeeps, LookUpKeeps, EditWeightsKeeps
      DEF LethNext, LethStep
<1> QED BY <1>1, <1>2, PTL DEF LethSpec

\* No edit of the weights is lost to a load in progress, however many threads
\* reload at once, as long as loads of different contents do not overlap.
THEOREM LethWeightsCatchUp == LethSpec => []WeightsCatchUp
<1>1. LethInv => WeightsCatchUp
  BY DEF LethInv, WeightsCatchUp, UndisturbedOK, TableIsCurrent
<1> QED BY <1>1, LethInvariant, PTL
=============================================================================
