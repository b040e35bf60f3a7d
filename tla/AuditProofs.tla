---------------------------- MODULE AuditProofs ----------------------------
(***************************************************************************)
(* Proofs about SemanticHook and the Observer it writes to, for any number *)
(* of requests and agents, any size of the table and of the windows and    *)
(* any number of database errors: the trail of a decision that the table   *)
(* keeps names the answers of the judge, however recording, auditing,      *)
(* trimming, errors and commits interleave.                                *)
(***************************************************************************)
EXTENDS SemanticHook, FiniteSetTheorems, SequenceTheorems, TLAPS

Step == [kind : {"base", "cut"} \cup EventKind, says : SUBSET EventKind]
MetaRow == [id : MetaId, cot : Seq(Step)]

HookTyped ==
  /\ hookPc \in [MetaId -> {"arrive", "record", "audits", "forward", "end"}]
  /\ audit \in [MetaId -> [AuditKind -> {"no", "start", "judge", "done"}]]
  /\ owed \in [MetaId -> SUBSET EventKind]
  /\ failed \in [MetaId -> SUBSET EventKind]
  /\ masked \in [MetaId -> SUBSET EventKind]
  /\ inserted \in Seq(MetaId) /\ recorded \in SUBSET MetaId

\* A handler records its decision once, and no task of it runs before it is past
\* that point: so no answer can come for a row still to be written.
InsertedOnce == \A i, j \in DOMAIN inserted : inserted[i] = inserted[j] => i = j
InsertedIsPast == \A i \in DOMAIN inserted : hookPc[inserted[i]] \notin {"arrive", "record"}
RecordedIsInserted == \A d \in recorded : \E i \in DOMAIN inserted : inserted[i] = d
NothingOwedYet ==
  \A d \in MetaId : hookPc[d] \in {"arrive", "record", "audits"} =>
    owed[d] = {} /\ \A k \in AuditKind : audit[d][k] = "no"

\* Both tables, the one the connection sees and the one last committed, are as
\* follows for the insertions I, the recorded decisions R, and the kinds of
\* steps that are owed (O), failed (F) and masked (M).
Kept(I, R, d) == d \in R /\ \E i \in DOMAIN I : I[i] = d /\ Len(I) - i < MaxMetaRows

\* Rows are in the order of their insertion, none twice: fewer rows than
\* insertions come after one, so that trimming cannot reach a row that is kept.
Placed(T, I, R) ==
  /\ \A r \in DOMAIN T : \E i \in DOMAIN I : I[i] = T[r].id /\ Len(T) - r <= Len(I) - i
  /\ \A d \in MetaId : Kept(I, R, d) => \E r \in DOMAIN T : T[r].id = d
  /\ \A r, s \in DOMAIN T : T[r].id = T[s].id => r = s

Once(cot) == \A j, k \in DOMAIN cot : cot[j].kind = cot[k].kind => j = k

Tells(T, I, R, O, F, M) ==
  \A r \in DOMAIN T :
    /\ Once(T[r].cot) /\ KindsIn(T[r].cot) \subseteq O[T[r].id]
    /\ Kept(I, R, T[r].id) => O[T[r].id] \subseteq KindsIn(T[r].cot) \cup F[T[r].id] \cup M[T[r].id]

Table(T, I, R, O, F, M) == T \in Seq(MetaRow) /\ Placed(T, I, R) /\ Tells(T, I, R, O, F, M)

SeenTable == Table(meta, inserted, recorded, owed, failed, masked)
SavedTable == Table(metaSaved, inserted, recorded, owed, failed, masked)

HookInv ==
  /\ HookTyped
  /\ InsertedOnce /\ InsertedIsPast /\ RecordedIsInserted /\ NothingOwedYet
  /\ SeenTable /\ SavedTable

-----------------------------------------------------------------------------
\* append_drift and append_semantic: whatever the trail was, cut or not, the
\* new kind is in it once and no other kind is lost.
LEMMA AppendedTells ==
  ASSUME NEW cot \in Seq(Step), Once(cot),
         NEW step \in Step, step.kind \in EventKind, ~HasStep(cot, step.kind)
  PROVE  /\ Appended(cot, step) \in Seq(Step) /\ Once(Appended(cot, step))
         /\ KindsIn(Appended(cot, step)) = KindsIn(cot) \cup {step.kind}
<1>1. step.kind \notin {"base", "cut"}
  BY DEF EventKind
<1>2. CASE Len(cot) = 1 /\ cot[1].kind = "cut"
  <2> DEFINE new == <<step>>
  <2>1. Appended(cot, step) = new
    BY <1>2 DEF Appended
  <2>2. new \in Seq(Step) /\ DOMAIN new = {1} /\ new[1] = step /\ DOMAIN cot = {1}
    BY <1>2
  <2> HIDE DEF new
  <2>3. KindsIn(new) = {step.kind}
    BY <1>1, <2>2 DEF KindsIn
  <2>4. KindsIn(cot) = {}
    BY <1>2, <2>2 DEF KindsIn
  <2>5. Once(new)
    BY <2>2 DEF Once
  <2> QED
    BY <2>1, <2>2, <2>3, <2>4, <2>5
<1>3. CASE ~(Len(cot) = 1 /\ cot[1].kind = "cut")
  <2> DEFINE new == Append(cot, step)
  <2>1. Appended(cot, step) = new
    BY <1>3 DEF Appended
  <2>2. /\ new \in Seq(Step) /\ DOMAIN new = 1 .. Len(cot) + 1 /\ Len(cot) \in Nat
        /\ DOMAIN cot = 1 .. Len(cot)
        /\ new[Len(cot) + 1] = step
        /\ \A i \in DOMAIN cot : i \in 1 .. Len(cot) /\ new[i] = cot[i]
    OBVIOUS
  <2> HIDE DEF new
  <2>3. \A i \in DOMAIN new : i = Len(cot) + 1 \/ (i \in DOMAIN cot /\ new[i] = cot[i])
    BY <2>2
  <2>4. Len(cot) + 1 \in DOMAIN new /\ DOMAIN cot \subseteq DOMAIN new
    BY <2>2
  <2>5. \A i \in DOMAIN cot : cot[i].kind # step.kind
    BY DEF HasStep
  <2>6. KindsIn(new) = KindsIn(cot) \cup {step.kind}
    <3>1. KindsIn(new) \subseteq KindsIn(cot) \cup {step.kind}
      BY <2>2, <2>3 DEF KindsIn
    <3>2. KindsIn(cot) \subseteq KindsIn(new)
      BY <2>2, <2>4 DEF KindsIn
    <3>3. step.kind \in KindsIn(new)
      BY <1>1, <2>2, <2>4 DEF KindsIn
    <3> QED
      BY <3>1, <3>2, <3>3
  <2>7. Once(new)
    <3> SUFFICES ASSUME NEW j \in DOMAIN new, NEW k \in DOMAIN new, new[j].kind = new[k].kind
                 PROVE  j = k
      BY DEF Once
    <3>1. CASE j \in DOMAIN cot /\ k \in DOMAIN cot
      BY <2>2, <3>1 DEF Once
    <3>2. CASE ~(j \in DOMAIN cot /\ k \in DOMAIN cot)
      BY <2>2, <2>3, <2>5, <3>2
    <3> QED
      BY <3>1, <3>2
  <2> QED
    BY <2>1, <2>2, <2>6, <2>7
<1> QED
  BY <1>2, <1>3

-----------------------------------------------------------------------------
\* The last n rows of a list.
LEMMA LastRowsOf ==
  ASSUME NEW S, NEW rows \in Seq(S), NEW n \in Nat \ {0}
  PROVE  /\ LastRows(rows, n) \in Seq(S)
         /\ Len(LastRows(rows, n)) = IF Len(rows) > n THEN n ELSE Len(rows)
         /\ \A i \in 1 .. Len(LastRows(rows, n)) :
              LastRows(rows, n)[i] = rows[Len(rows) - Len(LastRows(rows, n)) + i]
<1> DEFINE first == IF Len(rows) > n THEN Len(rows) - n + 1 ELSE 1
           last == SubSeq(rows, first, Len(rows))
<1>1. LastRows(rows, n) = last
  BY DEF LastRows
<1>2. Len(rows) \in Nat /\ first \in Int /\ 1 <= first /\ first <= Len(rows) + 1
  OBVIOUS
<1>3. Len(rows) - first + 1 = IF Len(rows) > n THEN n ELSE Len(rows)
  OBVIOUS
<1> HIDE DEF first
<1>4. \A i \in first .. Len(rows) : rows[i] \in S
  BY <1>2
<1>5. /\ last \in Seq(S)
      /\ Len(last) = IF first <= Len(rows) THEN Len(rows) - first + 1 ELSE 0
      /\ \A i \in 1 .. Len(rows) - first + 1 : last[i] = rows[first + i - 1]
  BY <1>2, <1>4, SubSeqProperties
<1> HIDE DEF last
<1>6. Len(last) = Len(rows) - first + 1
  BY <1>2, <1>5
<1>7. \A i \in 1 .. Len(last) : last[i] = rows[Len(rows) - Len(last) + i]
  <2> TAKE i \in 1 .. Len(last)
  <2>1. first + i - 1 = Len(rows) - Len(last) + i
    BY <1>2, <1>6
  <2> QED
    BY <1>5, <1>6, <2>1
<1> QED
  BY <1>1, <1>3, <1>5, <1>6, <1>7

\* What _build_cot hands to record is one step, and no audit's.
LEMMA FreshTrail ==
  ASSUME NEW cot \in BuildCot
  PROVE  cot \in Seq(Step) /\ Once(cot) /\ KindsIn(cot) = {}
<1>1. PICK k \in {"base", "cut"}, s \in Mentions : cot = <<[kind |-> k, says |-> s]>>
  BY DEF BuildCot
<1>2. PICK step : step = [kind |-> k, says |-> s]
  OBVIOUS
<1>3. step \in Step /\ step.kind \in {"base", "cut"}
  BY <1>2, ObserverAssumption DEF Step
<1>4. cot = <<step>>
  BY <1>1, <1>2
<1>5. cot \in Seq(Step) /\ DOMAIN cot = {1} /\ cot[1] = step
  BY <1>3, <1>4
<1> QED
  BY <1>3, <1>5 DEF Once, KindsIn

\* A decision that is inserted can only push others out of what is kept.
LEMMA KeptBefore ==
  ASSUME NEW I \in Seq(MetaId), NEW d \in MetaId, NEW R, NEW S, S \subseteq R \cup {d},
         NEW e, e # d, Kept(Append(I, d), S, e)
  PROVE  e \in R /\ \E i \in DOMAIN I : I[i] = e /\ Len(I) + 1 - i < MaxMetaRows
<1> DEFINE new == Append(I, d)
<1>1. /\ Len(new) = Len(I) + 1 /\ DOMAIN new = 1 .. Len(I) + 1 /\ DOMAIN I = 1 .. Len(I)
      /\ Len(I) \in Nat /\ new[Len(I) + 1] = d /\ \A i \in DOMAIN I : new[i] = I[i]
  OBVIOUS
<1> HIDE DEF new
<1>2. e \in S /\ \E i \in DOMAIN new : new[i] = e /\ Len(new) - i < MaxMetaRows
  BY DEF Kept, new
<1>3. PICK i \in DOMAIN new : new[i] = e /\ Len(new) - i < MaxMetaRows
  BY <1>2
<1>4. i \in DOMAIN I /\ I[i] = e
  BY <1>1, <1>3
<1> QED
  BY <1>1, <1>2, <1>3, <1>4

LEMMA TableTyped ==
  ASSUME NEW T, NEW I, NEW R, NEW O, NEW F, NEW M, Table(T, I, R, O, F, M)
  PROVE  /\ T \in Seq(MetaRow) /\ Len(T) \in Nat /\ DOMAIN T = 1 .. Len(T)
         /\ \A r \in DOMAIN T : T[r] \in MetaRow /\ T[r].id \in MetaId
<1>1. T \in Seq(MetaRow)
  BY DEF Table
<1>2. /\ Len(T) \in Nat /\ DOMAIN T = 1 .. Len(T)
      /\ \A r \in DOMAIN T : T[r] \in MetaRow
  BY <1>1
<1>3. \A r \in DOMAIN T : T[r].id \in MetaId
  BY <1>2 DEF MetaRow
<1> QED
  BY <1>1, <1>2, <1>3

\* A table stays as it should when a decision is inserted into the other one.
LEMMA RowStaysOut ==
  ASSUME NEW I \in Seq(MetaId), NEW d \in MetaId, \A i \in DOMAIN I : I[i] # d,
         NEW R \in SUBSET MetaId, \A e \in R : \E i \in DOMAIN I : I[i] = e,
         NEW T, NEW O, NEW F, NEW M, Table(T, I, R, O, F, M)
  PROVE  Table(T, Append(I, d), R, O, F, M)
<1> DEFINE new == Append(I, d)
<1>1. /\ Len(new) = Len(I) + 1 /\ DOMAIN I \subseteq DOMAIN new
      /\ DOMAIN I = 1 .. Len(I) /\ Len(I) \in Nat /\ \A i \in DOMAIN I : new[i] = I[i]
  OBVIOUS
<1>2. \A e \in MetaId : Kept(new, R, e) => Kept(I, R, e)
  <2> SUFFICES ASSUME NEW e \in MetaId, Kept(new, R, e) PROVE Kept(I, R, e)
    OBVIOUS
  <2>1. R \subseteq R \cup {d} /\ e # d
    BY DEF Kept
  <2>2. e \in R /\ \E i \in DOMAIN I : I[i] = e /\ Len(I) + 1 - i < MaxMetaRows
    BY <2>1, KeptBefore
  <2>3. PICK i \in DOMAIN I : I[i] = e /\ Len(I) + 1 - i < MaxMetaRows
    BY <2>2
  <2>4. Len(I) - i < MaxMetaRows
    BY <1>1, <2>3, ObserverAssumption
  <2> QED
    BY <2>2, <2>3, <2>4 DEF Kept
<1> HIDE DEF new
<1>3. T \in Seq(MetaRow) /\ Len(T) \in Nat /\ DOMAIN T = 1 .. Len(T)
      /\ \A r \in DOMAIN T : T[r] \in MetaRow /\ T[r].id \in MetaId
  BY TableTyped
<1>4. \A r \in DOMAIN T : \E i \in DOMAIN new : new[i] = T[r].id /\ Len(T) - r <= Len(new) - i
  <2> SUFFICES ASSUME NEW r \in DOMAIN T
               PROVE  \E i \in DOMAIN new : new[i] = T[r].id /\ Len(T) - r <= Len(new) - i
    OBVIOUS
  <2>1. PICK i \in DOMAIN I : I[i] = T[r].id /\ Len(T) - r <= Len(I) - i
    BY DEF Table, Placed
  <2>2. i \in DOMAIN new /\ new[i] = T[r].id /\ Len(T) - r <= Len(new) - i
    BY <1>1, <1>3, <2>1
  <2> QED
    BY <2>2
<1>5. Placed(T, new, R)
  BY <1>2, <1>4 DEF Table, Placed
<1>6. Tells(T, new, R, O, F, M)
  BY <1>2, <1>3 DEF Table, Tells
<1> QED
  BY <1>3, <1>5, <1>6 DEF Table, new

\* record: the new row goes in last, and trimming takes the first ones.
Pushed(U, T, row) ==
  /\ 1 <= Len(U) /\ Len(U) <= Len(T) + 1
  /\ Len(U) < Len(T) + 1 => Len(U) = MaxMetaRows
  /\ U[Len(U)] = row
  /\ \A r \in 1 .. Len(U) - 1 : U[r] = T[Len(T) + 1 - Len(U) + r]

LEMMA RecordPushes ==
  ASSUME NEW T \in Seq(MetaRow), NEW row \in MetaRow
  PROVE  /\ Append(T, row) \in Seq(MetaRow) /\ Pushed(Append(T, row), T, row)
         /\ LastRows(Append(T, row), MaxMetaRows) \in Seq(MetaRow)
         /\ Pushed(LastRows(Append(T, row), MaxMetaRows), T, row)
<1> DEFINE rows == Append(T, row)
           last == LastRows(rows, MaxMetaRows)
<1>1. /\ rows \in Seq(MetaRow) /\ Len(rows) = Len(T) + 1 /\ rows[Len(T) + 1] = row
      /\ Len(T) \in Nat /\ \A r \in 1 .. Len(T) : rows[r] = T[r]
  OBVIOUS
<1>2. MaxMetaRows \in Nat \ {0}
  BY ObserverAssumption
<1> HIDE DEF rows
<1>3. /\ last \in Seq(MetaRow)
      /\ Len(last) = IF Len(rows) > MaxMetaRows THEN MaxMetaRows ELSE Len(rows)
      /\ \A i \in 1 .. Len(last) : last[i] = rows[Len(rows) - Len(last) + i]
  BY <1>1, <1>2, LastRowsOf
<1> HIDE DEF last
<1>4. Pushed(rows, T, row)
  <2>1. \A r \in 1 .. Len(rows) - 1 : rows[r] = T[Len(T) + 1 - Len(rows) + r]
    BY <1>1
  <2> QED
    BY <1>1, <2>1 DEF Pushed
<1>5. Pushed(last, T, row)
  <2>1. /\ Len(last) \in Nat /\ 1 <= Len(last) /\ Len(last) <= Len(T) + 1
        /\ Len(last) < Len(T) + 1 => Len(last) = MaxMetaRows
    BY <1>1, <1>2, <1>3
  <2>2. last[Len(last)] = row
    <3>1. Len(last) \in 1 .. Len(last) /\ Len(rows) - Len(last) + Len(last) = Len(T) + 1
      BY <1>1, <2>1
    <3>2. last[Len(last)] = rows[Len(rows) - Len(last) + Len(last)]
      BY <1>3, <3>1
    <3> QED
      BY <1>1, <3>1, <3>2
  <2>3. ASSUME NEW r \in 1 .. Len(last) - 1
        PROVE  last[r] = T[Len(T) + 1 - Len(last) + r]
    <3>1. r \in 1 .. Len(last) /\ Len(rows) - Len(last) + r = Len(T) + 1 - Len(last) + r
          /\ Len(T) + 1 - Len(last) + r \in 1 .. Len(T)
      BY <1>1, <2>1
    <3>2. last[r] = rows[Len(rows) - Len(last) + r]
      BY <1>3, <3>1
    <3> QED
      BY <1>1, <3>1, <3>2
  <2> QED
    BY <2>1, <2>2, <2>3 DEF Pushed
<1> QED
  BY <1>1, <1>3, <1>4, <1>5 DEF rows, last

\* What goes out of the table is not kept.
LEMMA RowGoesIn ==
  ASSUME NEW I \in Seq(MetaId), NEW d \in MetaId, \A i \in DOMAIN I : I[i] # d,
         \A i, j \in DOMAIN I : I[i] = I[j] => i = j,
         NEW R \in SUBSET MetaId, \A e \in R : \E i \in DOMAIN I : I[i] = e,
         NEW S \in SUBSET (R \cup {d}),
         NEW T \in Seq(MetaRow), NEW O, NEW F, NEW M, Table(T, I, R, O, F, M), O[d] = {},
         NEW row \in MetaRow, row.id = d, row.cot \in BuildCot,
         NEW U \in Seq(MetaRow), Pushed(U, T, row)
  PROVE  Table(U, Append(I, d), S, O, F, M)
<1> DEFINE new == Append(I, d)
<1>1. /\ Len(new) = Len(I) + 1 /\ DOMAIN new = 1 .. Len(I) + 1
      /\ DOMAIN I = 1 .. Len(I) /\ Len(I) \in Nat
      /\ new[Len(I) + 1] = d /\ \A i \in DOMAIN I : new[i] = I[i]
  OBVIOUS
<1>4. MaxMetaRows \in Nat \ {0}
  BY ObserverAssumption
<1>6. ASSUME NEW e \in MetaId, Kept(new, S, e), e # d
      PROVE  e \in R /\ \E i \in DOMAIN I : I[i] = e /\ Len(I) + 1 - i < MaxMetaRows
  <2>1. S \subseteq R \cup {d} /\ Kept(Append(I, d), S, e)
    BY <1>6 DEF new
  <2> QED
    BY <1>6, <2>1, KeptBefore
<1>20. /\ Len(U) \in Nat /\ DOMAIN U = 1 .. Len(U)
       /\ Len(T) \in Nat /\ DOMAIN T = 1 .. Len(T)
  OBVIOUS
<1>21. /\ 1 <= Len(U) /\ Len(U) <= Len(T) + 1
       /\ Len(U) < Len(T) + 1 => Len(U) = MaxMetaRows
  BY DEF Pushed
<1>23. Len(U) < Len(T) + 1 \/ Len(U) = Len(T) + 1
  <2>1. Len(U) \in Int /\ Len(T) \in Int
    BY <1>20
  <2>2. Len(U) <= Len(T) + 1
    BY DEF Pushed
  <2> QED
    BY ONLY <2>1, <2>2
<1>22. Len(new) = Len(I) + 1 /\ DOMAIN new = 1 .. Len(I) + 1 /\ DOMAIN I = 1 .. Len(I) /\ Len(I) \in Nat
  BY <1>1
\* A row of U is the new one, or the one of T as far from the end.
<1>8. ASSUME NEW r \in DOMAIN U
      PROVE  \/ r = Len(U) /\ U[r] = row
             \/ /\ r # Len(U) /\ Len(T) + 1 - Len(U) + r \in DOMAIN T
                /\ U[r] = T[Len(T) + 1 - Len(U) + r]
  <2>1. CASE r = Len(U)
    BY <2>1 DEF Pushed
  <2>2. CASE r # Len(U)
    <3>1. r \in 1 .. Len(U) - 1 /\ Len(T) + 1 - Len(U) + r \in 1 .. Len(T)
      BY <1>20, <1>21, <2>2
    <3> QED
      BY <1>20, <2>2, <3>1 DEF Pushed
  <2> QED
    BY <2>1, <2>2
<1>9. \A r \in DOMAIN T : T[r].id # d
  BY DEF Table, Placed
<1>10. \A r \in DOMAIN U : \E i \in DOMAIN new : new[i] = U[r].id /\ Len(U) - r <= Len(new) - i
  <2> SUFFICES ASSUME NEW r \in DOMAIN U
               PROVE  \E i \in DOMAIN new : new[i] = U[r].id /\ Len(U) - r <= Len(new) - i
    OBVIOUS
  <2>1. CASE r = Len(U) /\ U[r] = row
    <3>1. Len(I) + 1 \in DOMAIN new /\ new[Len(I) + 1] = U[r].id
          /\ Len(U) - r <= Len(new) - (Len(I) + 1)
      BY <1>1, <1>20, <1>21, <1>22, <2>1
    <3> QED
      BY <3>1
  <2>2. CASE Len(T) + 1 - Len(U) + r \in DOMAIN T /\ U[r] = T[Len(T) + 1 - Len(U) + r]
    <3>1. PICK s \in DOMAIN T : s = Len(T) + 1 - Len(U) + r
      BY <2>2
    <3>2. PICK i \in DOMAIN I : I[i] = T[s].id /\ Len(T) - s <= Len(I) - i
      BY DEF Table, Placed
    <3>3. i \in DOMAIN new /\ new[i] = U[r].id
      BY <1>1, <2>2, <3>1, <3>2
    <3>4. Len(U) - r <= Len(new) - i
      BY <1>20, <1>21, <1>22, <3>1, <3>2
    <3> QED
      BY <3>3, <3>4
  <2> QED
    BY <1>8, <2>1, <2>2
<1>11. \A e \in MetaId : Kept(new, S, e) => \E r \in DOMAIN U : U[r].id = e
  <2> SUFFICES ASSUME NEW e \in MetaId, Kept(new, S, e)
               PROVE  \E r \in DOMAIN U : U[r].id = e
    OBVIOUS
  <2>1. CASE e = d
    <3>1. Len(U) \in DOMAIN U /\ U[Len(U)].id = d
      <4>1. Len(U) \in DOMAIN U
        BY <1>20, <1>21
      <4> QED
        BY <1>8, <4>1
    <3> QED
      BY <2>1, <3>1
  <2>2. CASE e # d
    <3>1. e \in R /\ \E i \in DOMAIN I : I[i] = e /\ Len(I) + 1 - i < MaxMetaRows
      BY <1>6, <2>2
    <3>2. PICK i \in DOMAIN I : I[i] = e /\ Len(I) + 1 - i < MaxMetaRows
      BY <3>1
    <3>3. Len(I) - i < MaxMetaRows
      BY <1>1, <1>4, <3>2
    <3>4. Kept(I, R, e)
      BY <3>1, <3>2, <3>3 DEF Kept
    <3>5. PICK s \in DOMAIN T : T[s].id = e
      BY <3>4 DEF Table, Placed
    <3>6. PICK j \in DOMAIN I : I[j] = T[s].id /\ Len(T) - s <= Len(I) - j
      BY DEF Table, Placed
    <3>7. j = i
      BY <3>2, <3>5, <3>6
    <3>8. Len(T) + 1 - s < MaxMetaRows
      BY <1>4, <1>20, <1>22, <3>2, <3>6, <3>7
    <3> DEFINE r == s - (Len(T) + 1 - Len(U))
    <3>9. r \in 1 .. Len(U) /\ r # Len(U) /\ Len(T) + 1 - Len(U) + r = s
      <4>1. s \in Int /\ 1 <= s /\ s <= Len(T)
        BY <1>20
      <4>2. r \in Int /\ 1 <= r
        <5>1. CASE Len(U) < Len(T) + 1
          <6>1. Len(U) = MaxMetaRows
            BY <1>21, <5>1
          <6> QED
            BY <1>20, <3>8, <4>1, <6>1
        <5>2. CASE Len(U) = Len(T) + 1
          BY <1>20, <4>1, <5>2
        <5> QED
          BY <1>23, <5>1, <5>2, Zenon
      <4>3. r <= Len(U) - 1
        BY <1>20, <4>1
      <4>4. Len(T) + 1 - Len(U) + r = s
        BY <1>20, <4>1
      <4>5. r \in 1 .. Len(U) /\ r # Len(U)
        BY <1>20, <4>2, <4>3
      <4> QED
        BY <4>4, <4>5
    <3> HIDE DEF r
    <3>10. U[r] = T[s] /\ r \in DOMAIN U
      BY <1>8, <1>20, <3>9
    <3> QED
      BY <3>5, <3>10
  <2> QED
    BY <2>1, <2>2
<1>12. ASSUME NEW r \in DOMAIN U, NEW s \in DOMAIN U, U[r].id = U[s].id
       PROVE  r = s
  <2>1. CASE r = Len(U) \/ s = Len(U)
    BY <1>8, <1>9, <1>12, <2>1
  <2>2. CASE r # Len(U) /\ s # Len(U)
    <3>1. Len(T) + 1 - Len(U) + r = Len(T) + 1 - Len(U) + s
      BY <1>8, <1>12, <2>2 DEF Table, Placed
    <3> QED
      BY <1>20, <1>21, <3>1
  <2> QED
    BY <2>1, <2>2
<1>13. Placed(U, new, S)
  BY <1>10, <1>11, <1>12 DEF Placed
<1>14. Tells(U, new, S, O, F, M)
  <2> SUFFICES ASSUME NEW r \in DOMAIN U
               PROVE  /\ Once(U[r].cot) /\ KindsIn(U[r].cot) \subseteq O[U[r].id]
                      /\ Kept(new, S, U[r].id) =>
                           O[U[r].id] \subseteq KindsIn(U[r].cot) \cup F[U[r].id] \cup M[U[r].id]
    BY DEF Tells
  <2>1. CASE U[r] = row
    BY <2>1, FreshTrail
  <2>2. CASE Len(T) + 1 - Len(U) + r \in DOMAIN T /\ U[r] = T[Len(T) + 1 - Len(U) + r]
    <3>1. PICK s \in DOMAIN T : U[r] = T[s]
      BY <2>2
    <3>2. Kept(new, S, T[s].id) => Kept(I, R, T[s].id)
      <4> SUFFICES ASSUME Kept(new, S, T[s].id) PROVE Kept(I, R, T[s].id)
        OBVIOUS
      <4>1. T[s].id \in R
            /\ \E i \in DOMAIN I : I[i] = T[s].id /\ Len(I) + 1 - i < MaxMetaRows
        BY <1>6, <1>9, TableTyped
      <4>2. PICK i \in DOMAIN I : I[i] = T[s].id /\ Len(I) + 1 - i < MaxMetaRows
        BY <4>1
      <4>3. Len(I) - i < MaxMetaRows
        BY <1>1, <1>4, <4>2
      <4> QED
        BY <4>1, <4>2, <4>3 DEF Kept
    <3> QED
      BY <3>1, <3>2 DEF Table, Tells
  <2> QED
    BY <1>8, <2>1, <2>2
<1> QED
  BY <1>13, <1>14 DEF Table, new

\* What a callback for kind notes of d: P, G and N for O, F and M.
Noted(d, kind, O, F, M, P, G, N) ==
  /\ O \in [MetaId -> SUBSET EventKind] /\ F \in [MetaId -> SUBSET EventKind]
  /\ M \in [MetaId -> SUBSET EventKind]
  /\ P = [O EXCEPT ![d] = @ \cup {kind}]
  /\ \A e \in MetaId : F[e] \subseteq G[e] /\ M[e] \subseteq N[e]

Missing(T, d, kind) == \E r \in DOMAIN T : T[r].id = d /\ ~HasStep(T[r].cot, kind)
Told(T, I, R, d, kind, G, N) ==
  Kept(I, R, d) =>
    \A r \in DOMAIN T : T[r].id = d => kind \in KindsIn(T[r].cot) \cup G[d] \cup N[d]

Written(T, d, step) ==
  [r \in DOMAIN T |->
     IF T[r].id = d THEN [T[r] EXCEPT !.cot = Appended(@, step)] ELSE T[r]]

\* A step goes into every row of its decision that has no marker of its kind;
\* whatever errors are noted with it, the other kinds are as they were.
LEMMA StepGoesIn ==
  ASSUME NEW I, NEW R, NEW T, NEW d \in MetaId, NEW step \in Step, step.kind \in EventKind,
         NEW O, NEW F, NEW M, NEW P, NEW G, NEW N,
         Table(T, I, R, O, F, M), Noted(d, step.kind, O, F, M, P, G, N),
         Missing(T, d, step.kind)
  PROVE  Table(Written(T, d, step), I, R, P, G, N)
<1> DEFINE U == Written(T, d, step)
<1>1. /\ T \in Seq(MetaRow) /\ Len(T) \in Nat /\ DOMAIN T = 1 .. Len(T)
      /\ \A r \in DOMAIN T : T[r] \in MetaRow
  BY TableTyped
<1>2. \A r \in DOMAIN T : T[r].id \in MetaId /\ T[r].cot \in Seq(Step)
  BY <1>1 DEF MetaRow
<1>3. /\ P[d] = O[d] \cup {step.kind} /\ \A e \in MetaId : e # d => P[e] = O[e]
      /\ \A e \in MetaId : F[e] \subseteq G[e] /\ M[e] \subseteq N[e]
  BY DEF Noted
<1>9. /\ DOMAIN U = DOMAIN T /\ U = [r \in DOMAIN T |-> U[r]]
      /\ \A r \in DOMAIN T :
           U[r] = IF T[r].id = d THEN [T[r] EXCEPT !.cot = Appended(@, step)] ELSE T[r]
  BY DEF Written
<1> HIDE DEF U
<1>4. ASSUME NEW r \in DOMAIN T
      PROVE  /\ U[r] \in MetaRow /\ U[r].id = T[r].id
             /\ Once(U[r].cot) /\ KindsIn(U[r].cot) \subseteq P[T[r].id]
             /\ Kept(I, R, T[r].id) =>
                  P[T[r].id] \subseteq KindsIn(U[r].cot) \cup G[T[r].id] \cup N[T[r].id]
  <2>1. /\ Once(T[r].cot) /\ KindsIn(T[r].cot) \subseteq O[T[r].id]
        /\ Kept(I, R, T[r].id) =>
             O[T[r].id] \subseteq KindsIn(T[r].cot) \cup F[T[r].id] \cup M[T[r].id]
    BY DEF Table, Tells
  <2>2. CASE T[r].id = d
    <3>1. ~HasStep(T[r].cot, step.kind)
      BY <2>2 DEF Table, Placed, Missing
    <3> DEFINE cot == Appended(T[r].cot, step)
    <3>2. cot \in Seq(Step) /\ Once(cot) /\ KindsIn(cot) = KindsIn(T[r].cot) \cup {step.kind}
      BY <1>2, <2>1, <3>1, AppendedTells
    <3>3. U[r] = [T[r] EXCEPT !.cot = cot]
      BY <1>9, <2>2
    <3> HIDE DEF cot
    <3>4. U[r] \in MetaRow /\ U[r].id = T[r].id /\ U[r].cot = cot
      BY <1>1, <3>2, <3>3 DEF MetaRow
    <3>5. KindsIn(cot) \subseteq P[d]
      BY <1>3, <2>1, <2>2, <3>2
    <3>6. Kept(I, R, d) => P[d] \subseteq KindsIn(cot) \cup G[d] \cup N[d]
      BY <1>3, <2>1, <2>2, <3>2
    <3> QED
      BY <2>2, <3>2, <3>4, <3>5, <3>6
  <2>3. CASE T[r].id # d
    <3>1. U[r] = T[r]
      BY <1>9, <2>3
    <3>2. /\ P[T[r].id] = O[T[r].id] /\ F[T[r].id] \subseteq G[T[r].id]
          /\ M[T[r].id] \subseteq N[T[r].id]
      BY <1>2, <1>3, <2>3
    <3> QED
      BY <1>1, <2>1, <3>1, <3>2
  <2> QED
    BY <2>2, <2>3
<1>5. DOMAIN U = DOMAIN T
  BY <1>9
<1>6. U \in Seq(MetaRow) /\ Len(U) = Len(T)
  <2>1. /\ U = [r \in 1 .. Len(T) |-> U[r]] /\ Len(T) \in Nat
        /\ \A r \in 1 .. Len(T) : U[r] \in MetaRow
    BY <1>1, <1>4, <1>9
  <2> QED
    BY <2>1
<1>7. Placed(U, I, R)
  <2>1. \A r \in DOMAIN U : \E i \in DOMAIN I : I[i] = U[r].id /\ Len(U) - r <= Len(I) - i
    BY <1>4, <1>5, <1>6 DEF Table, Placed
  <2>2. \A e \in MetaId : Kept(I, R, e) => \E r \in DOMAIN U : U[r].id = e
    BY <1>4, <1>5 DEF Table, Placed
  <2>3. \A r, s \in DOMAIN U : U[r].id = U[s].id => r = s
    BY <1>4, <1>5 DEF Table, Placed
  <2> QED
    BY <2>1, <2>2, <2>3 DEF Placed
<1>8. Tells(U, I, R, P, G, N)
  BY <1>4, <1>5 DEF Tells
<1> QED
  BY <1>6, <1>7, <1>8 DEF Table, U

\* A step that stays out of a table is in it already, or noted as failed or
\* masked, or its decision is not kept.
LEMMA StepStaysOut ==
  ASSUME NEW I, NEW R, NEW T, NEW d \in MetaId, NEW kind,
         NEW O, NEW F, NEW M, NEW P, NEW G, NEW N,
         Table(T, I, R, O, F, M), Noted(d, kind, O, F, M, P, G, N), Told(T, I, R, d, kind, G, N)
  PROVE  Table(T, I, R, P, G, N)
<1>1. /\ P[d] = O[d] \cup {kind} /\ \A e \in MetaId : e # d => P[e] = O[e]
      /\ \A e \in MetaId : F[e] \subseteq G[e] /\ M[e] \subseteq N[e]
  BY DEF Noted
<1>2. ASSUME NEW r \in DOMAIN T
      PROVE  /\ Once(T[r].cot) /\ KindsIn(T[r].cot) \subseteq P[T[r].id]
             /\ Kept(I, R, T[r].id) =>
                  P[T[r].id] \subseteq KindsIn(T[r].cot) \cup G[T[r].id] \cup N[T[r].id]
  <2>1. T[r].id \in MetaId
    BY TableTyped
  <2>2. /\ Once(T[r].cot) /\ KindsIn(T[r].cot) \subseteq O[T[r].id]
        /\ Kept(I, R, T[r].id) =>
             O[T[r].id] \subseteq KindsIn(T[r].cot) \cup F[T[r].id] \cup M[T[r].id]
    BY DEF Table, Tells
  <2>3. F[T[r].id] \subseteq G[T[r].id] /\ M[T[r].id] \subseteq N[T[r].id]
    BY <1>1, <2>1
  <2>4. CASE T[r].id = d
    <3>1. KindsIn(T[r].cot) \subseteq P[d]
      BY <1>1, <2>2, <2>4
    <3>2. Kept(I, R, d) => P[d] \subseteq KindsIn(T[r].cot) \cup G[d] \cup N[d]
      BY <1>1, <2>2, <2>3, <2>4 DEF Told
    <3> QED
      BY <2>2, <2>4, <3>1, <3>2
  <2>5. CASE T[r].id # d
    <3>1. P[T[r].id] = O[T[r].id]
      BY <1>1, <2>1, <2>5
    <3> QED
      BY <2>2, <2>3, <3>1
  <2> QED
    BY <2>4, <2>5
<1>3. Tells(T, I, R, P, G, N)
  BY <1>2 DEF Tells
<1> QED
  BY <1>3 DEF Table

-----------------------------------------------------------------------------
LEMMA HookInvInit == HookInit => HookInv
<1>1. ASSUME HookInit PROVE HookInv
  <2>1. /\ meta = <<>> /\ metaSaved = <<>> /\ inserted = <<>> /\ recorded = {}
        /\ hookPc = [d \in MetaId |-> "arrive"]
        /\ audit = [d \in MetaId |-> [k \in AuditKind |-> "no"]]
        /\ owed = [d \in MetaId |-> {}] /\ failed = owed /\ masked = owed
    BY <1>1 DEF HookInit, ObserverInit
  <2>2. <<>> \in Seq(MetaRow) /\ <<>> \in Seq(MetaId) /\ DOMAIN <<>> = {}
    OBVIOUS
  <2>3. HookTyped
    BY <2>1, <2>2 DEF HookTyped
  <2>4. \A T : T = <<>> => Table(T, inserted, recorded, owed, failed, masked)
    BY <2>1, <2>2 DEF Table, Placed, Tells, Kept
  <2>5. InsertedOnce /\ InsertedIsPast /\ RecordedIsInserted
    BY <2>1, <2>2 DEF InsertedOnce, InsertedIsPast, RecordedIsInserted
  <2>6. NothingOwedYet
    BY <2>1 DEF NothingOwedYet
  <2> QED
    BY <2>1, <2>3, <2>4, <2>5, <2>6 DEF HookInv, SeenTable, SavedTable
<1> QED
  BY <1>1

\* What both branches of record do, with I and R the insertions and recorded
\* decisions after it: the row d is new, so that both tables are fit for it.
LEMMA RecordTables ==
  ASSUME HookInv, NEW d \in MetaId, NEW cot \in BuildCot, hookPc[d] = "record",
         NEW S \in SUBSET (recorded \cup {d}),
         NEW U, \/ U = Append(meta, [id |-> d, cot |-> cot])
                \/ U = LastRows(Append(meta, [id |-> d, cot |-> cot]), MaxMetaRows)
  PROVE  /\ Table(U, Append(inserted, d), S, owed, failed, masked)
         /\ Table(metaSaved, Append(inserted, d), recorded, owed, failed, masked)
<1>1. inserted \in Seq(MetaId) /\ recorded \in SUBSET MetaId
  BY DEF HookInv, HookTyped
<1>2. \A i \in DOMAIN inserted : inserted[i] # d
  BY DEF HookInv, InsertedIsPast
<1>3. /\ \A i, j \in DOMAIN inserted : inserted[i] = inserted[j] => i = j
      /\ \A e \in recorded : \E i \in DOMAIN inserted : inserted[i] = e
  BY DEF HookInv, InsertedOnce, RecordedIsInserted
<1>4. owed[d] = {}
  BY DEF HookInv, NothingOwedYet
<1>5. /\ Table(meta, inserted, recorded, owed, failed, masked)
      /\ Table(metaSaved, inserted, recorded, owed, failed, masked)
  BY DEF HookInv, SeenTable, SavedTable
<1>6. meta \in Seq(MetaRow)
  BY <1>5 DEF Table
<1>7. PICK row : row = [id |-> d, cot |-> cot]
  OBVIOUS
<1>8. row \in MetaRow /\ row.id = d /\ row.cot \in BuildCot
  BY <1>7, FreshTrail DEF MetaRow
<1>9. U \in Seq(MetaRow) /\ Pushed(U, meta, row)
  BY <1>6, <1>7, <1>8, RecordPushes
<1>10. Table(U, Append(inserted, d), S, owed, failed, masked)
  BY <1>1, <1>2, <1>3, <1>4, <1>5, <1>6, <1>8, <1>9, RowGoesIn, Zenon
<1>11. Table(metaSaved, Append(inserted, d), recorded, owed, failed, masked)
  BY <1>1, <1>2, <1>3, <1>5, RowStaysOut
<1> QED
  BY <1>10, <1>11

\* The end of the lists of insertions and recorded decisions.
LEMMA InsertedGrows ==
  ASSUME HookInv, NEW d \in MetaId, hookPc[d] = "record", inserted' = Append(inserted, d),
         recorded' \in {recorded, recorded \cup {d}}
  PROVE  /\ inserted' \in Seq(MetaId) /\ recorded' \in SUBSET MetaId
         /\ InsertedOnce' /\ RecordedIsInserted'
         /\ \A i \in DOMAIN inserted' : inserted'[i] = d \/
              (i \in DOMAIN inserted /\ inserted'[i] = inserted[i])
<1>1. inserted \in Seq(MetaId) /\ recorded \in SUBSET MetaId
  BY DEF HookInv, HookTyped
<1>2. /\ inserted' \in Seq(MetaId) /\ DOMAIN inserted' = 1 .. Len(inserted) + 1
      /\ Len(inserted) \in Nat /\ DOMAIN inserted = 1 .. Len(inserted)
      /\ inserted'[Len(inserted) + 1] = d
      /\ \A i \in DOMAIN inserted : inserted'[i] = inserted[i]
  BY <1>1
<1>3. \A i \in DOMAIN inserted : inserted[i] # d
  BY DEF HookInv, InsertedIsPast
<1>4. \A i \in DOMAIN inserted' : i = Len(inserted) + 1 \/ i \in DOMAIN inserted
  BY <1>2
<1>5. InsertedOnce'
  BY <1>2, <1>3, <1>4 DEF HookInv, InsertedOnce
<1>6. RecordedIsInserted'
  <2>1. Len(inserted) + 1 \in DOMAIN inserted' /\ DOMAIN inserted \subseteq DOMAIN inserted'
    BY <1>2
  <2> QED
    BY <1>2, <2>1 DEF HookInv, RecordedIsInserted
<1> QED
  BY <1>1, <1>2, <1>4, <1>5, <1>6

\* A handler that goes on past its record, or is not there yet, takes no
\* inserted decision back.
LEMMA HandlerMoves ==
  ASSUME HookInv, NEW d \in MetaId,
         NEW pc \in {"record", "audits", "forward", "end"}, HookGoto(d, pc),
         pc = "record" => hookPc[d] = "arrive"
  PROVE  /\ hookPc' \in [MetaId -> {"arrive", "record", "audits", "forward", "end"}]
         /\ hookPc'[d] = pc /\ \A e \in MetaId : e # d => hookPc'[e] = hookPc[e]
         /\ \A i \in DOMAIN inserted : hookPc'[inserted[i]] \notin {"arrive", "record"}
BY DEF HookInv, HookTyped, InsertedIsPast, HookGoto

\* A step that leaves the table alone keeps what the table says.
LEMMA TableStays ==
  ASSUME HookInv, UNCHANGED <<inserted, recorded, owed, failed, masked>>,
         meta' \in {meta, metaSaved}, metaSaved' = metaSaved
  PROVE  /\ inserted' \in Seq(MetaId) /\ recorded' \in SUBSET MetaId
         /\ owed' \in [MetaId -> SUBSET EventKind] /\ failed' \in [MetaId -> SUBSET EventKind]
         /\ masked' \in [MetaId -> SUBSET EventKind]
         /\ InsertedOnce' /\ RecordedIsInserted' /\ SeenTable' /\ SavedTable'
<1>1. /\ inserted' \in Seq(MetaId) /\ recorded' \in SUBSET MetaId
      /\ owed' \in [MetaId -> SUBSET EventKind] /\ failed' \in [MetaId -> SUBSET EventKind]
      /\ masked' \in [MetaId -> SUBSET EventKind]
  BY DEF HookInv, HookTyped
<1>2. InsertedOnce' /\ RecordedIsInserted'
  BY DEF HookInv, InsertedOnce, RecordedIsInserted
<1>3. /\ Table(meta', inserted, recorded, owed, failed, masked)
      /\ Table(metaSaved, inserted, recorded, owed, failed, masked)
  BY DEF HookInv, SeenTable, SavedTable
<1> QED
  BY <1>1, <1>2, <1>3 DEF SeenTable, SavedTable

LEMMA ArriveStep ==
  ASSUME HookInv, NEW d \in MetaId, Arrive(d)
  PROVE  HookInv'
<1>1. /\ hookPc[d] = "arrive" /\ HookGoto(d, "record")
      /\ UNCHANGED <<meta, metaSaved, inserted, recorded, audit, owed, failed, masked>>
  BY DEF Arrive, observerVars, auditVars, evidenceVars
<1>2. NothingOwedYet'
  BY <1>1, HandlerMoves DEF HookInv, NothingOwedYet
<1> QED
  BY <1>1, <1>2, HandlerMoves, TableStays DEF HookInv, HookTyped, InsertedIsPast

LEMMA RecordMetaStep ==
  ASSUME HookInv, NEW d \in MetaId, RecordMeta(d)
  PROVE  HookInv'
<1>1. /\ hookPc[d] = "record" /\ HookGoto(d, "audits")
      /\ UNCHANGED <<audit, owed, failed, masked>>
  BY DEF RecordMeta, auditVars, evidenceVars
<1>2. NothingOwedYet'
  BY <1>1, HandlerMoves DEF HookInv, NothingOwedYet
<1>3. CASE /\ UNCHANGED <<inserted, recorded, metaSaved>> /\ meta' \in {meta, metaSaved}
  BY <1>1, <1>2, <1>3, HandlerMoves, TableStays DEF HookInv, HookTyped, InsertedIsPast
<1>4. CASE /\ inserted' = Append(inserted, d) /\ recorded' \in {recorded, recorded \cup {d}}
           /\ SeenTable' /\ SavedTable'
  <2>1. /\ inserted' \in Seq(MetaId) /\ recorded' \in SUBSET MetaId
        /\ InsertedOnce' /\ RecordedIsInserted'
        /\ \A i \in DOMAIN inserted' : inserted'[i] = d \/
             (i \in DOMAIN inserted /\ inserted'[i] = inserted[i])
    BY <1>1, <1>4, InsertedGrows
  <2>2. InsertedIsPast'
    BY <1>1, <2>1, HandlerMoves DEF InsertedIsPast
  <2>3. HookTyped'
    BY <1>1, <2>1, HandlerMoves DEF HookInv, HookTyped
  <2> QED
    BY <1>2, <1>4, <2>1, <2>2, <2>3 DEF HookInv
<1>5. ASSUME NEW cot \in BuildCot, Record(d, cot)
      PROVE  HookInv'
  <2> DEFINE row == [id |-> d, cot |-> cot]
  <2>1. /\ meta' = Append(meta, row) \/ meta' = LastRows(Append(meta, row), MaxMetaRows)
        /\ metaSaved' = meta' /\ inserted' = Append(inserted, d) /\ recorded' = recorded \cup {d}
    BY <1>5 DEF Record, Trims
  <2>2. Table(meta', inserted', recorded', owed, failed, masked)
    BY <1>1, <2>1, RecordTables
  <2>3. SeenTable' /\ SavedTable'
    BY <1>1, <2>1, <2>2 DEF SeenTable, SavedTable
  <2> QED
    BY <1>4, <2>1, <2>3
<1>6. ASSUME NEW cot \in BuildCot, RecordFails(d, cot)
      PROVE  HookInv'
  <2>1. CASE UNCHANGED inserted /\ Fails
    BY <1>3, <1>6, <2>1 DEF RecordFails, Fails
  <2>2. CASE /\ meta' = LastRows(Append(meta, [id |-> d, cot |-> cot]), MaxMetaRows)
             /\ inserted' = Append(inserted, d)
    <3>1. UNCHANGED <<metaSaved, recorded>>
      BY <1>6 DEF RecordFails
    <3>2. /\ Table(meta', inserted', recorded, owed, failed, masked)
          /\ Table(metaSaved, inserted', recorded, owed, failed, masked)
      BY <1>1, <2>2, RecordTables
    <3>3. SeenTable' /\ SavedTable'
      BY <1>1, <3>1, <3>2 DEF SeenTable, SavedTable
    <3> QED
      BY <1>4, <2>2, <3>1, <3>3
  <2> QED
    BY <1>6, <2>1, <2>2 DEF RecordFails
<1> QED
  BY <1>5, <1>6 DEF RecordMeta

LEMMA StartAuditsStep ==
  ASSUME HookInv, NEW d \in MetaId, StartAudits(d)
  PROVE  HookInv'
<1>1. /\ hookPc[d] = "audits" /\ HookGoto(d, "forward")
      /\ UNCHANGED <<meta, metaSaved, inserted, recorded, owed, failed, masked>>
      /\ audit' \in {audit, Started(d)}
  BY DEF StartAudits, observerVars, evidenceVars
<1>2. Started(d) \in [MetaId -> [AuditKind -> {"no", "start", "judge", "done"}]]
      /\ \A e \in MetaId : e # d => Started(d)[e] = audit[e]
  BY DEF Started, HookInv, HookTyped
<1>3. NothingOwedYet'
  BY <1>1, <1>2, HandlerMoves DEF HookInv, NothingOwedYet
<1>4. audit' \in [MetaId -> [AuditKind -> {"no", "start", "judge", "done"}]]
  BY <1>1, <1>2 DEF HookInv, HookTyped
<1> QED
  BY <1>1, <1>3, <1>4, HandlerMoves, TableStays DEF HookInv, HookTyped, InsertedIsPast

LEMMA ProxyForwardStep ==
  ASSUME HookInv, NEW d \in MetaId, ProxyForward(d)
  PROVE  HookInv'
<1>1. /\ hookPc[d] = "forward" /\ HookGoto(d, "end")
      /\ UNCHANGED <<meta, metaSaved, inserted, recorded, owed, failed, masked>>
      /\ \/ audit' = audit
         \/ \E s \in {"no", "start"} : audit' = [audit EXCEPT ![d]["output"] = s]
  BY DEF ProxyForward, observerVars, evidenceVars
<1>2. /\ audit' \in [MetaId -> [AuditKind -> {"no", "start", "judge", "done"}]]
      /\ \A e \in MetaId : e # d => audit'[e] = audit[e]
  <2>1. audit \in [MetaId -> [AuditKind -> {"no", "start", "judge", "done"}]]
    BY DEF HookInv, HookTyped
  <2>2. CASE audit' = audit
    BY <2>1, <2>2
  <2>3. CASE \E s \in {"no", "start"} : audit' = [audit EXCEPT ![d]["output"] = s]
    <3>1. PICK s \in {"no", "start"} : audit' = [audit EXCEPT ![d]["output"] = s]
      BY <2>3
    <3>2. "output" \in AuditKind /\ s \in {"no", "start", "judge", "done"}
      BY DEF AuditKind
    <3> QED
      BY <2>1, <3>1, <3>2
  <2> QED
    BY <1>1, <2>2, <2>3
<1>3. NothingOwedYet'
  BY <1>1, <1>2, HandlerMoves DEF HookInv, NothingOwedYet
<1> QED
  BY <1>1, <1>2, <1>3, HandlerMoves, TableStays DEF HookInv, HookTyped, InsertedIsPast

LEMMA AuditMoves ==
  ASSUME HookInv, NEW d \in MetaId, NEW k \in AuditKind, NEW s \in {"judge", "done"},
         AuditGoto(d, k, s), audit[d][k] # "no"
  PROVE  /\ audit' \in [MetaId -> [AuditKind -> {"no", "start", "judge", "done"}]]
         /\ \A e \in MetaId : e # d => audit'[e] = audit[e]
         /\ hookPc[d] \notin {"arrive", "record", "audits"}
<1>1. audit' = [audit EXCEPT ![d][k] = s]
  BY DEF AuditGoto
<1>2. audit' \in [MetaId -> [AuditKind -> {"no", "start", "judge", "done"}]]
      /\ \A e \in MetaId : e # d => audit'[e] = audit[e]
  BY <1>1 DEF HookInv, HookTyped
<1>3. hookPc[d] \notin {"arrive", "record", "audits"}
  BY DEF HookInv, NothingOwedYet
<1> QED
  BY <1>2, <1>3

LEMMA AskJudgeStep ==
  ASSUME HookInv, NEW d \in MetaId, NEW k \in AuditKind, AskJudge(d, k)
  PROVE  HookInv'
<1>1. /\ audit[d][k] = "start"
      /\ \E s \in {"judge", "done"} : AuditGoto(d, k, s)
      /\ UNCHANGED <<meta, metaSaved, inserted, recorded, hookPc, owed, failed, masked>>
  BY DEF AskJudge, observerVars, evidenceVars
<1>2. /\ audit' \in [MetaId -> [AuditKind -> {"no", "start", "judge", "done"}]]
      /\ \A e \in MetaId : e # d => audit'[e] = audit[e]
      /\ hookPc[d] \notin {"arrive", "record", "audits"}
  BY <1>1, AuditMoves
<1>3. NothingOwedYet' /\ InsertedIsPast'
  BY <1>1, <1>2 DEF HookInv, NothingOwedYet, InsertedIsPast
<1> QED
  BY <1>1, <1>2, <1>3, TableStays DEF HookInv, HookTyped

-----------------------------------------------------------------------------
\* The callbacks into the observer.  An append that is skipped finds its marker
\* in the row: a step of its kind, which was owed before and so is accounted for
\* in the committed table too, or another's text, which is what masked notes.
LEMMA AppendEventStep ==
  ASSUME HookInv, NEW d \in MetaId, NEW step \in Step, step.kind \in EventKind,
         AppendEvent(d, step),
         owed' = [owed EXCEPT ![d] = @ \cup {step.kind}], failed' = failed,
         masked' = IF \E r \in RowsOf(d) : MaskedIn(meta[r].cot, step.kind)
                   THEN [masked EXCEPT ![d] = @ \cup {step.kind}] ELSE masked
  PROVE  /\ masked' \in [MetaId -> SUBSET EventKind]
         /\ Table(meta', inserted, recorded, owed', failed', masked')
         /\ Table(metaSaved', inserted, recorded, owed', failed', masked')
<1>1. /\ owed \in [MetaId -> SUBSET EventKind] /\ failed \in [MetaId -> SUBSET EventKind]
      /\ masked \in [MetaId -> SUBSET EventKind]
      /\ Table(meta, inserted, recorded, owed, failed, masked)
      /\ Table(metaSaved, inserted, recorded, owed, failed, masked)
  BY DEF HookInv, HookTyped, SeenTable, SavedTable
<1>2. masked' \in [MetaId -> SUBSET EventKind] /\ \A e \in MetaId : masked[e] \subseteq masked'[e]
  BY <1>1
<1>3. /\ owed' \in [MetaId -> SUBSET EventKind]
      /\ Noted(d, step.kind, owed, failed, masked, owed', failed', masked')
  BY <1>1, <1>2 DEF Noted
<1>4. CASE Appends(d, step)
  <2>1. meta' = WithStep(d, step) /\ metaSaved' = meta'
    BY <1>4 DEF AppendEvent
  <2>2. PICK r \in DOMAIN meta : meta[r].id = d /\ ~HasStep(meta[r].cot, step.kind)
    BY <1>4 DEF Appends, RowsOf
  <2>4. meta' = Written(meta, d, step) /\ Missing(meta, d, step.kind)
    BY <2>1, <2>2 DEF WithStep, RowsOf, Written, Missing
  <2>6. Table(meta', inserted, recorded, owed', failed', masked')
    BY <1>1, <1>3, <2>4, StepGoesIn, Zenon
  <2> QED
    BY <1>2, <2>1, <2>6
<1>5. CASE ~Appends(d, step)
  <2>1. UNCHANGED <<meta, metaSaved>>
    BY <1>5 DEF AppendEvent
  <2>2. \A r \in DOMAIN meta : meta[r].id = d => HasStep(meta[r].cot, step.kind)
    BY <1>5 DEF Appends, RowsOf
  <2>3. ASSUME NEW r \in DOMAIN meta, meta[r].id = d
        PROVE  step.kind \in KindsIn(meta[r].cot) \cup failed'[d] \cup masked'[d]
    <3>1. CASE step.kind \in KindsIn(meta[r].cot)
      BY <3>1
    <3>2. CASE step.kind \notin KindsIn(meta[r].cot)
      <4>1. r \in RowsOf(d) /\ MaskedIn(meta[r].cot, step.kind)
        BY <2>2, <2>3, <3>2 DEF MaskedIn, RowsOf
      <4>2. masked' = [masked EXCEPT ![d] = @ \cup {step.kind}]
        BY <4>1
      <4> QED
        BY <1>1, <4>2
    <3> QED
      BY <3>1, <3>2
  <2>4. Table(meta, inserted, recorded, owed', failed', masked')
    <3>1. Told(meta, inserted, recorded, d, step.kind, failed', masked')
      BY <2>3 DEF Told
    <3> QED
      BY <1>1, <1>3, <3>1, StepStaysOut, SMT
  <2>5. ASSUME Kept(inserted, recorded, d), NEW s \in DOMAIN metaSaved, metaSaved[s].id = d
        PROVE  step.kind \in KindsIn(metaSaved[s].cot) \cup failed'[d] \cup masked'[d]
    <3>1. PICK r \in DOMAIN meta : meta[r].id = d
      BY <1>1, <2>5 DEF Table, Placed
    <3>2. CASE step.kind \in masked'[d]
      BY <3>2
    <3>3. CASE step.kind \in KindsIn(meta[r].cot)
      <4>1. step.kind \in owed[d]
        BY <1>1, <3>1, <3>3 DEF Table, Tells
      <4>2. step.kind \in KindsIn(metaSaved[s].cot) \cup failed[d] \cup masked[d]
        BY <1>1, <2>5, <4>1 DEF Table, Tells
      <4> QED
        BY <1>2, <4>2
    <3> QED
      BY <1>1, <2>3, <3>1, <3>2, <3>3
  <2>6. Table(metaSaved, inserted, recorded, owed', failed', masked')
    <3>1. Told(metaSaved, inserted, recorded, d, step.kind, failed', masked')
      BY <2>5 DEF Told
    <3> QED
      BY <1>1, <1>3, <3>1, StepStaysOut, SMT
  <2> QED
    BY <1>2, <2>1, <2>4, <2>6
<1> QED
  BY <1>4, <1>5

LEMMA AppendFailsStep ==
  ASSUME HookInv, NEW d \in MetaId, NEW step \in Step, step.kind \in EventKind,
         AppendFails(d, step),
         owed' = [owed EXCEPT ![d] = @ \cup {step.kind}],
         failed' = [failed EXCEPT ![d] = @ \cup {step.kind}], masked' = masked
  PROVE  /\ failed' \in [MetaId -> SUBSET EventKind]
         /\ Table(meta', inserted, recorded, owed', failed', masked')
         /\ Table(metaSaved', inserted, recorded, owed', failed', masked')
<1>1. /\ owed \in [MetaId -> SUBSET EventKind] /\ failed \in [MetaId -> SUBSET EventKind]
      /\ masked \in [MetaId -> SUBSET EventKind]
      /\ Table(meta, inserted, recorded, owed, failed, masked)
      /\ Table(metaSaved, inserted, recorded, owed, failed, masked)
  BY DEF HookInv, HookTyped, SeenTable, SavedTable
<1>2. /\ failed' \in [MetaId -> SUBSET EventKind] /\ step.kind \in failed'[d]
      /\ Noted(d, step.kind, owed, failed, masked, owed', failed', masked')
  BY <1>1 DEF Noted
<1>3. /\ Table(meta, inserted, recorded, owed', failed', masked')
      /\ Table(metaSaved, inserted, recorded, owed', failed', masked')
  <2>1. /\ Told(meta, inserted, recorded, d, step.kind, failed', masked')
        /\ Told(metaSaved, inserted, recorded, d, step.kind, failed', masked')
    BY <1>2 DEF Told
  <2>2. Table(meta, inserted, recorded, owed', failed', masked')
    BY <1>1, <1>2, <2>1, StepStaysOut, SMT
  <2>3. Table(metaSaved, inserted, recorded, owed', failed', masked')
    BY <1>1, <1>2, <2>1, StepStaysOut, SMT
  <2> QED
    BY <2>2, <2>3
<1>4. metaSaved' = metaSaved
  BY DEF AppendFails
<1>5. CASE meta' \in {meta, metaSaved}
  BY <1>2, <1>3, <1>4, <1>5
<1>6. CASE Appends(d, step) /\ meta' = WithStep(d, step)
  <2>1. meta' = Written(meta, d, step) /\ Missing(meta, d, step.kind)
    BY <1>6 DEF WithStep, Appends, RowsOf, Written, Missing
  <2>4. Table(meta', inserted, recorded, owed', failed', masked')
    BY <1>1, <1>2, <2>1, StepGoesIn, Zenon
  <2> QED
    BY <1>2, <1>3, <1>4, <2>4
<1> QED
  BY <1>5, <1>6 DEF AppendFails, Fails

LEMMA NoteStep ==
  ASSUME HookInv, NEW d \in MetaId, NEW kind \in EventKind, Note(d, kind)
  PROVE  /\ UNCHANGED <<inserted, recorded>>
         /\ owed' \in [MetaId -> SUBSET EventKind] /\ \A e \in MetaId : e # d => owed'[e] = owed[e]
         /\ failed' \in [MetaId -> SUBSET EventKind] /\ masked' \in [MetaId -> SUBSET EventKind]
         /\ SeenTable' /\ SavedTable'
<1>1. /\ owed \in [MetaId -> SUBSET EventKind] /\ failed \in [MetaId -> SUBSET EventKind]
      /\ masked \in [MetaId -> SUBSET EventKind]
  BY DEF HookInv, HookTyped
<1>2. owed' = [owed EXCEPT ![d] = @ \cup {kind}]
  BY DEF Note
<1>3. owed' \in [MetaId -> SUBSET EventKind] /\ \A e \in MetaId : e # d => owed'[e] = owed[e]
  BY <1>1, <1>2
<1>4. PICK flags \in Mentions :
        LET step == [kind |-> kind, says |-> flags \ {kind}]
        IN  \/ /\ AppendEvent(d, step)
               /\ masked' = IF \E r \in RowsOf(d) : MaskedIn(meta[r].cot, kind)
                            THEN [masked EXCEPT ![d] = @ \cup {kind}] ELSE masked
               /\ UNCHANGED failed
            \/ /\ AppendFails(d, step)
               /\ failed' = [failed EXCEPT ![d] = @ \cup {kind}]
               /\ UNCHANGED masked
  BY DEF Note
<1>5. PICK step : step = [kind |-> kind, says |-> flags \ {kind}]
  OBVIOUS
<1>6. step \in Step /\ step.kind = kind
  BY <1>5, ObserverAssumption DEF Step
<1>7. CASE /\ AppendEvent(d, step)
           /\ masked' = IF \E r \in RowsOf(d) : MaskedIn(meta[r].cot, kind)
                        THEN [masked EXCEPT ![d] = @ \cup {kind}] ELSE masked
           /\ UNCHANGED failed
  <2>1. UNCHANGED <<inserted, recorded>>
    BY <1>7 DEF AppendEvent
  <2>2. /\ masked' \in [MetaId -> SUBSET EventKind]
        /\ Table(meta', inserted, recorded, owed', failed', masked')
        /\ Table(metaSaved', inserted, recorded, owed', failed', masked')
    BY <1>2, <1>6, <1>7, AppendEventStep
  <2> QED
    BY <1>1, <1>3, <1>7, <2>1, <2>2 DEF SeenTable, SavedTable
<1>8. CASE /\ AppendFails(d, step)
           /\ failed' = [failed EXCEPT ![d] = @ \cup {kind}]
           /\ UNCHANGED masked
  <2>1. UNCHANGED <<inserted, recorded>>
    BY <1>8 DEF AppendFails
  <2>2. /\ failed' \in [MetaId -> SUBSET EventKind]
        /\ Table(meta', inserted, recorded, owed', failed', masked')
        /\ Table(metaSaved', inserted, recorded, owed', failed', masked')
    BY <1>2, <1>6, <1>8, AppendFailsStep
  <2> QED
    BY <1>1, <1>3, <1>8, <2>1, <2>2 DEF SeenTable, SavedTable
<1> QED
  BY <1>4, <1>5, <1>7, <1>8

LEMMA JudgeAnswersStep ==
  ASSUME HookInv, NEW d \in MetaId, NEW k \in AuditKind, JudgeAnswers(d, k)
  PROVE  HookInv'
<1>1. /\ audit[d][k] = "judge" /\ AuditGoto(d, k, "done") /\ UNCHANGED hookPc
      /\ \/ UNCHANGED <<meta, metaSaved, inserted, recorded, owed, failed, masked>>
         \/ \E kind \in EventKind : Note(d, kind)
  BY DEF JudgeAnswers, DriftVerdict, SemanticVerdict, observerVars, evidenceVars, EventKind
<1>2. /\ audit' \in [MetaId -> [AuditKind -> {"no", "start", "judge", "done"}]]
      /\ \A e \in MetaId : e # d => audit'[e] = audit[e]
      /\ hookPc[d] \notin {"arrive", "record", "audits"}
  BY <1>1, AuditMoves
<1>3. /\ UNCHANGED <<inserted, recorded>>
      /\ owed' \in [MetaId -> SUBSET EventKind] /\ \A e \in MetaId : e # d => owed'[e] = owed[e]
      /\ failed' \in [MetaId -> SUBSET EventKind] /\ masked' \in [MetaId -> SUBSET EventKind]
      /\ SeenTable' /\ SavedTable'
  BY <1>1, NoteStep, TableStays
<1>4. NothingOwedYet'
  BY <1>1, <1>2, <1>3 DEF HookInv, NothingOwedYet
<1>5. InsertedIsPast' /\ InsertedOnce' /\ RecordedIsInserted'
  BY <1>1, <1>3 DEF HookInv, InsertedIsPast, InsertedOnce, RecordedIsInserted
<1>6. HookTyped'
  BY <1>1, <1>2, <1>3 DEF HookInv, HookTyped
<1> QED
  BY <1>3, <1>4, <1>5, <1>6 DEF HookInv

LEMMA HookInvStep == HookInv /\ [HookNext]_hookVars => HookInv'
<1> SUFFICES ASSUME HookInv, [HookNext]_hookVars PROVE HookInv'
  OBVIOUS
<1>1. ASSUME NEW d \in MetaId, Arrive(d) \/ RecordMeta(d) \/ StartAudits(d) \/ ProxyForward(d)
      PROVE  HookInv'
  BY <1>1, ArriveStep, RecordMetaStep, StartAuditsStep, ProxyForwardStep
<1>2. ASSUME NEW d \in MetaId, NEW k \in AuditKind, AskJudge(d, k) \/ JudgeAnswers(d, k)
      PROVE  HookInv'
  BY <1>2, AskJudgeStep, JudgeAnswersStep
<1>3. CASE UNCHANGED hookVars
  <2>1. UNCHANGED <<meta, metaSaved, inserted, recorded, hookPc, audit, owed, failed, masked>>
    BY <1>3 DEF hookVars, observerVars, evidenceVars
  <2>2. HookTyped'
    BY <2>1 DEF HookInv, HookTyped
  <2>3. InsertedIsPast' /\ NothingOwedYet'
    BY <2>1 DEF HookInv, InsertedIsPast, NothingOwedYet
  <2> QED
    BY <2>1, <2>2, <2>3, TableStays DEF HookInv
<1> QED
  BY <1>1, <1>2, <1>3 DEF HookNext

-----------------------------------------------------------------------------
LEMMA HookInvKeepsEvidence == HookInv => TrailKeepsEvidence
<1> SUFFICES ASSUME HookInv, NEW i \in DOMAIN inserted
             PROVE  LET d == inserted[i]
                    IN  /\ Cardinality(RowsOf(d)) <= 1
                        /\ Keeps(i) => RowsOf(d) # {}
                        /\ \A r \in RowsOf(d) :
                             LET cot == meta[r].cot
                             IN  /\ \A j, k \in DOMAIN cot : cot[j].kind = cot[k].kind => j = k
                                 /\ KindsIn(cot) \subseteq owed[d]
                                 /\ Keeps(i) => owed[d] \subseteq KindsIn(cot) \cup failed[d] \cup masked[d]
  BY DEF TrailKeepsEvidence
<1> DEFINE d == inserted[i]
<1>1. d \in MetaId /\ Table(meta, inserted, recorded, owed, failed, masked)
  BY DEF HookInv, HookTyped, SeenTable
<1>2. Keeps(i) => Kept(inserted, recorded, d)
  BY DEF Keeps, Kept
<1> HIDE DEF d
<1>3. Cardinality(RowsOf(d)) <= 1
  <2>1. CASE RowsOf(d) = {}
    BY <2>1, FS_EmptySet
  <2>2. CASE RowsOf(d) # {}
    <3>1. PICK r \in RowsOf(d) : TRUE
      BY <2>2
    <3>2. RowsOf(d) = {r}
      BY <1>1, <3>1 DEF Table, Placed, RowsOf
    <3> QED
      BY <3>2, FS_Singleton
  <2> QED
    BY <2>1, <2>2
<1>4. Keeps(i) => RowsOf(d) # {}
  <2>1. Kept(inserted, recorded, d) => \E r \in DOMAIN meta : meta[r].id = d
    BY <1>1 DEF Table, Placed
  <2> QED
    BY <1>2, <2>1 DEF RowsOf
<1>5. ASSUME NEW r \in RowsOf(d)
      PROVE  /\ Once(meta[r].cot)
             /\ KindsIn(meta[r].cot) \subseteq owed[d]
             /\ Keeps(i) => owed[d] \subseteq KindsIn(meta[r].cot) \cup failed[d] \cup masked[d]
  <2>1. r \in DOMAIN meta /\ meta[r].id = d
    BY DEF RowsOf
  <2> QED
    BY <1>1, <1>2, <2>1 DEF Table, Tells
<1> QED
  BY <1>3, <1>4, <1>5 DEF Once, d

\* What recording, the audits' answers, trimming, errors and commits keep.
THEOREM HookInvariant == HookSpec => []HookInv
BY HookInvInit, HookInvStep, PTL DEF HookSpec

\* Observer.record, append_drift, append_semantic and _trim_locked: a decision
\* whose record committed and that is not pushed out has one row, whose trail has
\* each step that an answer of the judge called for exactly once, in whatever
\* order the audits ended, unless its append met an error or a marker that
\* something else in the trail names.
THEOREM HookTrailKeepsEvidence == HookSpec => []TrailKeepsEvidence
BY HookInvariant, HookInvKeepsEvidence, PTL

=============================================================================
