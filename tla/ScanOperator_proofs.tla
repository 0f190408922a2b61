------------------------ MODULE ScanOperator_proofs ------------------------
(***************************************************************************)
(* Proofs about the table scan, for every set of tables, list of           *)
(* predicates and size of the batches.                                     *)
(***************************************************************************)
EXTENDS ScanOperator, SequenceLemmas

-----------------------------------------------------------------------------
(* What Kept keeps *)

\* What is kept of each prefix of the rows.
KeptPrefixes(p, s) ==
  /\ p \in [0..Len(s) -> Seq(Row)] /\ p[0] = << >>
  /\ \A k \in 0..Len(s) - 1 :
       p[k + 1] = IF Satisfies(s[k + 1]) THEN Append(p[k], s[k + 1]) ELSE p[k]

LEMMA KeptByPrefix ==
  ASSUME NEW s \in Seq(Row)
  PROVE  \E p : KeptPrefixes(p, s) /\ p[Len(s)] = Kept(s)
<1> DEFINE n == Len(s)
           D == SUBSET DOMAIN s
           IsFold(it) == it = [x \in D |->
                                 IF x = {} THEN << >>
                                 ELSE IF Satisfies(s[Max(x)])
                                      THEN Append(it[x \ {Max(x)}], s[Max(x)])
                                      ELSE it[x \ {Max(x)}]]
           fold == CHOOSE it : IsFold(it)
           keep == [q \in Seq(Row) \X Row |->
                      IF Satisfies(q[2]) THEN Append(q[1], q[2]) ELSE q[1]]
<1>1. Kept(s) = fold[DOMAIN s]
  BY DEF Kept, FoldLeft, MapThenFoldSet
<1>2. n \in Nat /\ DOMAIN s = 1..n /\ \A i \in DOMAIN s : s[i] \in Row
  BY SequenceFacts
<1>3. keep \in [Seq(Row) \X Row -> Seq(Row)]
  BY AppendElements
<1>4. ASSUME NEW x \in D, x # {} PROVE Max(x) \in DOMAIN s /\ x \ {Max(x)} \in D
  <2>1. Max(x) \in x
    BY <1>2, <1>4, MaxInSet
  <2> QED BY <2>1
<1>5. PICK it \in [D -> Seq(Row)] : Folds(it, keep, << >>, s)
  <2>1. << >> \in Seq(Row)
    BY EmptyElements
  <2> HIDE DEF keep
  <2> QED BY <1>3, <2>1, FoldRecursion
<1>6. IsFold(it)
  <2> DEFINE r == [x \in D |-> IF x = {} THEN << >>
                               ELSE IF Satisfies(s[Max(x)])
                                    THEN Append(it[x \ {Max(x)}], s[Max(x)])
                                    ELSE it[x \ {Max(x)}]]
  <2>1. ASSUME NEW x \in D PROVE it[x] = r[x]
    <3>1. CASE x = {}
      BY <1>5, <3>1 DEF Folds
    <3>2. CASE x # {}
      <4>1. it[x \ {Max(x)}] \in Seq(Row) /\ s[Max(x)] \in Row
        BY <1>2, <1>4, <1>5, <3>2
      <4>2. it[x] = keep[<<it[x \ {Max(x)}], s[Max(x)]>>]
        BY <1>5, <3>2 DEF Folds
      <4> QED BY <4>1, <4>2, <3>2
    <3> QED BY <3>1, <3>2
  <2>2. it \in [D -> Seq(Row)] /\ r = [x \in D |-> r[x]]
    OBVIOUS
  <2> HIDE DEF r, D
  <2>3. it = r
    BY <2>1, <2>2
  <2> QED BY <2>3 DEF r
<1>7. IsFold(fold)
  <2> HIDE DEF IsFold
  <2> QED BY <1>6
<1> HIDE DEF fold
<1> DEFINE p == [k \in 0..n |-> it[1..k]]
<1>8. p \in [0..n -> Seq(Row)] /\ Accumulates(p, keep, << >>, s) /\ p[n] = it[DOMAIN s]
  <2> HIDE DEF keep
  <2>1. FoldsIn(Seq(Row), it, keep, << >>, s)
    BY <1>5 DEF FoldsIn
  <2>2. p = [k \in 0..Len(s) |-> it[1..k]]
    OBVIOUS
  <2> HIDE DEF p
  <2> QED BY <2>1, <2>2, FoldPrefixes
<1>9. \A k \in 0..n : fold[1..k] = p[k]
  <2> DEFINE G == {k \in Nat : k <= n => fold[1..k] = it[1..k]}
  <2>1. 0 \in G
    <3>1. 1..0 = {} /\ {} \in D
      OBVIOUS
    <3>2. fold[{}] = << >> /\ it[{}] = << >>
      BY <1>6, <1>7, <3>1
    <3> QED BY <3>1, <3>2
  <2>2. ASSUME NEW k \in G PROVE k + 1 \in G
    <3>1. SUFFICES ASSUME k + 1 <= n PROVE fold[1..k + 1] = it[1..k + 1]
      OBVIOUS
    <3>2. k \in Nat /\ 1..k + 1 \in D /\ fold[1..k] = it[1..k]
      BY <1>2, <3>1
    <3>3. 1..k + 1 # {} /\ Max(1..k + 1) = k + 1 /\ (1..k + 1) \ {k + 1} = 1..k
      BY <3>2, MaxOfPrefix
    <3>4. ASSUME NEW g, IsFold(g)
          PROVE  g[1..k + 1] = IF Satisfies(s[k + 1]) THEN Append(g[1..k], s[k + 1]) ELSE g[1..k]
      <4> DEFINE x == 1..k + 1
      <4> HIDE DEF x
      <4>1. x \in D /\ x # {} /\ Max(x) = k + 1 /\ x \ {Max(x)} = 1..k
        BY <3>2, <3>3 DEF x
      <4>2. g[x] = IF x = {} THEN << >>
                   ELSE IF Satisfies(s[Max(x)]) THEN Append(g[x \ {Max(x)}], s[Max(x)])
                   ELSE g[x \ {Max(x)}]
        BY <3>4, <4>1
      <4> QED BY <4>1, <4>2 DEF x
    <3> HIDE DEF IsFold
    <3> QED BY <1>6, <1>7, <3>2, <3>4
  <2> HIDE DEF G
  <2>3. G = Nat
    <3>1. G \in SUBSET Nat
      BY DEF G
    <3> QED BY <2>1, <2>2, <3>1, SetInduction
  <2> QED BY <1>2, <2>3 DEF G
<1>10. ASSUME NEW k \in 0..n - 1
       PROVE  p[k + 1] = IF Satisfies(s[k + 1]) THEN Append(p[k], s[k + 1]) ELSE p[k]
  <2>1. p[k + 1] = keep[<<p[k], s[k + 1]>>]
    <3> HIDE DEF keep, p
    <3> QED BY <1>8 DEF Accumulates
  <2>2. k \in 0..n /\ k + 1 \in DOMAIN s
    BY <1>2
  <2>3. p[k] \in Seq(Row) /\ s[k + 1] \in Row
    <3> HIDE DEF p
    <3> QED BY <1>2, <1>8, <2>2
  <2> HIDE DEF p
  <2> QED BY <2>1, <2>3
<1>11. p[n] = Kept(s) /\ p[0] = << >>
  <2>1. n \in 0..n /\ 1..n = DOMAIN s
    BY <1>2
  <2> HIDE DEF p, keep, IsFold
  <2> QED BY <1>1, <1>8, <1>9, <2>1 DEF Accumulates
<1> HIDE DEF p, keep, IsFold
<1> QED BY <1>8, <1>10, <1>11 DEF KeptPrefixes

\* What is kept follows from the predicates.
LEMMA KeptUnchanged ==
  ASSUME NEW s, predicates' = predicates
  PROVE  Kept(s)' = Kept(s)
  BY DEF Kept, FoldLeft, MapThenFoldSet, Satisfies, Holds

\* Kept keeps the rows that satisfy the predicates, and no other.
LEMMA KeptElements ==
  ASSUME NEW s \in Seq(Row)
  PROVE  /\ Kept(s) \in Seq(Row)
         /\ \A row : row \in ToSet(Kept(s)) <=> row \in ToSet(s) /\ Satisfies(row)
<1> DEFINE n == Len(s)
<1>1. n \in Nat /\ DOMAIN s = 1..n /\ \A i \in 1..n : s[i] \in Row
  BY SequenceFacts
<1>2. PICK p : KeptPrefixes(p, s) /\ p[n] = Kept(s)
  BY KeptByPrefix
<1> DEFINE Right(k) == \A row : row \in ToSet(p[k]) <=>
                         \E i \in 1..k : s[i] = row /\ Satisfies(row)
           G == {k \in Nat : k <= n => Right(k)}
<1>3. 0 \in G
  BY <1>2, EmptyElements DEF KeptPrefixes
<1>4. ASSUME NEW k \in G PROVE k + 1 \in G
  <2>1. SUFFICES ASSUME k + 1 <= n PROVE Right(k + 1)
    BY <1>4
  <2>2. k \in Nat /\ k \in 0..n - 1 /\ k \in 0..n /\ Right(k) /\ s[k + 1] \in Row
    BY <1>1, <2>1
  <2>3. /\ p[k] \in Seq(Row)
        /\ p[k + 1] = IF Satisfies(s[k + 1]) THEN Append(p[k], s[k + 1]) ELSE p[k]
    BY <1>2, <2>2 DEF KeptPrefixes
  <2>4. ToSet(Append(p[k], s[k + 1])) = ToSet(p[k]) \cup {s[k + 1]}
    BY <2>2, <2>3, AppendElements
  <2>5. \A row : row \in ToSet(p[k + 1]) <=>
                   row \in ToSet(p[k]) \/ (row = s[k + 1] /\ Satisfies(row))
    BY <2>3, <2>4
  <2>6. \A i \in 1..k + 1 : i \in 1..k \/ i = k + 1
    BY <2>2
  <2>7. 1..k \subseteq 1..k + 1 /\ k + 1 \in 1..k + 1
    BY <2>2
  <2> QED BY <2>2, <2>5, <2>6, <2>7
<1> HIDE DEF G, Right
<1>5. G = Nat
  <2>1. G \in SUBSET Nat
    BY DEF G
  <2> QED BY <1>3, <1>4, <2>1, SetInduction
<1>6. Right(n)
  BY <1>1, <1>5 DEF G
<1>7. ToSet(s) = {s[i] : i \in 1..n}
  BY SequenceFacts
<1>8. Kept(s) \in Seq(Row)
  BY <1>1, <1>2 DEF KeptPrefixes
<1> QED BY <1>2, <1>6, <1>7, <1>8 DEF Right

\* One prefix after the other: what is kept of a prefix does not depend on what follows.
LEMMA KeptConcat ==
  ASSUME NEW s \in Seq(Row), NEW t \in Seq(Row)
  PROVE  Kept(s \o t) = Kept(s) \o Kept(t)
<1> DEFINE m == Len(s)
           n == Len(t)
           u == s \o t
<1>1. /\ m \in Nat /\ n \in Nat /\ u \in Seq(Row) /\ Len(u) = m + n
      /\ \A k \in 0..m - 1 : u[k + 1] = s[k + 1]
      /\ \A k \in 0..n - 1 : u[m + k + 1] = t[k + 1]
  <2>1. m \in Nat /\ n \in Nat
    BY SequenceFacts
  <2>2. /\ u \in Seq(Row) /\ Len(u) = m + n
        /\ \A i \in 1..m + n : u[i] = IF i <= m THEN s[i] ELSE t[i - m]
    BY ConcatProperties
  <2> HIDE DEF m, n, u
  <2>3. \A k \in 0..m - 1 : u[k + 1] = s[k + 1]
    BY <2>1, <2>2
  <2>4. ASSUME NEW k \in 0..n - 1 PROVE u[m + k + 1] = t[k + 1]
    <3>1. PICK i \in 1..m + n : i = m + k + 1 /\ ~ (i <= m) /\ i - m = k + 1
      BY <2>1
    <3>2. u[i] = t[i - m]
      BY <2>2, <3>1
    <3> QED BY <3>1, <3>2
  <2> QED BY <2>1, <2>2, <2>3, <2>4
<1>2. PICK p : KeptPrefixes(p, u) /\ p[m + n] = Kept(u)
  BY <1>1, KeptByPrefix
<1>3. PICK q : KeptPrefixes(q, s) /\ q[m] = Kept(s)
  BY KeptByPrefix
<1>4. PICK r : KeptPrefixes(r, t) /\ r[n] = Kept(t)
  BY KeptByPrefix
<1> HIDE DEF m, n, u
<1>5. /\ p[0] = << >> /\ q[0] = << >> /\ r[0] = << >>
      /\ p \in [0..m + n -> Seq(Row)] /\ r \in [0..n -> Seq(Row)]
      /\ \A k \in 0..m + n - 1 :
           p[k + 1] = IF Satisfies(u[k + 1]) THEN Append(p[k], u[k + 1]) ELSE p[k]
      /\ \A k \in 0..m - 1 :
           q[k + 1] = IF Satisfies(s[k + 1]) THEN Append(q[k], s[k + 1]) ELSE q[k]
      /\ \A k \in 0..n - 1 :
           r[k + 1] = IF Satisfies(t[k + 1]) THEN Append(r[k], t[k + 1]) ELSE r[k]
  BY <1>1, <1>2, <1>3, <1>4 DEF KeptPrefixes, m, n
<1>6. p[m] = q[m]
  <2> DEFINE G == {k \in Nat : k <= m => p[k] = q[k]}
  <2>1. 0 \in G
    BY <1>5
  <2>2. ASSUME NEW k \in G PROVE k + 1 \in G
    <3>1. SUFFICES ASSUME k + 1 <= m PROVE p[k + 1] = q[k + 1]
      BY <2>2
    <3>2. k \in 0..m - 1 /\ k \in 0..m + n - 1 /\ p[k] = q[k]
      BY <1>1, <2>2, <3>1
    <3>3. u[k + 1] = s[k + 1]
      BY <1>1, <3>2
    <3> QED BY <1>5, <3>2, <3>3
  <2> HIDE DEF G
  <2>3. G = Nat
    <3>1. G \in SUBSET Nat
      BY DEF G
    <3> QED BY <2>1, <2>2, <3>1, SetInduction
  <2> QED BY <1>1, <2>3 DEF G
<1>7. p[m] \in Seq(Row)
  <2>1. m \in 0..m + n
    BY <1>1
  <2> QED BY <1>5, <2>1
<1> DEFINE c == [k \in 0..n |-> p[m] \o r[k]]
           d == [k \in 0..n |-> p[m + k]]
<1>8. c[0] = d[0]
  <2>1. m + 0 = m /\ 0 \in 0..n
    BY <1>1
  <2>2. p[m] \o << >> = p[m]
    BY <1>7, ConcatEmptySeq
  <2>3. c[0] = p[m] \o r[0] /\ d[0] = p[m]
    BY <2>1
  <2> QED BY <1>5, <2>2, <2>3
<1>9. ASSUME NEW k \in 0..n - 1
      PROVE  /\ d[k + 1] = IF Satisfies(t[k + 1]) THEN Append(d[k], t[k + 1]) ELSE d[k]
             /\ c[k + 1] = IF Satisfies(t[k + 1]) THEN Append(c[k], t[k + 1]) ELSE c[k]
  <2>1. /\ k \in 0..n /\ k + 1 \in 0..n /\ m + k \in 0..m + n - 1
        /\ m + (k + 1) = m + k + 1 /\ k + 1 \in 1..Len(t)
    BY <1>1 DEF n
  <2>2. t[k + 1] \in Row
    BY <2>1, SequenceFacts
  <2>3. d[k] = p[m + k] /\ d[k + 1] = p[m + k + 1]
    BY <2>1
  <2>4. d[k + 1] = IF Satisfies(t[k + 1]) THEN Append(d[k], t[k + 1]) ELSE d[k]
    <3> HIDE DEF d
    <3> QED BY <1>1, <1>5, <2>1, <2>3
  <2>5. r[k] \in Seq(Row) /\ r[k + 1] = IF Satisfies(t[k + 1]) THEN Append(r[k], t[k + 1]) ELSE r[k]
    BY <1>5, <2>1
  <2>6. Append(p[m] \o r[k], t[k + 1]) = p[m] \o Append(r[k], t[k + 1])
    <3>1. <<t[k + 1]>> \in Seq(Row)
      BY <2>2
    <3>2. p[m] \o r[k] \in Seq(Row)
      BY <1>7, <2>5, ConcatProperties
    <3>3. /\ Append(p[m] \o r[k], t[k + 1]) = (p[m] \o r[k]) \o <<t[k + 1]>>
          /\ Append(r[k], t[k + 1]) = r[k] \o <<t[k + 1]>>
      BY <2>2, <2>5, <3>2, AppendIsConcat
    <3>4. (p[m] \o r[k]) \o <<t[k + 1]>> = p[m] \o (r[k] \o <<t[k + 1]>>)
      <4>1. ASSUME NEW v \in Seq(Row), NEW w \in Seq(Row), NEW x \in Seq(Row)
            PROVE  (v \o w) \o x = v \o (w \o x)
        BY ConcatAssociative, SMTT(30)
      <4> QED BY <1>7, <2>5, <3>1, <4>1, ZenonT(30)
    <3> QED BY <3>3, <3>4
  <2>7. c[k] = p[m] \o r[k] /\ c[k + 1] = p[m] \o r[k + 1]
    BY <2>1
  <2>8. c[k + 1] = IF Satisfies(t[k + 1]) THEN Append(c[k], t[k + 1]) ELSE c[k]
    <3> HIDE DEF c
    <3>1. CASE Satisfies(t[k + 1])
      BY <2>5, <2>6, <2>7, <3>1
    <3>2. CASE ~ Satisfies(t[k + 1])
      BY <2>5, <2>7, <3>2
    <3> QED BY <3>1, <3>2
  <2> QED BY <2>4, <2>8
<1> HIDE DEF c, d
<1>10. d[n] = c[n]
  <2> DEFINE G == {k \in Nat : k <= n => d[k] = c[k]}
  <2>1. 0 \in G
    BY <1>8
  <2>2. ASSUME NEW k \in G PROVE k + 1 \in G
    <3>1. SUFFICES ASSUME k + 1 <= n PROVE d[k + 1] = c[k + 1]
      BY <2>2
    <3>2. k \in 0..n - 1 /\ d[k] = c[k]
      BY <1>1, <2>2, <3>1
    <3> QED BY <1>9, <3>2
  <2> HIDE DEF G
  <2>3. G = Nat
    <3>1. G \in SUBSET Nat
      BY DEF G
    <3> QED BY <2>1, <2>2, <3>1, SetInduction
  <2> QED BY <1>1, <2>3 DEF G
<1>11. p[m + n] = p[m] \o r[n]
  <2>1. n \in 0..n
    BY <1>1
  <2>2. d[n] = p[m + n] /\ c[n] = p[m] \o r[n]
    BY <2>1 DEF c, d
  <2> QED BY <1>10, <2>2
<1> QED BY <1>2, <1>3, <1>4, <1>6, <1>11 DEF u

LEMMA KeptEmpty == Kept(<< >>) = << >>
<1>1. << >> \in Seq(Row) /\ Len(<< >>) = 0
  BY EmptyElements
<1>2. PICK p : KeptPrefixes(p, << >>) /\ p[Len(<< >>)] = Kept(<< >>)
  BY <1>1, KeptByPrefix
<1> QED BY <1>1, <1>2 DEF KeptPrefixes

-----------------------------------------------------------------------------
(* The rows of the table, block by block *)

\* What is kept of the first k blocks.
KeptBlocks(w) ==
  /\ w \in [0..NumBlocks -> Seq(Row)] /\ w[0] = << >>
  /\ \A b \in 0..NumBlocks - 1 : w[b + 1] = w[b] \o Decoded(b)

\* The first k blocks, one after the other.
FirstBlocks(f) ==
  /\ f \in [0..NumBlocks -> Seq(Row)] /\ f[0] = << >>
  /\ \A b \in 0..NumBlocks - 1 : f[b + 1] = f[b] \o table[b + 1]

LEMMA TableByBlock ==
  ASSUME table \in Seq(Seq(Row))
  PROVE  \E f : FirstBlocks(f) /\ f[NumBlocks] = AllRows
  BY FlatPrefixes DEF FlatSoFar, FirstBlocks, NumBlocks, AllRows

\* What is kept of all the blocks is what is kept of the table.
LEMMA KeptTable ==
  ASSUME table \in Seq(Seq(Row))
  PROVE  /\ \E w : KeptBlocks(w)
         /\ \A w : KeptBlocks(w) => w[NumBlocks] = Kept(AllRows)
<1> DEFINE n == NumBlocks
<1>1. n \in Nat /\ \A i \in 1..n : table[i] \in Seq(Row)
  BY SequenceFacts DEF NumBlocks
<1>2. PICK f : FirstBlocks(f) /\ f[n] = AllRows
  BY TableByBlock
<1> HIDE DEF n
<1>3. /\ f \in [0..n -> Seq(Row)] /\ f[0] = << >>
      /\ \A b \in 0..n - 1 : f[b + 1] = f[b] \o table[b + 1]
  BY <1>2 DEF FirstBlocks, n
<1> DEFINE v == [k \in 0..n |-> Kept(f[k])]
<1>4. v \in [0..n -> Seq(Row)] /\ v[0] = << >>
  <2>1. \A k \in 0..n : Kept(f[k]) \in Seq(Row)
    BY <1>3, KeptElements
  <2>2. 0 \in 0..n
    BY <1>1
  <2> QED BY <1>3, <2>1, <2>2, KeptEmpty
<1>5. ASSUME NEW b \in 0..n - 1 PROVE v[b + 1] = v[b] \o Decoded(b)
  <2>1. b \in 0..n /\ b + 1 \in 0..n /\ b + 1 \in 1..n
    BY <1>1
  <2>2. f[b] \in Seq(Row) /\ table[b + 1] \in Seq(Row)
    BY <1>1, <1>3, <2>1
  <2>3. Kept(f[b] \o table[b + 1]) = Kept(f[b]) \o Kept(table[b + 1])
    BY <2>2, KeptConcat
  <2>4. v[b + 1] = Kept(f[b + 1]) /\ v[b] = Kept(f[b])
    BY <2>1
  <2>5. f[b + 1] = f[b] \o table[b + 1]
    BY <1>3
  <2> HIDE DEF v
  <2> QED BY <2>3, <2>4, <2>5 DEF Decoded
<1>6. v[n] = Kept(AllRows)
  BY <1>1, <1>2
<1> HIDE DEF v
<1>7. KeptBlocks(v)
  BY <1>4, <1>5 DEF KeptBlocks, n
<1>8. ASSUME NEW w, KeptBlocks(w) PROVE w[n] = v[n]
  <2> DEFINE G == {k \in Nat : k <= n => w[k] = v[k]}
  <2>1. 0 \in G
    BY <1>4, <1>8 DEF KeptBlocks
  <2>2. ASSUME NEW k \in G PROVE k + 1 \in G
    <3>1. SUFFICES ASSUME k + 1 <= n PROVE w[k + 1] = v[k + 1]
      BY <2>2
    <3>2. k \in 0..n - 1 /\ w[k] = v[k]
      BY <1>1, <2>2, <3>1
    <3>3. w[k + 1] = w[k] \o Decoded(k)
      BY <1>8, <3>2 DEF KeptBlocks, n
    <3> QED BY <1>5, <3>2, <3>3
  <2> HIDE DEF G
  <2>3. G = Nat
    <3>1. G \in SUBSET Nat
      BY DEF G
    <3> QED BY <2>1, <2>2, <3>1, SetInduction
  <2> QED BY <1>1, <2>3 DEF G
<1> QED BY <1>6, <1>7, <1>8 DEF n

Begins(v, u) == Len(v) <= Len(u) /\ \A i \in 1..Len(v) : u[i] = v[i]

\* What is kept of some blocks begins what is kept of more of them.
LEMMA BlocksGrow ==
  ASSUME table \in Seq(Seq(Row)), NEW w, KeptBlocks(w), NEW b \in 0..NumBlocks
  PROVE  \A k \in b..NumBlocks : Begins(w[b], w[k])
<1> DEFINE n == NumBlocks
<1>1. n \in Nat /\ \A i \in 1..n : table[i] \in Seq(Row)
  BY SequenceFacts DEF NumBlocks
<1>2. /\ w \in [0..n -> Seq(Row)]
      /\ \A k \in 0..n - 1 : w[k + 1] = w[k] \o Decoded(k)
      /\ b \in 0..n
  BY DEF KeptBlocks
<1> HIDE DEF n
<1> DEFINE G == {d \in Nat : b + d <= n => Begins(w[b], w[b + d])}
<1>3. 0 \in G
  <2>1. b + 0 = b /\ Len(w[b]) \in Nat
    BY <1>2, SequenceFacts
  <2> QED BY <2>1 DEF Begins
<1>4. ASSUME NEW d \in G PROVE d + 1 \in G
  <2>1. SUFFICES ASSUME b + (d + 1) <= n PROVE Begins(w[b], w[b + (d + 1)])
    BY <1>4
  <2>2. PICK k \in 0..n - 1 : k = b + d /\ b + (d + 1) = k + 1
    BY <1>1, <1>2, <1>4, <2>1
  <2>3. k \in 0..n /\ k + 1 \in 1..n
    BY <1>1
  <2>4. Begins(w[b], w[k])
    BY <1>1, <1>4, <2>1, <2>2
  <2>5. w[k] \in Seq(Row) /\ w[b] \in Seq(Row) /\ Decoded(k) \in Seq(Row)
    BY <1>1, <1>2, <2>3, KeptElements DEF Decoded
  <2>6. /\ Len(w[k] \o Decoded(k)) = Len(w[k]) + Len(Decoded(k))
        /\ \A i \in 1..Len(w[k]) + Len(Decoded(k)) :
             (w[k] \o Decoded(k))[i] = IF i <= Len(w[k]) THEN w[k][i] ELSE Decoded(k)[i - Len(w[k])]
    BY <2>5, ConcatProperties
  <2>7. Len(w[k]) \in Nat /\ Len(w[b]) \in Nat /\ Len(Decoded(k)) \in Nat
    BY <2>5, SequenceFacts
  <2>8. Begins(w[b], w[k] \o Decoded(k))
    BY <2>4, <2>6, <2>7 DEF Begins
  <2> QED BY <1>2, <2>2, <2>8
<1> HIDE DEF G
<1>5. G = Nat
  <2>1. G \in SUBSET Nat
    BY DEF G
  <2> QED BY <1>3, <1>4, <2>1, SetInduction
<1>6. ASSUME NEW k \in b..n PROVE Begins(w[b], w[k])
  <2>1. PICK d \in Nat : b + d = k /\ b + d <= n
    <3>1. k - b \in Nat /\ b + (k - b) = k /\ k <= n
      BY <1>1, <1>2
    <3> QED BY <3>1
  <2> QED BY <1>5, <2>1 DEF G
<1> QED BY <1>6 DEF n

\* The rows kept of a block are among those kept of the blocks up to it.
LEMMA BlockWithin ==
  ASSUME table \in Seq(Seq(Row)), NEW w, KeptBlocks(w), NEW k \in 0..NumBlocks,
         NEW b \in 0..k - 1
  PROVE  ToSet(Decoded(b)) \subseteq ToSet(w[k])
<1> DEFINE n == NumBlocks
<1>1. n \in Nat /\ \A i \in 1..n : table[i] \in Seq(Row)
  BY SequenceFacts DEF NumBlocks
<1>2. /\ w \in [0..n -> Seq(Row)]
      /\ \A i \in 0..n - 1 : w[i + 1] = w[i] \o Decoded(i)
      /\ k \in 0..n
  BY DEF KeptBlocks
<1> HIDE DEF n
<1>3. b \in 0..n /\ b \in 0..n - 1 /\ b + 1 \in 0..n /\ b + 1 \in 1..n /\ k \in b + 1..n
  BY <1>1, <1>2
<1>4. w[b] \in Seq(Row) /\ w[b + 1] \in Seq(Row) /\ w[k] \in Seq(Row) /\ Decoded(b) \in Seq(Row)
  BY <1>1, <1>2, <1>3, KeptElements DEF Decoded
<1>5. ToSet(Decoded(b)) \subseteq ToSet(w[b + 1])
  <2>1. ASSUME NEW u \in Seq(Row), NEW v \in Seq(Row) PROVE ToSet(v) \subseteq ToSet(u \o v)
    BY ConcatElements
  <2>2. w[b + 1] = w[b] \o Decoded(b)
    BY <1>2, <1>3
  <2> QED BY <1>4, <2>1, <2>2
<1>6. Begins(w[b + 1], w[k])
  BY <1>3, BlocksGrow DEF n
<1>7. /\ ToSet(w[b + 1]) = {w[b + 1][i] : i \in 1..Len(w[b + 1])}
      /\ ToSet(w[k]) = {w[k][i] : i \in 1..Len(w[k])}
      /\ Len(w[b + 1]) \in Nat /\ Len(w[k]) \in Nat
  BY <1>4, SequenceFacts
<1>8. ToSet(w[b + 1]) \subseteq ToSet(w[k])
  <2>1. \A i \in 1..Len(w[b + 1]) : i \in 1..Len(w[k])
    BY <1>6, <1>7 DEF Begins
  <2> QED BY <1>6, <1>7, <2>1 DEF Begins
<1> QED BY <1>5, <1>8

\* Blocks of which nothing is kept add nothing.
LEMMA NothingKept ==
  ASSUME table \in Seq(Seq(Row)), NEW w, KeptBlocks(w), NEW k \in 0..NumBlocks,
         \A b \in 0..k - 1 : Decoded(b) = << >>
  PROVE  w[k] = << >>
<1> DEFINE n == NumBlocks
<1>1. n \in Nat
  BY SequenceFacts DEF NumBlocks
<1>2. /\ w \in [0..n -> Seq(Row)] /\ w[0] = << >>
      /\ \A i \in 0..n - 1 : w[i + 1] = w[i] \o Decoded(i)
      /\ k \in 0..n
  BY DEF KeptBlocks
<1> HIDE DEF n
<1> DEFINE G == {j \in Nat : j <= k => w[j] = << >>}
<1>3. 0 \in G
  BY <1>2
<1>4. ASSUME NEW j \in G PROVE j + 1 \in G
  <2>1. SUFFICES ASSUME j + 1 <= k PROVE w[j + 1] = << >>
    BY <1>4
  <2>2. j \in 0..n - 1 /\ j \in 0..k - 1 /\ w[j] = << >>
    BY <1>1, <1>2, <1>4, <2>1
  <2>3. w[j + 1] = << >> \o << >>
    BY <1>2, <2>2
  <2>4. << >> \o << >> = << >>
    BY EmptyElements, ConcatEmptySeq
  <2> QED BY <2>3, <2>4
<1> HIDE DEF G
<1>5. G = Nat
  <2>1. G \in SUBSET Nat
    BY DEF G
  <2> QED BY <1>3, <1>4, <2>1, SetInduction
<1> QED BY <1>2, <1>5 DEF G

-----------------------------------------------------------------------------
(* The bounds *)

PredicateType == [op : Operators, value : Int]

BoundType == [value : Int, inclusive : BOOLEAN]

MaybeBound == BoundType \cup {NoBound}

\* The bound on one side after each of the predicates.
BoundPrefixes(p, side) ==
  /\ p \in [0..Len(predicates) -> MaybeBound] /\ p[0] = NoBound
  /\ \A k \in 0..Len(predicates) - 1 : p[k + 1] = Narrowed(side, p[k], predicates[k + 1])

LEMMA NarrowedType ==
  ASSUME NEW side, NEW e \in MaybeBound, NEW q \in PredicateType
  PROVE  Narrowed(side, e, q) \in MaybeBound
<1>1. Bound(q) \in BoundType
  BY DEF Bound, BoundType, PredicateType
<1>2. ASSUME e # NoBound
      PROVE  [value |-> e.value, inclusive |-> e.inclusive /\ Bound(q).inclusive] \in BoundType
  <2>1. e.value \in Int /\ e.inclusive \in BOOLEAN /\ Bound(q).inclusive \in BOOLEAN
    BY <1>1, <1>2 DEF BoundType, MaybeBound
  <2> QED BY <2>1 DEF BoundType
<1> QED BY <1>1, <1>2 DEF Narrowed, Tighter, MaybeBound

LEMMA BoundByPrefix ==
  ASSUME NEW side, predicates \in Seq(PredicateType)
  PROVE  \E p : BoundPrefixes(p, side) /\ p[Len(predicates)] = BoundOn(side)
<1>1. PICK s \in Seq(PredicateType) : s = predicates
  OBVIOUS
<1> DEFINE n == Len(s)
           D == SUBSET DOMAIN s
           IsFold(it) == it = [x \in D |->
                                 IF x = {} THEN NoBound
                                 ELSE Narrowed(side, it[x \ {Max(x)}], s[Max(x)])]
           fold == CHOOSE it : IsFold(it)
           narrow == [q \in MaybeBound \X PredicateType |->
                        Narrowed(side, q[1], q[2])]
<1>2. BoundOn(side) = fold[DOMAIN s]
  BY <1>1 DEF BoundOn, FoldLeft, MapThenFoldSet
<1>3. n \in Nat /\ DOMAIN s = 1..n /\ \A i \in DOMAIN s : s[i] \in PredicateType
  BY SequenceFacts
<1>4. narrow \in [MaybeBound \X PredicateType -> MaybeBound]
  BY NarrowedType
<1>5. ASSUME NEW x \in D, x # {} PROVE Max(x) \in DOMAIN s /\ x \ {Max(x)} \in D
  <2>1. Max(x) \in x
    BY <1>3, <1>5, MaxInSet
  <2> QED BY <2>1
<1>6. PICK it \in [D -> MaybeBound] : Folds(it, narrow, NoBound, s)
  <2>1. NoBound \in MaybeBound
    BY DEF MaybeBound
  <2> HIDE DEF narrow
  <2> QED BY <1>4, <2>1, FoldRecursion
<1>7. IsFold(it)
  <2> DEFINE r == [x \in D |-> IF x = {} THEN NoBound
                               ELSE Narrowed(side, it[x \ {Max(x)}], s[Max(x)])]
  <2>1. ASSUME NEW x \in D PROVE it[x] = r[x]
    <3>1. CASE x = {}
      BY <1>6, <3>1 DEF Folds
    <3>2. CASE x # {}
      <4>1. it[x \ {Max(x)}] \in MaybeBound /\ s[Max(x)] \in PredicateType
        BY <1>3, <1>5, <1>6, <3>2
      <4>2. it[x] = narrow[<<it[x \ {Max(x)}], s[Max(x)]>>]
        BY <1>6, <3>2 DEF Folds
      <4> QED BY <4>1, <4>2, <3>2
    <3> QED BY <3>1, <3>2
  <2>2. it = [x \in D |-> it[x]] /\ r = [x \in D |-> r[x]]
    BY <1>6
  <2> HIDE DEF r, D
  <2>3. it = r
    BY <2>1, <2>2
  <2> QED BY <2>3 DEF r
<1>8. IsFold(fold)
  <2> HIDE DEF IsFold
  <2> QED BY <1>7
<1> HIDE DEF fold
<1> DEFINE p == [k \in 0..n |-> it[1..k]]
<1>9. /\ p \in [0..n -> MaybeBound] /\ Accumulates(p, narrow, NoBound, s)
      /\ p[n] = it[DOMAIN s]
  <2> HIDE DEF narrow
  <2>1. FoldsIn(MaybeBound, it, narrow, NoBound, s)
    BY <1>6 DEF FoldsIn
  <2>2. p = [k \in 0..Len(s) |-> it[1..k]]
    OBVIOUS
  <2> HIDE DEF p
  <2> QED BY <2>1, <2>2, FoldPrefixes
<1>10. \A k \in 0..n : fold[1..k] = p[k]
  <2> DEFINE G == {k \in Nat : k <= n => fold[1..k] = it[1..k]}
  <2>1. 0 \in G
    <3>1. 1..0 = {} /\ {} \in D
      OBVIOUS
    <3>2. fold[{}] = NoBound /\ it[{}] = NoBound
      BY <1>7, <1>8, <3>1
    <3> QED BY <3>1, <3>2
  <2>2. ASSUME NEW k \in G PROVE k + 1 \in G
    <3>1. SUFFICES ASSUME k + 1 <= n PROVE fold[1..k + 1] = it[1..k + 1]
      OBVIOUS
    <3>2. k \in Nat /\ 1..k + 1 \in D /\ fold[1..k] = it[1..k]
      BY <1>3, <3>1
    <3>3. 1..k + 1 # {} /\ Max(1..k + 1) = k + 1 /\ (1..k + 1) \ {k + 1} = 1..k
      BY <3>2, MaxOfPrefix
    <3>4. ASSUME NEW g, IsFold(g) PROVE g[1..k + 1] = Narrowed(side, g[1..k], s[k + 1])
      BY <3>2, <3>3, <3>4
    <3> HIDE DEF IsFold
    <3> QED BY <1>7, <1>8, <3>2, <3>4
  <2> HIDE DEF G
  <2>3. G = Nat
    <3>1. G \in SUBSET Nat
      BY DEF G
    <3> QED BY <2>1, <2>2, <3>1, SetInduction
  <2> QED BY <1>3, <2>3 DEF G
<1>11. ASSUME NEW k \in 0..n - 1 PROVE p[k + 1] = Narrowed(side, p[k], s[k + 1])
  <2>1. p[k + 1] = narrow[<<p[k], s[k + 1]>>]
    <3> HIDE DEF narrow, p
    <3> QED BY <1>9 DEF Accumulates
  <2>2. k \in 0..n /\ k + 1 \in DOMAIN s
    BY <1>3
  <2>3. p[k] \in MaybeBound /\ s[k + 1] \in PredicateType
    <3> HIDE DEF p
    <3> QED BY <1>3, <1>9, <2>2
  <2> HIDE DEF p
  <2> QED BY <2>1, <2>3
<1>12. p[n] = BoundOn(side) /\ p[0] = NoBound
  <2>1. n \in 0..n /\ 1..n = DOMAIN s
    BY <1>3
  <2> HIDE DEF p, narrow, IsFold
  <2> QED BY <1>2, <1>9, <1>10, <2>1 DEF Accumulates
<1> HIDE DEF p, narrow, IsFold
<1>13. BoundPrefixes(p, side)
  BY <1>1, <1>9, <1>11, <1>12 DEF BoundPrefixes
<1> QED BY <1>1, <1>12, <1>13

\* A key that the bound of that side rules out.
Beyond(side, key, bound) ==
  IF side = "lower" THEN StrictlyBefore(key, bound) ELSE StrictlyAfter(key, bound)

\* A bound and a predicate narrow to the bound of both.
LEMMA NarrowedBeyond ==
  ASSUME ScanAssumption, NEW side \in {"lower", "upper"},
         NEW e \in BoundType, NEW q \in PredicateType, q.op \in Bounding(side)
  PROVE  /\ Narrowed(side, e, q) \in BoundType
         /\ \A key \in Int : Beyond(side, key, Narrowed(side, e, q)) <=>
                               Beyond(side, key, e) \/ Beyond(side, key, Bound(q))
<1> DEFINE c == Bound(q)
           d == Narrowed(side, e, q)
<1>1. /\ c \in BoundType /\ c.value = q.value /\ c.value \in Int /\ c.inclusive \in BOOLEAN
      /\ e.value \in Int /\ e.inclusive \in BOOLEAN /\ e # NoBound
  BY DEF Bound, BoundType, PredicateType, ScanAssumption
<1>2. d = IF Within(side, c.value, e.value) THEN c
          ELSE IF e.value = c.value
               THEN [value |-> e.value, inclusive |-> e.inclusive /\ c.inclusive]
               ELSE e
  BY <1>1 DEF Narrowed, Tighter
<1> HIDE DEF c, d
<1>3. d \in BoundType
  BY <1>1, <1>2 DEF BoundType
<1>4. ASSUME NEW key \in Int
      PROVE  Beyond(side, key, d) <=> Beyond(side, key, e) \/ Beyond(side, key, c)
  <2>1. CASE Within(side, c.value, e.value)
    BY <1>1, <1>2, <2>1 DEF Beyond, StrictlyBefore, StrictlyAfter, Within
  <2>2. CASE ~ Within(side, c.value, e.value) /\ e.value = c.value
    <3>1. d.value = e.value /\ d.inclusive = (e.inclusive /\ c.inclusive)
      BY <1>2, <2>2
    <3> QED BY <1>1, <3>1, <2>2 DEF Beyond, StrictlyBefore, StrictlyAfter
  <2>3. CASE ~ Within(side, c.value, e.value) /\ e.value # c.value
    BY <1>1, <1>2, <2>3 DEF Beyond, StrictlyBefore, StrictlyAfter, Within
  <2> QED BY <2>1, <2>2, <2>3
<1> QED BY <1>3, <1>4 DEF c, d

\* The bound on one side rules out what one of the predicates that bound it rules out.
LEMMA BoundRulesOut ==
  ASSUME ScanAssumption, NEW side \in {"lower", "upper"}, predicates \in Seq(PredicateType)
  PROVE  /\ BoundOn(side) = NoBound =>
              \A i \in DOMAIN predicates : predicates[i].op \notin Bounding(side)
         /\ BoundOn(side) # NoBound =>
              /\ BoundOn(side) \in BoundType
              /\ \A key \in Int : Beyond(side, key, BoundOn(side)) <=>
                   \E i \in DOMAIN predicates :
                     predicates[i].op \in Bounding(side)
                       /\ Beyond(side, key, Bound(predicates[i]))
<1> DEFINE n == Len(predicates)
           Bounds(i) == predicates[i].op \in Bounding(side)
<1>1. n \in Nat /\ DOMAIN predicates = 1..n /\ \A i \in 1..n : predicates[i] \in PredicateType
  BY SequenceFacts
<1>2. PICK p : BoundPrefixes(p, side) /\ p[n] = BoundOn(side)
  BY BoundByPrefix
<1>3. /\ p \in [0..n -> MaybeBound] /\ p[0] = NoBound
      /\ \A k \in 0..n - 1 : p[k + 1] = Narrowed(side, p[k], predicates[k + 1])
  BY <1>2 DEF BoundPrefixes
<1> DEFINE Right(k) ==
             /\ p[k] = NoBound => \A i \in 1..k : ~ Bounds(i)
             /\ p[k] # NoBound =>
                  \A key \in Int : Beyond(side, key, p[k]) <=>
                    \E i \in 1..k : Bounds(i) /\ Beyond(side, key, Bound(predicates[i]))
           G == {k \in Nat : k <= n => Right(k)}
<1> HIDE DEF n, Bounds
<1>4. 0 \in G
  BY <1>3
<1>5. ASSUME NEW k \in G PROVE k + 1 \in G
  <2>1. SUFFICES ASSUME k + 1 <= n PROVE Right(k + 1)
    BY <1>5
  <2>2. /\ k \in Nat /\ k \in 0..n - 1 /\ k \in 0..n /\ k + 1 \in 1..n /\ Right(k)
    BY <1>1, <1>5, <2>1
  <2>3. /\ p[k] \in MaybeBound /\ p[k + 1] = Narrowed(side, p[k], predicates[k + 1])
        /\ predicates[k + 1] \in PredicateType
    BY <1>1, <1>3, <2>2
  <2>4. \A i \in 1..k + 1 : i \in 1..k \/ i = k + 1
    BY <2>2
  <2>5. 1..k \subseteq 1..k + 1 /\ k + 1 \in 1..k + 1
    BY <2>2
  <2>6. CASE ~ Bounds(k + 1)
    <3>1. p[k + 1] = p[k]
      BY <2>3, <2>6 DEF Narrowed, Bounds
    <3> QED BY <2>2, <2>4, <2>5, <2>6, <3>1
  <2>7. CASE Bounds(k + 1) /\ p[k] = NoBound
    <3>1. p[k + 1] = Bound(predicates[k + 1])
      BY <2>3, <2>7 DEF Narrowed, Bounds, Tighter
    <3>2. p[k + 1] # NoBound
      <4>1. Bound(predicates[k + 1]) \in BoundType
        BY <2>3 DEF Bound, PredicateType, BoundType
      <4> QED BY <3>1, <4>1 DEF BoundType, ScanAssumption
    <3>3. \A i \in 1..k : ~ Bounds(i)
      BY <2>2, <2>7
    <3> QED BY <2>4, <2>5, <2>7, <3>1, <3>2, <3>3
  <2>8. CASE Bounds(k + 1) /\ p[k] # NoBound
    <3>1. p[k] \in BoundType
      BY <2>3, <2>8 DEF MaybeBound
    <3>2. /\ p[k + 1] \in BoundType
          /\ \A key \in Int : Beyond(side, key, p[k + 1]) <=>
               Beyond(side, key, p[k]) \/ Beyond(side, key, Bound(predicates[k + 1]))
      <4>1. predicates[k + 1].op \in Bounding(side)
        BY <2>8 DEF Bounds
      <4>2. ASSUME NEW e \in BoundType, NEW q \in PredicateType, q.op \in Bounding(side)
            PROVE  /\ Narrowed(side, e, q) \in BoundType
                   /\ \A key \in Int : Beyond(side, key, Narrowed(side, e, q)) <=>
                                         Beyond(side, key, e) \/ Beyond(side, key, Bound(q))
        BY <4>2, NarrowedBeyond
      <4>3. PICK e \in BoundType : e = p[k]
        BY <3>1
      <4>4. PICK q \in PredicateType : q = predicates[k + 1]
        BY <2>3
      <4> QED BY <2>3, <4>1, <4>2, <4>3, <4>4
    <3>3. p[k + 1] # NoBound
      BY <3>2 DEF BoundType, ScanAssumption
    <3> QED BY <2>2, <2>4, <2>5, <2>8, <3>2, <3>3
  <2> QED BY <2>6, <2>7, <2>8
<1> HIDE DEF G, Right
<1>6. G = Nat
  <2>1. G \in SUBSET Nat
    BY DEF G
  <2> QED BY <1>4, <1>5, <2>1, SetInduction
<1>7. Right(n)
  BY <1>1, <1>6 DEF G
<1>8. p[n] \in MaybeBound
  <2>1. n \in 0..n
    BY <1>1
  <2> QED BY <1>3, <2>1
<1> QED BY <1>1, <1>2, <1>7, <1>8 DEF Right, Bounds, MaybeBound

-----------------------------------------------------------------------------
(* The blocks a bound rules out *)

\* What is scanned is one of the inputs.
InputsOK ==
  /\ table \in Seq(Seq(Row) \ {<< >>}) /\ predicates \in Seq(PredicateType)
  /\ is_physically_ordered \in BOOLEAN /\ (is_physically_ordered => KeysInOrder)

BelowRange(b) == LowerBound # NoBound /\ StrictlyBefore(LastKey(b), LowerBound)
AboveRange(b) == UpperBound # NoBound /\ StrictlyAfter(FirstKey(b), UpperBound)

LEMMA BlockFacts ==
  ASSUME InputsOK
  PROVE  /\ table \in Seq(Seq(Row)) /\ NumBlocks \in Nat /\ DOMAIN table = 1..NumBlocks
         /\ table = << >> <=> NumBlocks = 0
         /\ \A b \in 0..NumBlocks - 1 :
              table[b + 1] \in Seq(Row) /\ table[b + 1] # << >> /\ Len(table[b + 1]) \in Nat \ {0}
<1>1. table \in [1..NumBlocks -> Seq(Row) \ {<< >>}] /\ NumBlocks \in Nat
      /\ DOMAIN table = 1..NumBlocks /\ (table = << >> <=> NumBlocks = 0)
  BY SequenceFacts DEF InputsOK, NumBlocks
<1>2. table \in Seq(Seq(Row))
  BY <1>1, SeqDef
<1>3. ASSUME NEW b \in 0..NumBlocks - 1
      PROVE  table[b + 1] \in Seq(Row) /\ table[b + 1] # << >> /\ Len(table[b + 1]) \in Nat \ {0}
  <2>1. b + 1 \in 1..NumBlocks
    BY <1>1
  <2>2. table[b + 1] \in Seq(Row) /\ table[b + 1] # << >>
    BY <1>1, <2>1
  <2> QED BY <2>2, SequenceFacts
<1> QED BY <1>1, <1>2, <1>3

\* In an ordered table the first and the last key bound the keys of a block, and
\* neither decreases from block to block.
LEMMA KeyFacts ==
  ASSUME InputsOK, KeysInOrder
  PROVE  /\ \A b \in 0..NumBlocks - 1 :
              /\ FirstKey(b) \in Int /\ LastKey(b) \in Int /\ FirstKey(b) <= LastKey(b)
              /\ \A row \in ToSet(table[b + 1]) :
                   row \in Row /\ FirstKey(b) <= row.key /\ row.key <= LastKey(b)
         /\ \A b, c \in 0..NumBlocks - 1 :
              b <= c => FirstKey(b) <= FirstKey(c) /\ LastKey(b) <= LastKey(c)
<1>1. /\ NumBlocks \in Nat /\ DOMAIN table = 1..NumBlocks
      /\ \A b \in 0..NumBlocks - 1 : table[b + 1] \in Seq(Row) /\ Len(table[b + 1]) \in Nat \ {0}
  BY BlockFacts
<1>2. ASSUME NEW b \in 0..NumBlocks - 1
      PROVE  /\ b + 1 \in DOMAIN table /\ DOMAIN table[b + 1] = 1..Len(table[b + 1])
             /\ 1 \in DOMAIN table[b + 1] /\ Len(table[b + 1]) \in DOMAIN table[b + 1]
             /\ \A i \in DOMAIN table[b + 1] : table[b + 1][i] \in Row
             /\ LastKey(b) = table[b + 1][Len(table[b + 1])].key
             /\ FirstKey(b) = table[b + 1][1].key
             /\ ToSet(table[b + 1]) = {table[b + 1][i] : i \in DOMAIN table[b + 1]}
  <2>1. b + 1 \in DOMAIN table
    BY <1>1
  <2>2. /\ table[b + 1] \in Seq(Row) /\ Len(table[b + 1]) \in Nat \ {0}
        /\ DOMAIN table[b + 1] = 1..Len(table[b + 1])
        /\ \A i \in DOMAIN table[b + 1] : table[b + 1][i] \in Row
        /\ ToSet(table[b + 1]) = {table[b + 1][i] : i \in DOMAIN table[b + 1]}
    BY <1>1, SequenceFacts
  <2>3. 1 \in DOMAIN table[b + 1] /\ Len(table[b + 1]) \in DOMAIN table[b + 1]
    BY <2>2
  <2> QED BY <2>1, <2>2, <2>3 DEF FirstKey, LastKey, Last
<1>3. ASSUME NEW b \in 0..NumBlocks - 1
      PROVE  /\ FirstKey(b) \in Int /\ LastKey(b) \in Int /\ FirstKey(b) <= LastKey(b)
             /\ \A row \in ToSet(table[b + 1]) :
                  row \in Row /\ FirstKey(b) <= row.key /\ row.key <= LastKey(b)
  <2> DEFINE rows == table[b + 1]
  <2>1. \A i, j \in DOMAIN rows : i <= j => rows[i].key <= rows[j].key
    BY <1>2 DEF KeysInOrder
  <2>2. \A i \in DOMAIN rows : rows[i] \in Row /\ rows[i].key \in Int
    BY <1>2 DEF Row
  <2>3. \A i \in DOMAIN rows : 1 <= i /\ i <= Len(rows)
    BY <1>1, <1>2
  <2>4. \A i \in DOMAIN rows : FirstKey(b) <= rows[i].key /\ rows[i].key <= LastKey(b)
    BY <1>2, <2>1, <2>3
  <2>5. FirstKey(b) \in Int /\ LastKey(b) \in Int
    BY <1>2, <2>2
  <2>6. FirstKey(b) <= LastKey(b)
    BY <1>2, <2>4
  <2>7. ToSet(rows) = {rows[i] : i \in DOMAIN rows}
    BY <1>2
  <2> HIDE DEF rows
  <2> QED BY <2>2, <2>4, <2>5, <2>6, <2>7 DEF rows
<1>4. ASSUME NEW b \in 0..NumBlocks - 1, NEW c \in 0..NumBlocks - 1, b <= c
      PROVE  FirstKey(b) <= FirstKey(c) /\ LastKey(b) <= LastKey(c)
  <2>1. CASE b = c
    BY <1>3, <2>1
  <2>2. CASE b < c
    <3>1. b + 1 < c + 1 /\ b + 1 \in DOMAIN table /\ c + 1 \in DOMAIN table
      BY <1>1, <1>2, <2>2
    <3>2. \A i \in DOMAIN table[b + 1], j \in DOMAIN table[c + 1] :
            table[b + 1][i].key <= table[c + 1][j].key
      BY <3>1 DEF KeysInOrder
    <3> QED BY <1>2, <3>2
  <2> QED BY <1>4, <2>1, <2>2
<1> QED BY <1>3, <1>4

\* A block before one below the range is below it, and a block after one above it above.
LEMMA SearchMonotone ==
  ASSUME ScanAssumption, InputsOK, KeysInOrder,
         NEW b \in 0..NumBlocks - 1, NEW c \in 0..NumBlocks - 1, b <= c
  PROVE  /\ BelowRange(c) => BelowRange(b)
         /\ AboveRange(b) => AboveRange(c)
<1>1. /\ FirstKey(b) \in Int /\ LastKey(b) \in Int /\ FirstKey(c) \in Int /\ LastKey(c) \in Int
      /\ FirstKey(b) <= FirstKey(c) /\ LastKey(b) <= LastKey(c)
  BY KeyFacts
<1>2. predicates \in Seq(PredicateType)
  BY DEF InputsOK
<1>3. /\ LowerBound # NoBound => LowerBound.value \in Int
      /\ UpperBound # NoBound => UpperBound.value \in Int
  <2>1. \A side \in {"lower", "upper"} : BoundOn(side) # NoBound => BoundOn(side).value \in Int
    BY <1>2, BoundRulesOut DEF BoundType
  <2> QED BY <2>1 DEF LowerBound, UpperBound
<1> QED BY <1>1, <1>3 DEF BelowRange, AboveRange, StrictlyBefore, StrictlyAfter

\* No row of a block outside of the range satisfies the predicates.
LEMMA RuledOut ==
  ASSUME ScanAssumption, InputsOK, KeysInOrder, NEW b \in 0..NumBlocks - 1,
         BelowRange(b) \/ AboveRange(b)
  PROVE  /\ \A row \in ToSet(table[b + 1]) : ~ Satisfies(row)
         /\ Decoded(b) = << >>
<1>1. ASSUME NEW row \in ToSet(table[b + 1]), Satisfies(row) PROVE FALSE
  <2>1. /\ FirstKey(b) \in Int /\ LastKey(b) \in Int /\ row.key \in Int
        /\ FirstKey(b) <= row.key /\ row.key <= LastKey(b)
    BY KeyFacts DEF Row
  <2>2. predicates \in Seq(PredicateType)
    BY DEF InputsOK
  <2>3. \A i \in DOMAIN predicates : predicates[i] \in PredicateType
    BY <2>2, SequenceFacts
  <2>4. \A i \in DOMAIN predicates : Holds(predicates[i], row.key)
    BY <1>1 DEF Satisfies
  <2>5. ASSUME NEW side \in {"lower", "upper"}, NEW i \in DOMAIN predicates,
               predicates[i].op \in Bounding(side)
        PROVE  ~ Beyond(side, row.key, Bound(predicates[i]))
    <3>1. PICK q \in PredicateType : q = predicates[i]
      BY <2>3
    <3>2. Holds(q, row.key) /\ q.op \in Bounding(side) /\ q.value \in Int
      BY <2>4, <2>5, <3>1 DEF PredicateType
    <3>3. Bound(q).value = q.value /\ Bound(q).inclusive = (q.op \in {"EQ", "LTE", "GTE"})
      BY DEF Bound
    <3>4. ~ Beyond(side, row.key, Bound(q))
      <4>1. CASE side = "lower"
        <5>1. \/ q.op = "EQ" /\ row.key = q.value
              \/ q.op = "GT" /\ row.key > q.value
              \/ q.op = "GTE" /\ row.key >= q.value
          BY <3>2, <4>1 DEF Holds, Bounding
        <5>2. row.key # q.value \/ q.op \in {"EQ", "LTE", "GTE"}
          BY <2>1, <3>2, <5>1
        <5>3. row.key # q.value \/ Bound(q).inclusive
          BY <3>3, <5>2, Zenon
        <5> QED BY <2>1, <3>2, <3>3, <4>1, <5>1, <5>3 DEF Beyond, StrictlyBefore
      <4>2. CASE side = "upper"
        <5>1. \/ q.op = "EQ" /\ row.key = q.value
              \/ q.op = "LT" /\ row.key < q.value
              \/ q.op = "LTE" /\ row.key <= q.value
          BY <3>2, <4>2 DEF Holds, Bounding
        <5>2. row.key # q.value \/ q.op \in {"EQ", "LTE", "GTE"}
          BY <2>1, <3>2, <5>1
        <5>3. row.key # q.value \/ Bound(q).inclusive
          BY <3>3, <5>2, Zenon
        <5> QED BY <2>1, <3>2, <3>3, <4>2, <5>1, <5>3 DEF Beyond, StrictlyAfter
      <4> QED BY <4>1, <4>2
    <3> QED BY <3>1, <3>4
  <2>6. /\ LowerBound # NoBound => LowerBound.value \in Int /\ ~ StrictlyBefore(row.key, LowerBound)
        /\ UpperBound # NoBound => UpperBound.value \in Int /\ ~ StrictlyAfter(row.key, UpperBound)
    <3>1. ASSUME NEW side \in {"lower", "upper"}, BoundOn(side) # NoBound
          PROVE  BoundOn(side).value \in Int /\ ~ Beyond(side, row.key, BoundOn(side))
      <4>1. /\ BoundOn(side) \in BoundType
            /\ Beyond(side, row.key, BoundOn(side)) <=>
                 \E i \in DOMAIN predicates :
                   predicates[i].op \in Bounding(side)
                     /\ Beyond(side, row.key, Bound(predicates[i]))
        BY <2>1, <2>2, <3>1, BoundRulesOut
      <4> QED BY <2>5, <4>1 DEF BoundType
    <3> QED BY <3>1 DEF LowerBound, UpperBound, Beyond
  <2> QED BY <2>1, <2>6 DEF BelowRange, AboveRange, StrictlyBefore, StrictlyAfter
<1>2. Decoded(b) = << >>
  <2>1. table[b + 1] \in Seq(Row)
    BY BlockFacts
  <2>2. Kept(table[b + 1]) \in Seq(Row) /\ ToSet(Kept(table[b + 1])) = {}
    BY <1>1, <2>1, KeptElements
  <2> QED BY <2>2, SequenceFacts DEF Decoded
<1> QED BY <1>1, <1>2

\* Every predicate that bounds the range holds for some key between the first and the
\* last of a block inside.
LEMMA InsideHolds ==
  ASSUME ScanAssumption, InputsOK, KeysInOrder, NEW b \in 0..NumBlocks - 1,
         ~ BelowRange(b), ~ AboveRange(b),
         NEW i \in DOMAIN predicates, predicates[i].op # "NE"
  PROVE  \E key \in FirstKey(b)..LastKey(b) : Holds(predicates[i], key)
<1>1. FirstKey(b) \in Int /\ LastKey(b) \in Int /\ FirstKey(b) <= LastKey(b)
  BY KeyFacts
<1>2. predicates \in Seq(PredicateType)
  BY DEF InputsOK
<1>3. PICK q \in PredicateType : q = predicates[i]
  BY <1>2, SequenceFacts
<1>4. /\ q.value \in Int /\ q.op \in {"EQ", "LT", "LTE", "GT", "GTE"}
      /\ Bound(q).value = q.value /\ Bound(q).inclusive = (q.op \in {"EQ", "LTE", "GTE"})
  BY <1>3 DEF PredicateType, Operators, Bound
<1>5. ASSUME NEW side \in {"lower", "upper"}, q.op \in Bounding(side)
      PROVE  BoundOn(side) # NoBound
               /\ \A key \in Int : ~ Beyond(side, key, BoundOn(side)) => ~ Beyond(side, key, Bound(q))
  <2>1. BoundOn(side) # NoBound
    BY <1>2, <1>3, <1>5, BoundRulesOut
  <2>2. \A key \in Int : Beyond(side, key, BoundOn(side)) <=>
          \E j \in DOMAIN predicates :
            predicates[j].op \in Bounding(side) /\ Beyond(side, key, Bound(predicates[j]))
    BY <1>2, <2>1, BoundRulesOut
  <2> QED BY <1>3, <1>5, <2>1, <2>2
<1>6. ASSUME q.op \in Bounding("lower") PROVE ~ StrictlyBefore(LastKey(b), Bound(q))
  <2>1. LowerBound # NoBound /\ (~ StrictlyBefore(LastKey(b), LowerBound) => ~ StrictlyBefore(LastKey(b), Bound(q)))
    BY <1>1, <1>5, <1>6 DEF LowerBound, Beyond
  <2> QED BY <2>1 DEF BelowRange
<1>7. ASSUME q.op \in Bounding("upper") PROVE ~ StrictlyAfter(FirstKey(b), Bound(q))
  <2>1. UpperBound # NoBound /\ (~ StrictlyAfter(FirstKey(b), UpperBound) => ~ StrictlyAfter(FirstKey(b), Bound(q)))
    BY <1>1, <1>5, <1>7 DEF UpperBound, Beyond
  <2> QED BY <2>1 DEF AboveRange
<1>8. CASE q.op = "EQ"
  <2>1. q.value <= LastKey(b) /\ FirstKey(b) <= q.value
    BY <1>1, <1>4, <1>6, <1>7, <1>8 DEF Bounding, StrictlyBefore, StrictlyAfter
  <2>2. q.value \in FirstKey(b)..LastKey(b) /\ Holds(q, q.value)
    BY <1>1, <1>4, <1>8, <2>1 DEF Holds
  <2> QED BY <1>3, <2>2
<1>9. CASE q.op = "GT" \/ q.op = "GTE"
  <2>1. IF q.op = "GT" THEN LastKey(b) > q.value ELSE LastKey(b) >= q.value
    <3>1. q.op \in Bounding("lower") /\ (Bound(q).inclusive <=> q.op = "GTE")
      BY <1>4, <1>9 DEF Bounding
    <3> QED BY <1>1, <1>4, <1>6, <1>9, <3>1 DEF StrictlyBefore
  <2>2. LastKey(b) \in FirstKey(b)..LastKey(b) /\ Holds(q, LastKey(b))
    <3>1. CASE q.op = "GT"
      BY <1>1, <1>4, <2>1, <3>1 DEF Holds
    <3>2. CASE q.op = "GTE"
      BY <1>1, <1>4, <2>1, <3>2 DEF Holds
    <3> QED BY <1>9, <3>1, <3>2
  <2> QED BY <1>3, <2>2
<1>10. CASE q.op = "LT" \/ q.op = "LTE"
  <2>1. IF q.op = "LT" THEN FirstKey(b) < q.value ELSE FirstKey(b) <= q.value
    <3>1. q.op \in Bounding("upper") /\ (Bound(q).inclusive <=> q.op = "LTE")
      BY <1>4, <1>10 DEF Bounding
    <3> QED BY <1>1, <1>4, <1>7, <1>10, <3>1 DEF StrictlyAfter
  <2>2. FirstKey(b) \in FirstKey(b)..LastKey(b) /\ Holds(q, FirstKey(b))
    <3>1. CASE q.op = "LT"
      BY <1>1, <1>4, <2>1, <3>1 DEF Holds
    <3>2. CASE q.op = "LTE"
      BY <1>1, <1>4, <2>1, <3>2 DEF Holds
    <3> QED BY <1>10, <3>1, <3>2
  <2> QED BY <1>3, <2>2
<1> QED BY <1>4, <1>8, <1>9, <1>10

-----------------------------------------------------------------------------
(* The inductive invariant *)

\* The state of the searches and of the range they end with.
SearchInv ==
  /\ phase # "scan" =>
       /\ num_blocks = 0 /\ current_block_offset = 0
       /\ prefetched_rows = << >> /\ current_rows = << >> /\ output = << >>
  /\ phase = "new" => start_block = 0
  /\ phase \in {"lower", "upper"} => Restricted
  /\ phase = "lower" =>
       /\ start_block = 0 /\ (LowerBound = NoBound => hi = 0)
       /\ \A b \in 0..NumBlocks - 1 :
            (b < lo => BelowRange(b)) /\ (b >= hi => ~ BelowRange(b))
  /\ phase = "upper" =>
       /\ UpperBound = NoBound => lo = NumBlocks
       /\ \A b \in 0..NumBlocks - 1 :
            /\ b < start_block <=> BelowRange(b)
            /\ (b < lo => ~ AboveRange(b)) /\ (b >= hi => AboveRange(b))
  /\ phase = "scan" =>
       \A b \in 0..NumBlocks - 1 :
         IF b \in start_block..start_block + num_blocks - 1
         THEN Restricted => ~ BelowRange(b) /\ ~ AboveRange(b)
         ELSE Restricted /\ (BelowRange(b) \/ AboveRange(b))

\* The block whose rows are prefetched and not begun, or the next one to read.
NextBegun == BatchStart - Len(prefetched_rows)

\* With what is left of the block being delivered, the rows delivered are those kept
\* of the blocks begun; the prefetched rows are those kept of the following blocks.
DeliveredInv(w) ==
  /\ output \o current_rows = w[NextBegun]
  /\ \A i \in 1..Len(prefetched_rows) : prefetched_rows[i] = Decoded(NextBegun + i - 1)

ScanInv ==
  /\ InputsOK /\ TypeOK /\ SearchInv
  /\ Len(prefetched_rows) <= current_block_offset
  /\ \A w : KeptBlocks(w) /\ phase = "scan" => DeliveredInv(w)

\* What follows from the inputs alone does not change with the rest of the state.
LEMMA InputsUnchanged ==
  ASSUME UNCHANGED inputVars
  PROVE  /\ NumBlocks' = NumBlocks /\ InputsOK' = InputsOK /\ KeysInOrder' = KeysInOrder
         /\ Restricted' = Restricted
         /\ LowerBound' = LowerBound /\ UpperBound' = UpperBound
         /\ \A b : BelowRange(b)' = BelowRange(b) /\ AboveRange(b)' = AboveRange(b)
         /\ \A b : Decoded(b)' = Decoded(b)
         /\ \A w : KeptBlocks(w)' = KeptBlocks(w)
         /\ Kept(AllRows)' = Kept(AllRows)
<1>1. table' = table /\ predicates' = predicates /\ is_physically_ordered' = is_physically_ordered
  BY DEF inputVars
<1>2. NumBlocks' = NumBlocks /\ KeysInOrder' = KeysInOrder /\ Restricted' = Restricted
  BY <1>1 DEF NumBlocks, KeysInOrder, Restricted
<1>3. InputsOK' = InputsOK
  BY <1>1, <1>2 DEF InputsOK
<1>4. LowerBound' = LowerBound /\ UpperBound' = UpperBound
  BY <1>1 DEF LowerBound, UpperBound, BoundOn, FoldLeft, MapThenFoldSet
<1>5. \A b : BelowRange(b)' = BelowRange(b) /\ AboveRange(b)' = AboveRange(b)
  BY <1>1, <1>4 DEF BelowRange, AboveRange, FirstKey, LastKey
<1>6. \A b : Decoded(b)' = Decoded(b)
  BY <1>1 DEF Decoded, Kept, FoldLeft, MapThenFoldSet, Satisfies, Holds
<1>7. \A w : KeptBlocks(w)' = KeptBlocks(w)
  BY <1>2, <1>6 DEF KeptBlocks
<1>8. Kept(AllRows)' = Kept(AllRows)
  BY <1>1 DEF AllRows, FlattenSeq, Kept, FoldLeft, MapThenFoldSet, Satisfies, Holds
<1> QED BY <1>2, <1>3, <1>4, <1>5, <1>6, <1>7, <1>8

-----------------------------------------------------------------------------
(* Every step preserves the invariant *)

LEMMA InitInv ==
  ASSUME ScanAssumption, Init
  PROVE  ScanInv
<1>1. InputsOK
  BY DEF InputsOK, Init, ScanAssumption, PredicateType
<1>2. NumBlocks \in Nat
  BY <1>1, BlockFacts
<1>3. << >> \in Seq(Row) /\ << >> \in Seq(Seq(Row)) /\ Len(<< >>) = 0
  BY EmptyElements
<1>4. TypeOK
  BY <1>2, <1>3 DEF Init, TypeOK, ScanAssumption
<1>5. SearchInv /\ phase # "scan"
  BY DEF Init, SearchInv
<1>6. Len(prefetched_rows) <= current_block_offset
  BY <1>3 DEF Init
<1> QED BY <1>1, <1>4, <1>5, <1>6 DEF ScanInv

LEMMA OpenFileInv ==
  ASSUME ScanAssumption, ScanInv, OpenFile
  PROVE  ScanInv'
<1>1. InputsOK /\ TypeOK /\ SearchInv /\ phase = "new" /\ UNCHANGED inputVars
  BY DEF ScanInv, OpenFile
<1>2. NumBlocks \in Nat /\ (table = << >> <=> NumBlocks = 0)
  BY <1>1, BlockFacts
<1>3. /\ InputsOK' /\ NumBlocks' = NumBlocks /\ Restricted' = Restricted
      /\ LowerBound' = LowerBound
      /\ \A b : BelowRange(b)' = BelowRange(b) /\ AboveRange(b)' = AboveRange(b)
  BY <1>1, InputsUnchanged
<1>4. /\ start_block = 0 /\ num_blocks = 0 /\ current_block_offset = 0
      /\ prefetched_rows = << >> /\ current_rows = << >> /\ output = << >>
  BY <1>1 DEF SearchInv
<1>5. /\ current_block_offset' = 0 /\ prefetched_rows' = << >>
      /\ current_rows' = << >> /\ output' = << >>
  BY <1>4 DEF OpenFile
<1>6. Len(prefetched_rows)' <= current_block_offset'
  BY <1>5, EmptyElements
<1>7. CASE Restricted /\ table # << >>
  <2>1. /\ phase' = "lower" /\ lo' = 0 /\ hi' = (IF LowerBound = NoBound THEN 0 ELSE NumBlocks)
        /\ start_block' = 0 /\ num_blocks' = 0
    BY <1>4, <1>7 DEF OpenFile
  <2>2. TypeOK'
    BY <1>1, <1>2, <1>3, <1>5, <2>1 DEF TypeOK, OpenFile
  <2>3. ASSUME NEW b \in 0..NumBlocks - 1 PROVE ~ (b < lo') /\ (b >= hi' => ~ BelowRange(b))
    <3>1. LowerBound = NoBound => ~ BelowRange(b)
      BY DEF BelowRange
    <3> QED BY <1>2, <2>1, <3>1
  <2>4. SearchInv'
    BY <1>3, <1>5, <1>7, <2>1, <2>3 DEF SearchInv
  <2> QED BY <1>3, <1>6, <2>1, <2>2, <2>4 DEF ScanInv
<1>8. CASE ~ (Restricted /\ table # << >>)
  <2>1. /\ phase' = "scan" /\ start_block' = 0 /\ num_blocks' = NumBlocks
        /\ lo' = lo /\ hi' = hi
    BY <1>8 DEF OpenFile
  <2>2. TypeOK'
    BY <1>1, <1>2, <1>3, <1>5, <2>1 DEF TypeOK, OpenFile
  <2>3. ASSUME NEW b \in 0..NumBlocks - 1
        PROVE  ~ Restricted /\ b \in start_block'..start_block' + num_blocks' - 1
    BY <1>2, <1>8, <2>1
  <2>4. SearchInv'
    BY <1>3, <2>1, <2>3 DEF SearchInv
  <2>5. ASSUME NEW w, KeptBlocks(w)' PROVE DeliveredInv(w)'
    <3>1. w[0] = << >>
      BY <2>5 DEF KeptBlocks
    <3>2. Len(prefetched_rows)' = 0 /\ (output \o current_rows)' = << >>
      BY <1>5, EmptyElements, ConcatEmptySeq
    <3>3. NextBegun' = 0
      <4>1. BatchStart' = 0
        BY <1>5, <2>1 DEF BatchStart
      <4>2. NextBegun' = BatchStart' - Len(prefetched_rows)'
        BY DEF NextBegun
      <4> QED BY <3>2, <4>1, <4>2
    <3> QED BY <3>1, <3>2, <3>3 DEF DeliveredInv
  <2> QED BY <1>3, <1>6, <2>2, <2>4, <2>5 DEF ScanInv
<1> QED BY <1>7, <1>8

\* The middle is between the two ends.
LEMMA MidBetween ==
  ASSUME NEW n \in Nat, lo \in 0..n, hi \in 0..n, lo < hi
  PROVE  Mid \in 0..n - 1 /\ lo <= Mid /\ Mid < hi
<1>1. (hi - lo) \div 2 \in Nat /\ (hi - lo) \div 2 < hi - lo
  <2>1. \A d \in Nat \ {0} : d \div 2 \in Nat /\ d \div 2 < d
    OBVIOUS
  <2>2. hi - lo \in Nat \ {0}
    OBVIOUS
  <2> QED BY <2>1, <2>2
<1> QED BY <1>1 DEF Mid

\* What a probe leaves unchanged.
LEMMA ProbeFrame ==
  ASSUME ScanInv, UNCHANGED <<inputVars, phase, start_block, num_blocks, current_block_offset,
                              prefetched_rows, current_rows, output>>,
         phase \in {"lower", "upper"}
  PROVE  /\ InputsOK' /\ NumBlocks' = NumBlocks /\ Restricted' = Restricted
         /\ LowerBound' = LowerBound /\ UpperBound' = UpperBound
         /\ \A b : BelowRange(b)' = BelowRange(b) /\ AboveRange(b)' = AboveRange(b)
         /\ Len(prefetched_rows)' <= current_block_offset'
         /\ NumBlocks \in Nat /\ Restricted /\ KeysInOrder
<1>1. InputsOK /\ SearchInv /\ UNCHANGED inputVars
  BY DEF ScanInv
<1>2. Restricted /\ KeysInOrder
  BY <1>1 DEF SearchInv, InputsOK, Restricted
<1> QED BY <1>1, <1>2, BlockFacts, InputsUnchanged DEF ScanInv

LEMMA ProbeLowerInv ==
  ASSUME ScanAssumption, ScanInv, ProbeLower
  PROVE  ScanInv'
<1>1. /\ InputsOK /\ TypeOK /\ SearchInv /\ phase = "lower" /\ lo < hi
      /\ lo \in 0..NumBlocks /\ hi \in 0..NumBlocks
  BY DEF ScanInv, ProbeLower, TypeOK
<1>2. UNCHANGED <<inputVars, phase, start_block, num_blocks, current_block_offset,
                  prefetched_rows, current_rows, output>>
  BY DEF ProbeLower
<1>3. /\ InputsOK' /\ NumBlocks' = NumBlocks /\ Restricted' = Restricted
      /\ LowerBound' = LowerBound
      /\ \A b : BelowRange(b)' = BelowRange(b)
      /\ Len(prefetched_rows)' <= current_block_offset'
      /\ NumBlocks \in Nat /\ KeysInOrder
  BY <1>1, <1>2, ProbeFrame
<1>4. PICK mid \in 0..NumBlocks - 1 : mid = Mid /\ lo <= mid /\ mid < hi
  BY <1>1, <1>3, MidBetween
<1>5. LowerBound # NoBound
  BY <1>1, <1>3 DEF SearchInv
<1>6. \/ BelowRange(mid) /\ lo' = mid + 1 /\ hi' = hi
      \/ ~ BelowRange(mid) /\ hi' = mid /\ lo' = lo
  BY <1>4, <1>5 DEF ProbeLower, Search, BelowRange
<1>7. TypeOK'
  BY <1>1, <1>2, <1>3, <1>4, <1>6 DEF TypeOK
<1>8. ASSUME NEW b \in 0..NumBlocks - 1
      PROVE  (b < lo' => BelowRange(b)) /\ (b >= hi' => ~ BelowRange(b))
  <2>1. (b < lo => BelowRange(b)) /\ (b >= hi => ~ BelowRange(b))
    BY <1>1 DEF SearchInv
  <2>2. CASE BelowRange(mid) /\ lo' = mid + 1 /\ hi' = hi
    <3>1. b <= mid => BelowRange(b)
      BY <1>1, <1>3, <2>2, SearchMonotone
    <3> QED BY <1>1, <1>4, <2>1, <2>2, <3>1
  <2>3. CASE ~ BelowRange(mid) /\ hi' = mid /\ lo' = lo
    <3>1. mid <= b => ~ BelowRange(b)
      BY <1>1, <1>3, <2>3, SearchMonotone
    <3> QED BY <1>1, <1>4, <2>1, <2>3, <3>1
  <2> QED BY <1>6, <2>2, <2>3
<1>9. SearchInv'
  <2>1. LowerBound' # NoBound /\ phase' = "lower" /\ Restricted' /\ start_block' = 0
    BY <1>1, <1>2, <1>3, <1>5 DEF SearchInv
  <2>2. /\ num_blocks' = 0 /\ current_block_offset' = 0
        /\ prefetched_rows' = << >> /\ current_rows' = << >> /\ output' = << >>
    BY <1>1, <1>2 DEF SearchInv
  <2> QED BY <1>3, <1>8, <2>1, <2>2 DEF SearchInv
<1>10. phase' # "scan"
  BY <1>1, <1>2
<1> QED BY <1>3, <1>7, <1>9, <1>10 DEF ScanInv

LEMMA ProbeUpperInv ==
  ASSUME ScanAssumption, ScanInv, ProbeUpper
  PROVE  ScanInv'
<1>1. /\ InputsOK /\ TypeOK /\ SearchInv /\ phase = "upper" /\ lo < hi
      /\ lo \in 0..NumBlocks /\ hi \in 0..NumBlocks
  BY DEF ScanInv, ProbeUpper, TypeOK
<1>2. UNCHANGED <<inputVars, phase, start_block, num_blocks, current_block_offset,
                  prefetched_rows, current_rows, output>>
  BY DEF ProbeUpper
<1>3. /\ InputsOK' /\ NumBlocks' = NumBlocks /\ Restricted' = Restricted
      /\ UpperBound' = UpperBound
      /\ \A b : BelowRange(b)' = BelowRange(b) /\ AboveRange(b)' = AboveRange(b)
      /\ Len(prefetched_rows)' <= current_block_offset'
      /\ NumBlocks \in Nat /\ KeysInOrder
  BY <1>1, <1>2, ProbeFrame
<1>4. PICK mid \in 0..NumBlocks - 1 : mid = Mid /\ lo <= mid /\ mid < hi
  BY <1>1, <1>3, MidBetween
<1>5. UpperBound # NoBound
  BY <1>1, <1>3 DEF SearchInv
<1>6. \/ ~ AboveRange(mid) /\ lo' = mid + 1 /\ hi' = hi
      \/ AboveRange(mid) /\ hi' = mid /\ lo' = lo
  BY <1>4, <1>5 DEF ProbeUpper, Search, AboveRange
<1>7. TypeOK'
  BY <1>1, <1>2, <1>3, <1>4, <1>6 DEF TypeOK
<1>8. ASSUME NEW b \in 0..NumBlocks - 1
      PROVE  /\ b < start_block <=> BelowRange(b)
             /\ (b < lo' => ~ AboveRange(b)) /\ (b >= hi' => AboveRange(b))
  <2>1. /\ b < start_block <=> BelowRange(b)
        /\ (b < lo => ~ AboveRange(b)) /\ (b >= hi => AboveRange(b))
    BY <1>1 DEF SearchInv
  <2>2. CASE ~ AboveRange(mid) /\ lo' = mid + 1 /\ hi' = hi
    <3>1. b <= mid => ~ AboveRange(b)
      BY <1>1, <1>3, <2>2, SearchMonotone
    <3> QED BY <1>1, <1>4, <2>1, <2>2, <3>1
  <2>3. CASE AboveRange(mid) /\ hi' = mid /\ lo' = lo
    <3>1. mid <= b => AboveRange(b)
      BY <1>1, <1>3, <2>3, SearchMonotone
    <3> QED BY <1>1, <1>4, <2>1, <2>3, <3>1
  <2> QED BY <1>6, <2>2, <2>3
<1>9. SearchInv'
  <2>1. UpperBound' # NoBound /\ phase' = "upper" /\ Restricted' /\ start_block' = start_block
    BY <1>1, <1>2, <1>3, <1>5 DEF SearchInv
  <2>2. /\ num_blocks' = 0 /\ current_block_offset' = 0
        /\ prefetched_rows' = << >> /\ current_rows' = << >> /\ output' = << >>
    BY <1>1, <1>2 DEF SearchInv
  <2> QED BY <1>3, <1>8, <2>1, <2>2 DEF SearchInv
<1>10. phase' # "scan"
  BY <1>1, <1>2
<1> QED BY <1>3, <1>7, <1>9, <1>10 DEF ScanInv

LEMMA EndLowerInv ==
  ASSUME ScanAssumption, ScanInv, EndLower
  PROVE  ScanInv'
<1>1. /\ InputsOK /\ TypeOK /\ SearchInv /\ phase = "lower" /\ lo = hi
      /\ lo \in 0..NumBlocks /\ UNCHANGED inputVars
  BY DEF ScanInv, EndLower, TypeOK
<1>2. /\ start_block' = lo /\ phase' = "upper" /\ hi' = NumBlocks
      /\ lo' = (IF UpperBound = NoBound THEN NumBlocks ELSE 0)
      /\ UNCHANGED <<inputVars, num_blocks, current_block_offset, prefetched_rows,
                     current_rows, output>>
  BY DEF EndLower
<1>3. /\ InputsOK' /\ NumBlocks' = NumBlocks /\ Restricted' = Restricted
      /\ UpperBound' = UpperBound
      /\ \A b : BelowRange(b)' = BelowRange(b) /\ AboveRange(b)' = AboveRange(b)
      /\ NumBlocks \in Nat
  BY <1>1, BlockFacts, InputsUnchanged
<1>4. /\ num_blocks = 0 /\ current_block_offset = 0 /\ Restricted
      /\ prefetched_rows = << >> /\ current_rows = << >> /\ output = << >>
  BY <1>1 DEF SearchInv
<1>5. TypeOK'
  BY <1>1, <1>2, <1>3, <1>4 DEF TypeOK
<1>6. ASSUME NEW b \in 0..NumBlocks - 1
      PROVE  /\ b < start_block' <=> BelowRange(b)
             /\ (b < lo' => ~ AboveRange(b)) /\ ~ (b >= hi')
  <2>1. (b < lo => BelowRange(b)) /\ (b >= lo => ~ BelowRange(b))
    BY <1>1 DEF SearchInv
  <2>2. UpperBound = NoBound => ~ AboveRange(b)
    BY DEF AboveRange
  <2> QED BY <1>1, <1>2, <1>3, <2>1, <2>2
<1>7. SearchInv'
  BY <1>2, <1>3, <1>4, <1>6 DEF SearchInv
<1>8. Len(prefetched_rows)' <= current_block_offset' /\ phase' # "scan"
  BY <1>2 DEF ScanInv
<1> QED BY <1>3, <1>5, <1>7, <1>8 DEF ScanInv

LEMMA EndUpperInv ==
  ASSUME ScanAssumption, ScanInv, EndUpper
  PROVE  ScanInv'
<1>1. /\ InputsOK /\ TypeOK /\ SearchInv /\ phase = "upper" /\ lo = hi
      /\ lo \in 0..NumBlocks /\ start_block \in 0..NumBlocks /\ UNCHANGED inputVars
  BY DEF ScanInv, EndUpper, TypeOK
<1>2. /\ IF start_block >= lo THEN start_block' = 0 /\ num_blocks' = 0
                              ELSE num_blocks' = lo - start_block /\ start_block' = start_block
      /\ phase' = "scan"
      /\ UNCHANGED <<inputVars, lo, hi, current_block_offset, prefetched_rows,
                     current_rows, output>>
  BY DEF EndUpper
<1>3. /\ InputsOK' /\ NumBlocks' = NumBlocks /\ Restricted' = Restricted
      /\ \A b : BelowRange(b)' = BelowRange(b) /\ AboveRange(b)' = AboveRange(b)
      /\ NumBlocks \in Nat
  BY <1>1, BlockFacts, InputsUnchanged
<1>4. /\ num_blocks = 0 /\ current_block_offset = 0 /\ Restricted
      /\ prefetched_rows = << >> /\ current_rows = << >> /\ output = << >>
  BY <1>1 DEF SearchInv
<1>5. TypeOK'
  BY <1>1, <1>2, <1>3, <1>4 DEF TypeOK
<1>6. ASSUME NEW b \in 0..NumBlocks - 1
      PROVE  IF b \in start_block'..start_block' + num_blocks' - 1
             THEN ~ BelowRange(b) /\ ~ AboveRange(b)
             ELSE BelowRange(b) \/ AboveRange(b)
  <2>1. /\ b < start_block <=> BelowRange(b)
        /\ b < lo <=> ~ AboveRange(b)
    BY <1>1, <1>3 DEF SearchInv
  <2>2. CASE start_block >= lo
    <3>1. b \notin start_block'..start_block' + num_blocks' - 1
      BY <1>2, <2>2
    <3> QED BY <1>1, <1>3, <2>1, <2>2, <3>1
  <2>3. CASE ~ (start_block >= lo)
    <3>1. b \in start_block'..start_block' + num_blocks' - 1 <=> start_block <= b /\ b < lo
      BY <1>1, <1>2, <1>3, <2>3
    <3> QED BY <1>1, <1>3, <2>1, <2>3, <3>1
  <2> QED BY <2>2, <2>3
<1>7. SearchInv'
  BY <1>2, <1>3, <1>4, <1>6 DEF SearchInv
<1>8. Len(prefetched_rows)' <= current_block_offset'
  BY <1>2 DEF ScanInv
<1>9. /\ current_block_offset' = 0 /\ prefetched_rows' = << >>
      /\ current_rows' = << >> /\ output' = << >> /\ phase' = "scan"
  BY <1>2, <1>4
<1>10. ASSUME NEW w, KeptBlocks(w)' PROVE DeliveredInv(w)'
  <2>1. start_block' \in 0..NumBlocks
    BY <1>3, <1>5 DEF TypeOK
  <2>2. ASSUME NEW b \in 0..start_block' - 1 PROVE Decoded(b) = << >>
    <3>1. b \in 0..NumBlocks - 1 /\ b \notin start_block'..start_block' + num_blocks' - 1
      <4>1. NumBlocks \in Nat
        BY <1>3
      <4>2. \A m \in 0..NumBlocks : \A c \in 0..m - 1 : c \in 0..NumBlocks - 1 /\ ~ (m <= c)
        BY <4>1
      <4>3. b \in 0..NumBlocks - 1 /\ ~ (start_block' <= b)
        BY <2>1, <4>2
      <4>4. start_block' \in Int
        BY <2>1
      <4> QED BY <4>3, <4>4
    <3>2. (BelowRange(b) \/ AboveRange(b)) /\ KeysInOrder
      BY <1>1, <1>4, <1>6, <3>1 DEF Restricted, InputsOK
    <3> QED BY <1>1, <3>1, <3>2, RuledOut
  <2>3. KeptBlocks(w) /\ table \in Seq(Seq(Row))
    BY <1>1, <1>10, InputsUnchanged, BlockFacts
  <2>4. PICK k \in 0..NumBlocks : k = start_block'
    BY <2>1
  <2>5. w[k] = << >>
    BY <2>2, <2>3, <2>4, NothingKept
  <2>6. Len(prefetched_rows)' = 0
    BY <1>9, EmptyElements
  <2>7. (output \o current_rows)' = << >>
    BY <1>9, EmptyElements, ConcatEmptySeq
  <2>8. NextBegun' = k
    <3>1. BatchStart' = k
      <4>1. k \in Int /\ current_block_offset' = 0 /\ start_block' = k
        BY <1>3, <1>9, <2>4
      <4>2. BatchStart' = start_block' + current_block_offset'
        BY DEF BatchStart
      <4> QED BY <4>1, <4>2
    <3>2. NextBegun' = BatchStart' - Len(prefetched_rows)'
      BY DEF NextBegun
    <3> QED BY <2>6, <3>1, <3>2
  <2> QED BY <2>5, <2>6, <2>7, <2>8 DEF DeliveredInv
<1> QED BY <1>3, <1>5, <1>7, <1>8, <1>10 DEF ScanInv

\* What the reading of the range leaves unchanged.
LEMMA ReadFrame ==
  ASSUME ScanInv, phase = "scan", UNCHANGED <<inputVars, phase, searchVars>>
  PROVE  /\ InputsOK' /\ NumBlocks' = NumBlocks /\ SearchInv'
         /\ \A b : Decoded(b)' = Decoded(b)
         /\ \A w : KeptBlocks(w)' = KeptBlocks(w)
         /\ InputsOK /\ TypeOK /\ NumBlocks \in Nat /\ table \in Seq(Seq(Row))
         /\ phase' = "scan"
         /\ start_block \in Nat /\ num_blocks \in Nat /\ start_block + num_blocks <= NumBlocks
         /\ current_block_offset \in 0..num_blocks
         /\ Len(prefetched_rows) \in Nat /\ Len(prefetched_rows) <= current_block_offset
<1>1. InputsOK /\ SearchInv /\ TypeOK /\ UNCHANGED inputVars
  BY DEF ScanInv
<1>2. /\ InputsOK' /\ NumBlocks' = NumBlocks /\ Restricted' = Restricted
      /\ \A b : BelowRange(b)' = BelowRange(b) /\ AboveRange(b)' = AboveRange(b)
      /\ \A b : Decoded(b)' = Decoded(b)
      /\ \A w : KeptBlocks(w)' = KeptBlocks(w)
  BY <1>1, InputsUnchanged
<1>3. SearchInv'
  <2>1. phase' = "scan" /\ start_block' = start_block /\ num_blocks' = num_blocks
    BY DEF searchVars
  <2> QED BY <1>1, <1>2, <2>1 DEF SearchInv
<1>4. Len(prefetched_rows) \in Nat /\ Len(prefetched_rows) <= current_block_offset
  BY <1>1, SequenceFacts DEF ScanInv, TypeOK
<1>5. /\ start_block \in Nat /\ num_blocks \in Nat /\ start_block + num_blocks <= NumBlocks
      /\ current_block_offset \in 0..num_blocks /\ NumBlocks \in Nat /\ table \in Seq(Seq(Row))
  BY <1>1, BlockFacts DEF TypeOK
<1> QED BY <1>1, <1>2, <1>3, <1>4, <1>5

\* The rows kept of a block of the file.
LEMMA DecodedType ==
  ASSUME InputsOK, NEW b \in 0..NumBlocks - 1
  PROVE  Decoded(b) \in Seq(Row)
<1>1. table[b + 1] \in Seq(Row)
  BY BlockFacts
<1> QED BY <1>1, KeptElements DEF Decoded

LEMMA MinOfTwo ==
  ASSUME NEW a \in Int, NEW b \in Int
  PROVE  Min({a, b}) = IF a <= b THEN a ELSE b
<1> DEFINE m == IF a <= b THEN a ELSE b
<1>1. m \in {a, b} /\ \A y \in {a, b} : m <= y
  OBVIOUS
<1>2. Min({a, b}) \in {a, b} /\ \A y \in {a, b} : Min({a, b}) <= y
  BY <1>1 DEF Min
<1>3. Min({a, b}) = m
  BY <1>1, <1>2
<1> QED BY <1>3

LEMMA RefillInv ==
  ASSUME ScanAssumption, ScanInv, Refill
  PROVE  ScanInv'
<1>1. /\ phase = "scan" /\ current_rows = << >> /\ prefetched_rows = << >>
      /\ current_block_offset < num_blocks
      /\ current_block_offset' = current_block_offset + BatchBlocks
      /\ UNCHANGED <<inputVars, phase, searchVars, current_rows, output>>
      /\ lo' = lo /\ hi' = hi /\ start_block' = start_block /\ num_blocks' = num_blocks
  BY DEF Refill, Drained, searchVars
<1>2. /\ InputsOK' /\ NumBlocks' = NumBlocks /\ SearchInv' /\ phase' = "scan"
      /\ \A b : Decoded(b)' = Decoded(b)
      /\ \A w : KeptBlocks(w)' = KeptBlocks(w)
      /\ InputsOK /\ TypeOK
  BY <1>1, ReadFrame
<1>3. /\ NumBlocks \in Nat /\ start_block \in Nat
      /\ num_blocks \in Nat /\ start_block + num_blocks <= NumBlocks
      /\ current_block_offset \in 0..num_blocks
  BY <1>1, ReadFrame
<1>4. PICK k \in Nat \ {0} : /\ k = BatchBlocks /\ k <= PrefetchBlocks
                             /\ k <= num_blocks - current_block_offset
  <2>1. PrefetchBlocks \in Nat \ {0}
    BY DEF ScanAssumption
  <2>2. PICK d \in Nat \ {0} : d = num_blocks - current_block_offset
    BY <1>1, <1>3
  <2>3. BatchBlocks = IF d <= PrefetchBlocks THEN d ELSE PrefetchBlocks
    BY <2>1, <2>2, MinOfTwo DEF BatchBlocks
  <2> QED BY <2>1, <2>2, <2>3
<1>5. PICK c \in Nat : c = BatchStart /\ c = start_block + current_block_offset /\ c + k <= NumBlocks
  BY <1>3, <1>4 DEF BatchStart
<1>6. prefetched_rows' = [i \in 1..k |-> Decoded(c + i - 1)]
  BY <1>4, <1>5 DEF Refill
<1>7. ASSUME NEW i \in 1..k PROVE Decoded(c + i - 1) \in Seq(Row)
  <2>1. c + i - 1 \in 0..NumBlocks - 1
    BY <1>3, <1>4, <1>5
  <2> QED BY <1>2, <2>1, DecodedType
<1>8. prefetched_rows' \in Seq(Seq(Row)) /\ Len(prefetched_rows') = k
  <2>1. prefetched_rows' \in [1..k -> Seq(Row)] /\ k \in Nat
    BY <1>6, <1>7
  <2> QED BY <2>1, FunctionIsSequence
<1>9. current_block_offset' = current_block_offset + k /\ current_block_offset' \in 0..num_blocks
  BY <1>1, <1>3, <1>4
<1>10. TypeOK'
  BY <1>1, <1>2, <1>4, <1>8, <1>9 DEF TypeOK
<1>11. Len(prefetched_rows)' <= current_block_offset'
  BY <1>3, <1>4, <1>8, <1>9
<1>12. NextBegun = c /\ NextBegun' = c
  <2>1. Len(prefetched_rows) = 0
    BY <1>1, EmptyElements
  <2>2. NextBegun = c
    BY <1>5, <2>1 DEF NextBegun
  <2>3. BatchStart' = start_block + current_block_offset'
    BY <1>1 DEF BatchStart
  <2>4. NextBegun' = BatchStart' - Len(prefetched_rows')
    BY DEF NextBegun
  <2> QED BY <1>3, <1>4, <1>5, <1>8, <1>9, <2>2, <2>3, <2>4
<1>13. ASSUME NEW w, KeptBlocks(w)' PROVE DeliveredInv(w)'
  <2>1. DeliveredInv(w)
    BY <1>1, <1>2, <1>13 DEF ScanInv
  <2>2. output' \o current_rows' = w[c]
    BY <1>1, <1>12, <2>1 DEF DeliveredInv
  <2>3. \A i \in 1..k : prefetched_rows'[i] = Decoded(c + i - 1)
    BY <1>6
  <2> QED BY <1>2, <1>8, <1>12, <2>2, <2>3 DEF DeliveredInv
<1> QED BY <1>2, <1>10, <1>11, <1>13 DEF ScanInv

LEMMA NextBlockInv ==
  ASSUME ScanAssumption, ScanInv, NextBlock
  PROVE  ScanInv'
<1>1. /\ current_rows = << >> /\ prefetched_rows # << >>
      /\ current_rows' = Head(prefetched_rows) /\ prefetched_rows' = Tail(prefetched_rows)
      /\ UNCHANGED <<inputVars, phase, searchVars, current_block_offset, output>>
      /\ lo' = lo /\ hi' = hi /\ start_block' = start_block /\ num_blocks' = num_blocks
      /\ phase = "scan"
  BY DEF NextBlock, searchVars, ScanInv, SearchInv
<1>2. /\ InputsOK' /\ NumBlocks' = NumBlocks /\ SearchInv' /\ phase' = "scan"
      /\ \A b : Decoded(b)' = Decoded(b)
      /\ \A w : KeptBlocks(w)' = KeptBlocks(w)
      /\ InputsOK /\ TypeOK
  BY <1>1, ReadFrame
<1>3. /\ NumBlocks \in Nat /\ start_block \in Nat
      /\ num_blocks \in Nat /\ start_block + num_blocks <= NumBlocks
      /\ current_block_offset \in 0..num_blocks
      /\ Len(prefetched_rows) \in Nat /\ Len(prefetched_rows) <= current_block_offset
      /\ Len(prefetched_rows) <= PrefetchBlocks
      /\ prefetched_rows \in Seq(Seq(Row))
  BY <1>1, ReadFrame DEF TypeOK
<1>4. PICK m \in Nat : m + 1 = Len(prefetched_rows) /\ m + 1 <= current_block_offset
                         /\ m <= PrefetchBlocks
  <2>1. Len(prefetched_rows) > 0
    BY <1>1, <1>3, HeadElements
  <2>2. PrefetchBlocks \in Nat
    BY DEF ScanAssumption
  <2>3. PICK k \in Nat : k = Len(prefetched_rows) /\ k <= current_block_offset /\ k <= PrefetchBlocks
                           /\ k > 0 /\ current_block_offset \in Nat
    BY <1>3, <2>1
  <2>4. k - 1 \in Nat /\ k - 1 + 1 = k /\ k - 1 <= PrefetchBlocks
    BY <2>2, <2>3
  <2> QED BY <2>3, <2>4
<1>5. /\ current_rows' = prefetched_rows[1] /\ current_rows' \in Seq(Row)
      /\ prefetched_rows' \in Seq(Seq(Row)) /\ Len(prefetched_rows') = m
      /\ \A i \in 1..m : prefetched_rows'[i] = prefetched_rows[i + 1]
  <2>1. /\ Head(prefetched_rows) \in Seq(Row) /\ Head(prefetched_rows) = prefetched_rows[1]
        /\ Tail(prefetched_rows) \in Seq(Seq(Row))
        /\ Len(Tail(prefetched_rows)) = Len(prefetched_rows) - 1
        /\ \A i \in 1..Len(prefetched_rows) - 1 :
             Tail(prefetched_rows)[i] = prefetched_rows[i + 1]
    BY <1>1, <1>3, HeadElements
  <2>2. Len(prefetched_rows) - 1 = m
    BY <1>4
  <2> QED BY <1>1, <2>1, <2>2
<1>6. PICK c \in Nat : c = NextBegun /\ NextBegun' = c + 1 /\ c \in 0..NumBlocks - 1
  <2>1. PICK s \in Nat : s = start_block + current_block_offset /\ s <= NumBlocks /\ m + 1 <= s
    BY <1>3, <1>4
  <2>2. BatchStart = s /\ BatchStart' = s
    <3>1. BatchStart' = start_block' + current_block_offset'
      BY DEF BatchStart
    <3>2. BatchStart = start_block + current_block_offset
      BY DEF BatchStart
    <3> QED BY <1>1, <2>1, <3>1, <3>2
  <2>3. NextBegun = s - (m + 1)
    <3>1. NextBegun = BatchStart - Len(prefetched_rows)
      BY DEF NextBegun
    <3> QED BY <1>4, <2>2, <3>1
  <2>4. NextBegun' = s - m
    <3>1. NextBegun' = BatchStart' - Len(prefetched_rows')
      BY DEF NextBegun
    <3> QED BY <1>5, <2>2, <3>1
  <2> QED BY <1>3, <2>1, <2>3, <2>4
<1>7. TypeOK'
  BY <1>1, <1>2, <1>4, <1>5 DEF TypeOK
<1>8. Len(prefetched_rows)' <= current_block_offset'
  BY <1>1, <1>3, <1>4, <1>5
<1>9. ASSUME NEW w, KeptBlocks(w)' PROVE DeliveredInv(w)'
  <2>1. DeliveredInv(w) /\ KeptBlocks(w)
    BY <1>1, <1>2, <1>9 DEF ScanInv
  <2>2. /\ output \o << >> = w[c]
        /\ \A i \in 1..m + 1 : prefetched_rows[i] = Decoded(c + i - 1)
    BY <1>1, <1>4, <1>6, <2>1 DEF DeliveredInv
  <2>3. output = w[c]
    BY <1>2, <2>2, ConcatEmptySeq DEF TypeOK
  <2>4. w[c + 1] = w[c] \o Decoded(c)
    BY <1>6, <2>1 DEF KeptBlocks
  <2>5. current_rows' = Decoded(c)
    <3>1. 1 \in 1..m + 1 /\ c + 1 - 1 = c
      BY <1>4
    <3> QED BY <1>5, <2>2, <3>1
  <2>6. output' \o current_rows' = w[c + 1]
    BY <1>1, <2>3, <2>4, <2>5
  <2>7. ASSUME NEW i \in 1..m PROVE prefetched_rows'[i] = Decoded(c + 1 + i - 1)
    <3>1. i + 1 \in 1..m + 1 /\ c + (i + 1) - 1 = c + 1 + i - 1
      BY <1>4
    <3> QED BY <1>5, <2>2, <3>1
  <2> QED BY <1>2, <1>5, <1>6, <2>6, <2>7 DEF DeliveredInv
<1> QED BY <1>2, <1>7, <1>8, <1>9 DEF ScanInv

\* The first of the rows that are left goes to the end of those delivered.
LEMMA HeadMoves ==
  ASSUME NEW s \in Seq(Row), NEW t \in Seq(Row), t # << >>
  PROVE  Append(s, Head(t)) \o Tail(t) = s \o t
<1>1. Head(t) \in Row /\ Tail(t) \in Seq(Row) /\ <<Head(t)>> \in Seq(Row)
  BY HeadElements
<1>2. t = <<Head(t)>> \o Tail(t)
  <2>1. /\ Len(t) \in Nat \ {0} /\ Head(t) = t[1] /\ Len(Tail(t)) = Len(t) - 1
        /\ \A i \in 1..Len(t) - 1 : Tail(t)[i] = t[i + 1]
    BY HeadElements, SequenceFacts
  <2>2. Len(<<Head(t)>>) = 1 /\ <<Head(t)>>[1] = Head(t)
    OBVIOUS
  <2> DEFINE u == <<Head(t)>> \o Tail(t)
  <2>3. /\ u \in Seq(Row) /\ Len(u) = Len(<<Head(t)>>) + Len(Tail(t))
        /\ \A i \in 1..Len(<<Head(t)>>) + Len(Tail(t)) :
             u[i] = IF i <= Len(<<Head(t)>>) THEN <<Head(t)>>[i] ELSE Tail(t)[i - Len(<<Head(t)>>)]
    BY <1>1, ConcatProperties
  <2> HIDE DEF u
  <2>4. Len(u) = Len(t)
    BY <2>1, <2>2, <2>3
  <2>5. ASSUME NEW i \in 1..Len(t) PROVE u[i] = t[i]
    <3>1. CASE i = 1
      BY <2>1, <2>2, <2>3, <3>1
    <3>2. CASE i # 1
      <4>1. PICK k \in 1..Len(t) - 1 : k = i - 1 /\ i = k + 1
        BY <2>1, <3>2
      <4>2. u[i] = Tail(t)[k]
        BY <2>1, <2>2, <2>3, <3>2, <4>1
      <4> QED BY <2>1, <4>1, <4>2
    <3> QED BY <3>1, <3>2
  <2>6. u = t
    BY <2>3, <2>4, <2>5, SeqEqual
  <2> QED BY <2>6 DEF u
<1>3. Append(s, Head(t)) = s \o <<Head(t)>>
  BY <1>1, AppendIsConcat
<1>4. ASSUME NEW v \in Seq(Row), NEW x \in Seq(Row), NEW y \in Seq(Row)
      PROVE  (v \o x) \o y = v \o (x \o y)
  BY ConcatAssociative, SMTT(30)
<1>5. (s \o <<Head(t)>>) \o Tail(t) = s \o (<<Head(t)>> \o Tail(t))
  BY <1>1, <1>4
<1> QED BY <1>2, <1>3, <1>5

LEMMA NextRowInv ==
  ASSUME ScanAssumption, ScanInv, NextRow
  PROVE  ScanInv'
<1>1. /\ current_rows # << >> /\ output' = Append(output, Head(current_rows))
      /\ current_rows' = Tail(current_rows)
      /\ UNCHANGED <<inputVars, phase, searchVars, current_block_offset, prefetched_rows>>
      /\ lo' = lo /\ hi' = hi /\ start_block' = start_block /\ num_blocks' = num_blocks
      /\ phase = "scan"
  BY DEF NextRow, searchVars, ScanInv, SearchInv
<1>2. /\ InputsOK' /\ NumBlocks' = NumBlocks /\ SearchInv' /\ phase' = "scan"
      /\ \A b : Decoded(b)' = Decoded(b)
      /\ \A w : KeptBlocks(w)' = KeptBlocks(w)
      /\ InputsOK /\ TypeOK
  BY <1>1, ReadFrame
<1>3. current_rows \in Seq(Row) /\ output \in Seq(Row)
  BY <1>2 DEF TypeOK
<1>4. output' \in Seq(Row) /\ current_rows' \in Seq(Row)
  BY <1>1, <1>3, HeadElements, AppendElements
<1>5. output' \o current_rows' = output \o current_rows
  BY <1>1, <1>3, HeadMoves
<1>6. TypeOK'
  BY <1>1, <1>2, <1>4 DEF TypeOK
<1>7. Len(prefetched_rows)' <= current_block_offset'
  BY <1>1 DEF ScanInv
<1>8. ASSUME NEW w, KeptBlocks(w)' PROVE DeliveredInv(w)'
  <2>1. DeliveredInv(w)
    BY <1>1, <1>2, <1>8 DEF ScanInv
  <2>2. NextBegun' = NextBegun
    BY <1>1 DEF NextBegun, BatchStart
  <2> QED BY <1>1, <1>2, <1>5, <2>1, <2>2 DEF DeliveredInv
<1> QED BY <1>2, <1>6, <1>7, <1>8 DEF ScanInv

LEMMA StutterInv ==
  ASSUME ScanAssumption, ScanInv, UNCHANGED vars
  PROVE  ScanInv'
<1>1. UNCHANGED <<inputVars, phase, searchVars, current_block_offset, prefetched_rows,
                  current_rows, output>>
  BY DEF vars
<1>2. /\ lo' = lo /\ hi' = hi /\ start_block' = start_block /\ num_blocks' = num_blocks
      /\ phase' = phase /\ current_block_offset' = current_block_offset
      /\ prefetched_rows' = prefetched_rows /\ current_rows' = current_rows /\ output' = output
  BY <1>1 DEF searchVars
<1>3. /\ NumBlocks' = NumBlocks /\ InputsOK' = InputsOK /\ Restricted' = Restricted
      /\ LowerBound' = LowerBound /\ UpperBound' = UpperBound
      /\ \A b : BelowRange(b)' = BelowRange(b) /\ AboveRange(b)' = AboveRange(b)
      /\ \A b : Decoded(b)' = Decoded(b)
      /\ \A w : KeptBlocks(w)' = KeptBlocks(w)
  BY <1>1, InputsUnchanged
<1>4. TypeOK'
  BY <1>2, <1>3 DEF TypeOK, ScanInv
<1>5. SearchInv'
  BY <1>2, <1>3 DEF SearchInv, ScanInv
<1>6. ASSUME NEW w, KeptBlocks(w)', phase' = "scan" PROVE DeliveredInv(w)'
  <2>1. DeliveredInv(w)
    BY <1>2, <1>3, <1>6 DEF ScanInv
  <2>2. NextBegun' = NextBegun
    BY <1>2 DEF NextBegun, BatchStart
  <2> QED BY <1>2, <1>3, <2>1, <2>2 DEF DeliveredInv
<1> QED BY <1>2, <1>3, <1>4, <1>5, <1>6 DEF ScanInv

\* Every step preserves the invariant.
LEMMA NextInv ==
  ASSUME ScanAssumption, ScanInv, [Next]_vars
  PROVE  ScanInv'
<1>1. CASE OpenFile
  BY <1>1, OpenFileInv
<1>2. CASE ProbeLower
  BY <1>2, ProbeLowerInv
<1>3. CASE EndLower
  BY <1>3, EndLowerInv
<1>4. CASE ProbeUpper
  BY <1>4, ProbeUpperInv
<1>5. CASE EndUpper
  BY <1>5, EndUpperInv
<1>6. CASE Refill
  BY <1>6, RefillInv
<1>7. CASE NextBlock
  BY <1>7, NextBlockInv
<1>8. CASE NextRow
  BY <1>8, NextRowInv
<1>9. CASE NextNone \/ UNCHANGED vars
  BY <1>9, StutterInv DEF NextNone
<1> QED BY <1>1, <1>2, <1>3, <1>4, <1>5, <1>6, <1>7, <1>8, <1>9 DEF Next

-----------------------------------------------------------------------------
(* What the invariant implies *)

\* The invariant holds in every state of every behavior.
THEOREM ScanInvariant == Spec => []ScanInv
<1>1. ScanAssumption
  BY ScanAssumption
<1>2. Init => ScanInv
  BY <1>1, InitInv
<1>3. ScanInv /\ [Next]_vars => ScanInv'
  BY <1>1, NextInv
<1> QED BY <1>2, <1>3, PTL DEF Spec

\* The state is well typed: the searches and the range stay within the file and no
\* more than a batch of blocks is held.
THEOREM TypeCorrect == Spec => []TypeOK
<1>1. ScanInv => TypeOK
  BY DEF ScanInv
<1> QED BY <1>1, ScanInvariant, PTL

LEMMA BegunWithin ==
  ASSUME ScanInv, phase = "scan"
  PROVE  /\ NextBegun \in 0..NumBlocks /\ BatchStart = NextBegun + Len(prefetched_rows)
         /\ BatchStart \in Nat
<1>1. /\ NumBlocks \in Nat /\ start_block \in Nat
      /\ num_blocks \in Nat /\ start_block + num_blocks <= NumBlocks
      /\ current_block_offset \in 0..num_blocks
  BY BlockFacts DEF ScanInv, TypeOK
<1>2. PICK m \in Nat : m = Len(prefetched_rows) /\ m <= current_block_offset
  BY SequenceFacts DEF ScanInv, TypeOK
<1>3. PICK s \in 0..NumBlocks : s = BatchStart /\ m <= s
  <2>1. BatchStart = start_block + current_block_offset
    BY DEF BatchStart
  <2> QED BY <1>1, <1>2, <2>1
<1>4. s - m \in 0..NumBlocks /\ s = s - m + m /\ s \in Nat
  BY <1>1, <1>2, <1>3
<1>5. NextBegun = s - m
  BY <1>2, <1>3 DEF NextBegun
<1> QED BY <1>2, <1>3, <1>4, <1>5

LEMMA InvKeepsMatches ==
  ASSUME ScanAssumption, ScanInv
  PROVE  NoMatchSkipped
<1> DEFINE ahead == UNION {ToSet(table[b + 1]) : b \in BlocksAhead}
           waiting == UNION {ToSet(prefetched_rows[i]) : i \in DOMAIN prefetched_rows}
           held == ToSet(output) \cup ToSet(current_rows) \cup waiting
<1>1. InputsOK /\ TypeOK /\ SearchInv
  BY DEF ScanInv
<1>2. /\ NumBlocks \in Nat /\ DOMAIN table = 1..NumBlocks /\ table \in Seq(Seq(Row))
      /\ \A b \in 0..NumBlocks - 1 : table[b + 1] \in Seq(Row)
  BY <1>1, BlockFacts
<1>3. ASSUME NEW b \in 0..NumBlocks - 1, NEW row \in ToSet(table[b + 1]), Satisfies(row)
      PROVE  row \in ahead \cup held
  <2>1. b \in BlocksAhead => row \in ahead
    OBVIOUS
  <2>2. ~ (KeysInOrder /\ (BelowRange(b) \/ AboveRange(b)))
    BY <1>1, <1>3, RuledOut
  <2>3. Restricted => KeysInOrder
    BY <1>1 DEF Restricted, InputsOK
  <2>4. CASE phase # "scan"
    <3>1. phase = "new" \/ phase = "lower" \/ phase = "upper"
      BY <1>1, <2>4 DEF TypeOK
    <3>2. /\ phase = "lower" => ~ (b < lo)
          /\ phase = "upper" => ~ (b < start_block) /\ ~ (b >= hi)
      BY <1>1, <2>2, <2>3 DEF SearchInv
    <3>3. lo \in 0..NumBlocks /\ hi \in 0..NumBlocks /\ start_block \in 0..NumBlocks
      BY <1>1 DEF TypeOK
    <3>4. b \in BlocksAhead
      BY <1>2, <3>1, <3>2, <3>3 DEF BlocksAhead
    <3> QED BY <2>1, <3>4
  <2>5. CASE phase = "scan"
    <3>1. b \in start_block..start_block + num_blocks - 1
      BY <1>1, <2>2, <2>3, <2>5 DEF SearchInv
    <3>2. /\ start_block \in Nat /\ num_blocks \in Nat /\ start_block + num_blocks <= NumBlocks
          /\ current_block_offset \in 0..num_blocks /\ prefetched_rows \in Seq(Seq(Row))
          /\ output \in Seq(Row) /\ current_rows \in Seq(Row)
      BY <1>1, <1>2 DEF TypeOK
    <3>3. /\ Len(prefetched_rows) \in Nat /\ Len(prefetched_rows) <= current_block_offset
          /\ DOMAIN prefetched_rows = 1..Len(prefetched_rows)
      BY <3>2, SequenceFacts DEF ScanInv
    <3>4. PICK c \in 0..NumBlocks : /\ c = NextBegun /\ BatchStart = c + Len(prefetched_rows)
                                    /\ BatchStart \in Nat
      BY <2>5, BegunWithin
    <3>5. PICK w : KeptBlocks(w)
      BY <1>2, KeptTable
    <3>6. /\ output \o current_rows = w[c]
          /\ \A i \in 1..Len(prefetched_rows) : prefetched_rows[i] = Decoded(c + i - 1)
      BY <2>5, <3>4, <3>5 DEF ScanInv, DeliveredInv
    <3>7. row \in ToSet(Decoded(b))
      BY <1>2, <1>3, KeptElements DEF Decoded
    <3>8. CASE b < c
      <4>1. b \in 0..c - 1
        BY <3>4, <3>8
      <4>2. row \in ToSet(w[c])
        BY <1>2, <3>5, <3>7, <4>1, BlockWithin
      <4>3. row \in ToSet(output) \cup ToSet(current_rows)
        <5>1. ToSet(output \o current_rows) = ToSet(output) \cup ToSet(current_rows)
          BY <3>2, ConcatElements
        <5> QED BY <3>6, <4>2, <5>1
      <4> QED BY <4>3
    <3>9. CASE c <= b /\ b < BatchStart
      <4>1. PICK i \in 1..Len(prefetched_rows) : c + i - 1 = b
        <5>1. b - c + 1 \in 1..Len(prefetched_rows) /\ c + (b - c + 1) - 1 = b
          BY <3>3, <3>4, <3>9
        <5> QED BY <5>1
      <4>2. row \in ToSet(prefetched_rows[i]) /\ i \in DOMAIN prefetched_rows
        BY <3>3, <3>6, <3>7, <4>1
      <4> QED BY <4>2
    <3>10. CASE BatchStart <= b
      <4>1. b \in BlocksAhead
        BY <2>5, <3>1, <3>2, <3>4, <3>10 DEF BlocksAhead
      <4> QED BY <2>1, <4>1
    <3> QED BY <3>4, <3>8, <3>9, <3>10
  <2> QED BY <2>4, <2>5
<1> HIDE DEF ahead, held
<1>4. ASSUME NEW b \in DOMAIN table, NEW row \in ToSet(table[b]), Satisfies(row)
      PROVE  row \in ahead \cup held
  <2>1. PICK c \in 0..NumBlocks - 1 : b = c + 1
    <3>1. b - 1 \in 0..NumBlocks - 1 /\ b = b - 1 + 1
      BY <1>2
    <3> QED BY <3>1
  <2> QED BY <1>3, <1>4, <2>1
<1> QED BY <1>4 DEF NoMatchSkipped, ahead, held

\* Every row that satisfies the predicates is delivered, held, or in a block the scan
\* has still to read: no search rules out a block with such a row, and no batch, block
\* or row is lost on the way.
THEOREM NoRowSkipped == Spec => []NoMatchSkipped
<1>1. ScanInv => NoMatchSkipped
  BY ScanAssumption, InvKeepsMatches
<1> QED BY <1>1, ScanInvariant, PTL

LEMMA InvTight ==
  ASSUME ScanAssumption, ScanInv
  PROVE  RangeIsTight
<1>1. InputsOK /\ TypeOK /\ SearchInv
  BY DEF ScanInv
<1>2. SUFFICES ASSUME Restricted, phase = "scan",
                      NEW b \in start_block..start_block + num_blocks - 1,
                      NEW i \in DOMAIN predicates, predicates[i].op # "NE"
               PROVE  \E key \in FirstKey(b)..LastKey(b) : Holds(predicates[i], key)
  BY DEF RangeIsTight
<1>3. b \in 0..NumBlocks - 1
  <2>1. NumBlocks \in Nat /\ start_block \in Nat /\ num_blocks \in Nat
          /\ start_block + num_blocks <= NumBlocks
    BY <1>1, BlockFacts DEF TypeOK
  <2> QED BY <2>1
<1>4. ~ BelowRange(b) /\ ~ AboveRange(b)
  BY <1>1, <1>2, <1>3 DEF SearchInv
<1>5. KeysInOrder
  BY <1>1, <1>2 DEF InputsOK, Restricted
<1> QED BY <1>1, <1>2, <1>3, <1>4, <1>5, InsideHolds

\* On an ordered column the searches leave no block in the range that one of the
\* predicates rules out as a whole.
THEOREM RangeExact == Spec => []RangeIsTight
<1>1. ScanInv => RangeIsTight
  BY ScanAssumption, InvTight
<1> QED BY <1>1, ScanInvariant, PTL

LEMMA StepRefines ==
  ASSUME ScanAssumption, ScanInv, [Next]_vars
  PROVE  [Abstract!Deliver]_<<Kept(AllRows), output>>
<1>1. InputsOK /\ TypeOK /\ SearchInv
  BY DEF ScanInv
<1>2. UNCHANGED inputVars
  BY DEF Next, OpenFile, ProbeLower, EndLower, ProbeUpper, EndUpper, Refill, NextBlock,
         NextRow, NextNone, vars
<1>3. Kept(AllRows)' = Kept(AllRows)
  BY <1>2, InputsUnchanged
<1>4. CASE NextRow
  <2>1. /\ current_rows # << >> /\ output' = Append(output, Head(current_rows))
        /\ phase = "scan"
    BY <1>1, <1>4 DEF NextRow, SearchInv
  <2>2. /\ NumBlocks \in Nat /\ table \in Seq(Seq(Row))
        /\ output \in Seq(Row) /\ current_rows \in Seq(Row)
        /\ prefetched_rows \in Seq(Seq(Row))
        /\ start_block \in Nat /\ num_blocks \in Nat /\ start_block + num_blocks <= NumBlocks
        /\ current_block_offset \in 0..num_blocks
    BY <1>1, BlockFacts DEF TypeOK
  <2>3. PICK w : KeptBlocks(w)
    BY <2>2, KeptTable
  <2>4. w[NumBlocks] = Kept(AllRows) /\ output \o current_rows = w[NextBegun]
    BY <2>1, <2>2, <2>3, KeptTable DEF ScanInv, DeliveredInv
  <2>5. PICK c \in 0..NumBlocks : c = NextBegun
    BY <2>1, BegunWithin
  <2>6. Begins(w[c], w[NumBlocks])
    <3>1. NumBlocks \in c..NumBlocks
      BY <2>2, <2>5
    <3> QED BY <2>2, <2>3, <3>1, BlocksGrow
  <2> DEFINE n == Len(output)
             u == output \o current_rows
  <2>7. /\ n \in Nat /\ n + 1 \in 1..Len(u) /\ u[n + 1] = Head(current_rows)
    <3>1. n \in Nat /\ Len(current_rows) \in Nat \ {0} /\ current_rows[1] = Head(current_rows)
      BY <2>1, <2>2, SequenceFacts, HeadElements
    <3>2. /\ Len(u) = n + Len(current_rows)
          /\ \A i \in 1..n + Len(current_rows) :
               u[i] = IF i <= n THEN output[i] ELSE current_rows[i - n]
      BY <2>2, ConcatProperties
    <3> HIDE DEF n, u
    <3>3. PICK i \in 1..n + Len(current_rows) : i = n + 1 /\ ~ (i <= n) /\ i - n = 1
      BY <3>1
    <3>4. u[i] = current_rows[i - n]
      BY <3>2, <3>3
    <3> QED BY <3>1, <3>2, <3>3, <3>4
  <2>8. Len(w[NumBlocks]) \in Nat /\ Len(u) \in Nat
    <3>1. w[NumBlocks] \in Seq(Row) /\ u \in Seq(Row)
      BY <2>2, <2>3, ConcatProperties DEF KeptBlocks
    <3> QED BY <3>1, SequenceFacts
  <2> HIDE DEF n, u
  <2>9. u = w[c]
    BY <2>4, <2>5 DEF u
  <2>10. n < Len(Kept(AllRows)) /\ Kept(AllRows)[n + 1] = Head(current_rows)
    <3>1. Len(u) <= Len(w[NumBlocks]) /\ \A i \in 1..Len(u) : w[NumBlocks][i] = u[i]
      BY <2>6, <2>9 DEF Begins
    <3>2. n < Len(w[NumBlocks]) /\ w[NumBlocks][n + 1] = Head(current_rows)
      BY <2>7, <2>8, <3>1
    <3> QED BY <2>4, <3>2
  <2>11. Abstract!Deliver
    BY <1>3, <2>1, <2>10 DEF Abstract!Deliver, n
  <2> QED BY <2>11
<1>5. CASE ~ NextRow
  <2>1. output' = output
    BY <1>5 DEF Next, OpenFile, ProbeLower, EndLower, ProbeUpper, EndUpper, Refill, NextBlock,
                NextNone, vars
  <2> QED BY <1>3, <2>1
<1> QED BY <1>4, <1>5

\* A restricted scan delivers the rows of the whole table that satisfy the predicates,
\* in the order of the table: no row out of turn, none twice, none left out before one
\* that is delivered.
THEOREM ScanRefines == Spec => ImplementsFilteredScan
<1>1. Init => Abstract!ScanInit
  BY DEF Init, Abstract!ScanInit
<1>2. ScanInv /\ [Next]_vars => [Abstract!Deliver]_<<Kept(AllRows), output>>
  BY ScanAssumption, StepRefines
<1> QED BY <1>1, <1>2, ScanInvariant, PTL DEF Spec, ImplementsFilteredScan, Abstract!ScanSpec
=============================================================================
