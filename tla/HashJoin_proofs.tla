--------------------------- MODULE HashJoin_proofs ---------------------------
(***************************************************************************)
(* Proofs about the hash join, for every set of keys and other predicates, *)
(* every budget, hash function and number of partitions, and every input.  *)
(***************************************************************************)
EXTENDS HashJoin, SequenceLemmas

-----------------------------------------------------------------------------
(* Choosing the elements of a sequence *)

ChooseStep(prefix, e, chosen) == IF e \in chosen THEN Append(prefix, e) ELSE prefix

\* kept[n] has the chosen ones of the first n elements.
ChoosesAmong(kept, s, chosen) ==
  /\ kept[0] = << >>
  /\ \A n \in Nat : kept[n + 1] = ChooseStep(kept[n], s[n + 1], chosen)

LEMMA AmongByPrefix ==
  ASSUME NEW S, NEW s \in Seq(S), NEW chosen
  PROVE  \E kept : ChoosesAmong(kept, s, chosen) /\ kept[Len(s)] = Among(s, chosen)
<1> DEFINE T == {s[n] : n \in Nat}
           step == [x \in Seq(T) \X Nat |-> ChooseStep(x[1], s[x[2] + 1], chosen)]
           Eq(k) == k = [n \in Nat |-> IF n = 0 THEN << >>
                                       ELSE IF s[n] \in chosen THEN Append(k[n - 1], s[n])
                                       ELSE k[n - 1]]
<1>1. step \in [Seq(T) \X Nat -> Seq(T)]
  <2>1. ASSUME NEW v \in Seq(T), NEW n \in Nat
        PROVE  ChooseStep(v, s[n + 1], chosen) \in Seq(T)
    <3>1. s[n + 1] \in T
      OBVIOUS
    <3> HIDE DEF T
    <3> QED BY <3>1 DEF ChooseStep
  <2> HIDE DEF T
  <2> QED BY <2>1
<1>2. << >> \in Seq(T)
  OBVIOUS
<1>3. PICK f \in [Nat -> Seq(T)] : Iterates(f, << >>, step)
  <2> HIDE DEF step, T
  <2> QED BY <1>1, <1>2, NaturalRecursion
<1>4. ASSUME NEW n \in Nat PROVE f[n + 1] = ChooseStep(f[n], s[n + 1], chosen)
  <2>1. f[n + 1] = step[<<f[n], n>>] /\ <<f[n], n>> \in Seq(T) \X Nat
    <3> HIDE DEF step, T
    <3> QED BY <1>3 DEF Iterates
  <2> HIDE DEF T
  <2> QED BY <2>1
<1> HIDE DEF step
<1>5. Eq(f)
  <2> DEFINE r == [n \in Nat |-> IF n = 0 THEN << >>
                                 ELSE IF s[n] \in chosen THEN Append(f[n - 1], s[n])
                                 ELSE f[n - 1]]
  <2>1. ASSUME NEW n \in Nat PROVE f[n] = r[n]
    <3>1. CASE n = 0
      BY <1>3, <3>1 DEF Iterates
    <3>2. CASE n # 0
      <4>1. n - 1 \in Nat /\ n - 1 + 1 = n
        BY <3>2
      <4>2. f[n] = ChooseStep(f[n - 1], s[n], chosen)
        BY <1>4, <4>1
      <4> QED BY <3>2, <4>2 DEF ChooseStep
    <3> QED BY <3>1, <3>2
  <2>2. f \in [Nat -> Seq(T)] /\ r = [n \in Nat |-> r[n]]
    BY <1>3
  <2> HIDE DEF r, T
  <2>3. f = r
    BY <2>1, <2>2
  <2> QED BY <2>3 DEF r
<1> DEFINE kept == CHOOSE k : Eq(k)
<1>6. Eq(kept)
  <2> HIDE DEF Eq
  <2> QED BY <1>5
<1>7. Among(s, chosen) = kept[Len(s)]
  BY DEF Among
<1> HIDE DEF kept
<1>8. ChoosesAmong(kept, s, chosen)
  <2>1. kept[0] = << >>
    BY <1>6
  <2>2. ASSUME NEW n \in Nat PROVE kept[n + 1] = ChooseStep(kept[n], s[n + 1], chosen)
    <3>1. n + 1 \in Nat /\ n + 1 # 0 /\ n + 1 - 1 = n
      OBVIOUS
    <3>2. kept[n + 1] = IF s[n + 1] \in chosen THEN Append(kept[n + 1 - 1], s[n + 1])
                        ELSE kept[n + 1 - 1]
      <4> DEFINE r == [i \in Nat |-> IF i = 0 THEN << >>
                                     ELSE IF s[i] \in chosen THEN Append(kept[i - 1], s[i])
                                     ELSE kept[i - 1]]
      <4>1. kept = r
        BY <1>6
      <4>2. r[n + 1] = IF s[n + 1] \in chosen THEN Append(kept[n + 1 - 1], s[n + 1])
                       ELSE kept[n + 1 - 1]
        BY <3>1
      <4> HIDE DEF r
      <4> QED BY <4>1, <4>2
    <3> QED BY <3>1, <3>2 DEF ChooseStep
  <2> QED BY <2>1, <2>2 DEF ChoosesAmong
<1> QED BY <1>7, <1>8

\* The chosen elements, each as often as it was there, at most once if it was.
LEMMA AmongElements ==
  ASSUME NEW S, NEW s \in Seq(S), NEW chosen
  PROVE  /\ Among(s, chosen) \in Seq(S)
         /\ ToSet(Among(s, chosen)) = ToSet(s) \cap chosen
         /\ IsInjective(s) => IsInjective(Among(s, chosen))
<1>1. Len(s) \in Nat /\ DOMAIN s = 1..Len(s) /\ s \in [1..Len(s) -> S]
      /\ ToSet(s) = {s[i] : i \in 1..Len(s)}
  BY SequenceFacts
<1>2. PICK kept : ChoosesAmong(kept, s, chosen) /\ kept[Len(s)] = Among(s, chosen)
  BY AmongByPrefix
<1> DEFINE First(n) == {s[i] : i \in 1..n}
           Chosen(n) == /\ kept[n] \in Seq(S)
                        /\ ToSet(kept[n]) = First(n) \cap chosen
                        /\ IsInjective(s) => IsInjective(kept[n])
           G == {n \in Nat : n <= Len(s) => Chosen(n)}
<1>3. 0 \in G
  <2>1. kept[0] = << >>
    BY <1>2 DEF ChoosesAmong
  <2>2. First(0) = {}
    OBVIOUS
  <2> HIDE DEF First
  <2> QED BY <2>1, <2>2, EmptyElements
<1>4. ASSUME NEW n \in G PROVE n + 1 \in G
  <2>1. n \in Nat /\ n + 1 \in Nat
    OBVIOUS
  <2>2. SUFFICES ASSUME n + 1 <= Len(s) PROVE Chosen(n + 1)
    BY <2>1
  <2>3. Chosen(n)
    BY <1>1, <2>1, <2>2
  <2>4. /\ kept[n + 1] = ChooseStep(kept[n], s[n + 1], chosen)
        /\ s[n + 1] \in S /\ n + 1 \in 1..Len(s)
    BY <1>1, <1>2, <2>1, <2>2 DEF ChoosesAmong
  <2>5. First(n + 1) = First(n) \cup {s[n + 1]}
    BY <2>1
  <2>6. IsInjective(s) => s[n + 1] \notin First(n)
    BY <1>1, <2>1, <2>2 DEF IsInjective
  <2> HIDE DEF First, G
  <2>7. CASE s[n + 1] \in chosen
    <3>1. kept[n + 1] = Append(kept[n], s[n + 1])
      BY <2>4, <2>7 DEF ChooseStep
    <3>2. /\ kept[n + 1] \in Seq(S) /\ ToSet(kept[n + 1]) = ToSet(kept[n]) \cup {s[n + 1]}
          /\ IsInjective(kept[n + 1]) <=>
               IsInjective(kept[n]) /\ s[n + 1] \notin ToSet(kept[n])
      BY <2>3, <2>4, <3>1, AppendElements
    <3> QED BY <2>3, <2>5, <2>6, <2>7, <3>2
  <2>8. CASE s[n + 1] \notin chosen
    <3>1. kept[n + 1] = kept[n]
      BY <2>4, <2>8 DEF ChooseStep
    <3> QED BY <2>3, <2>5, <2>8, <3>1
  <2> QED BY <2>7, <2>8
<1> HIDE DEF Chosen
<1>5. G = Nat
  <2>1. G \in SUBSET Nat
    OBVIOUS
  <2> HIDE DEF G
  <2> QED BY <1>3, <1>4, <2>1, SetInduction
<1>6. Chosen(Len(s))
  BY <1>1, <1>5
<1> QED BY <1>1, <1>2, <1>6 DEF Chosen

-----------------------------------------------------------------------------
(* Pairs of a row of each side *)

PairSet == InputRow \X InputRow

LEMMA SideFacts ==
  \A side \in Sides :
    /\ Other(side) \in Sides /\ Other(side) # side /\ Other(Other(side)) = side
    /\ \A t \in Sides : t = side \/ t = Other(side)
  BY DEF Sides, Other

LEMMA PairFacts ==
  ASSUME NEW side \in Sides
  PROVE  /\ \A r \in InputRow, q \in InputRow :
              /\ Pair(side, r, q) \in PairSet
              /\ RowOf(Pair(side, r, q), side) = r
              /\ RowOf(Pair(side, r, q), Other(side)) = q
         /\ \A p \in PairSet :
              /\ RowOf(p, side) \in InputRow /\ RowOf(p, Other(side)) \in InputRow
              /\ p = Pair(side, RowOf(p, side), RowOf(p, Other(side)))
              /\ \/ RowOf(p, side) = p[1] /\ RowOf(p, Other(side)) = p[2]
                 \/ RowOf(p, side) = p[2] /\ RowOf(p, Other(side)) = p[1]
  BY DEF Sides, Other, Pair, RowOf, PairSet

LEMMA PairsWithElements ==
  ASSUME NEW side \in Sides, NEW rows \in Seq(InputRow), NEW row \in InputRow
  PROVE  /\ PairsWith(side, rows, row) \in Seq(PairSet)
         /\ \A p \in PairSet : p \in ToSet(PairsWith(side, rows, row)) <=>
              RowOf(p, side) \in ToSet(rows) /\ RowOf(p, Other(side)) = row
         /\ IsInjective(rows) => IsInjective(PairsWith(side, rows, row))
<1> DEFINE ps == PairsWith(side, rows, row)
           n  == Len(rows)
<1>1. n \in Nat /\ DOMAIN rows = 1..n /\ (\A i \in 1..n : rows[i] \in InputRow)
      /\ ToSet(rows) = {rows[i] : i \in 1..n}
  BY SequenceFacts
<1> HIDE DEF n
<1>2. \A i \in 1..n : ps[i] = Pair(side, rows[i], row) /\ ps[i] \in PairSet
  BY <1>1, PairFacts DEF PairsWith, n
<1>3. ps = [i \in 1..n |-> ps[i]]
  BY DEF PairsWith, n
<1> HIDE DEF ps
<1>4. ps \in [1..n -> PairSet]
  BY <1>2, <1>3
<1>5. ps \in Seq(PairSet) /\ DOMAIN ps = 1..n /\ ToSet(ps) = {ps[i] : i \in 1..n}
  BY <1>1, <1>4, FunctionIsSequence, SequenceFacts
<1>6. ASSUME NEW p \in PairSet
      PROVE  p \in ToSet(ps) <=> RowOf(p, side) \in ToSet(rows) /\ RowOf(p, Other(side)) = row
  <2>1. ASSUME NEW i \in 1..n, p = ps[i]
        PROVE  RowOf(p, side) = rows[i] /\ RowOf(p, Other(side)) = row
    BY <1>1, <1>2, <2>1, PairFacts
  <2>2. ASSUME NEW i \in 1..n, RowOf(p, side) = rows[i], RowOf(p, Other(side)) = row
        PROVE  p = ps[i]
    BY <1>1, <1>2, <2>2, PairFacts
  <2> QED BY <1>1, <1>5, <2>1, <2>2
<1>7. ASSUME IsInjective(rows), NEW i \in 1..n, NEW j \in 1..n, ps[i] = ps[j] PROVE i = j
  <2>1. rows[i] = rows[j]
    BY <1>1, <1>2, <1>7, PairFacts
  <2> QED BY <1>1, <1>7, <2>1 DEF IsInjective
<1> QED BY <1>5, <1>6, <1>7 DEF ps, IsInjective

LEMMA FoundElements ==
  ASSUME NEW side \in Sides, NEW rows \in Seq(InputRow), NEW row \in InputRow
  PROVE  /\ Found(side, rows, row) \in Seq(PairSet)
         /\ \A p \in PairSet : p \in ToSet(Found(side, rows, row)) <=>
              /\ RowOf(p, side) \in ToSet(rows) /\ RowOf(p, Other(side)) = row
              /\ Matches(p[1], p[2])
         /\ IsInjective(rows) => IsInjective(Found(side, rows, row))
<1> DEFINE hits == {r \in InputRow : LET p == Pair(side, r, row) IN Matches(p[1], p[2])}
           some == Among(rows, hits)
<1>1. Found(side, rows, row) = PairsWith(side, some, row)
  BY DEF Found
<1>2. some \in Seq(InputRow) /\ ToSet(some) = ToSet(rows) \cap hits
      /\ (IsInjective(rows) => IsInjective(some))
  <2> HIDE DEF hits
  <2> QED BY AmongElements
<1>3. ASSUME NEW p \in PairSet, RowOf(p, Other(side)) = row
      PROVE  RowOf(p, side) \in hits <=> Matches(p[1], p[2])
  <2>1. p = Pair(side, RowOf(p, side), row) /\ RowOf(p, side) \in InputRow
    BY <1>3, PairFacts
  <2> QED BY <2>1
<1> HIDE DEF hits, some
<1> QED BY <1>1, <1>2, <1>3, PairsWithElements

LEMMA ReverseElements ==
  ASSUME NEW S, NEW s \in Seq(S)
  PROVE  /\ Reverse(s) \in Seq(S) /\ ToSet(Reverse(s)) = ToSet(s)
         /\ IsInjective(s) => IsInjective(Reverse(s))
<1> DEFINE n == Len(s)
           r == Reverse(s)
<1>1. n \in Nat /\ DOMAIN s = 1..n /\ s \in [1..n -> S] /\ ToSet(s) = {s[i] : i \in 1..n}
  BY SequenceFacts
<1>2. r = [i \in 1..n |-> s[n - i + 1]]
  BY DEF Reverse
<1> HIDE DEF n, r
<1>3. \A i \in 1..n : n - i + 1 \in 1..n /\ n - (n - i + 1) + 1 = i
  BY <1>1
<1>4. r \in [1..n -> S]
  BY <1>1, <1>2, <1>3
<1>5. r \in Seq(S) /\ DOMAIN r = 1..n /\ ToSet(r) = {r[i] : i \in 1..n}
  BY <1>1, <1>4, FunctionIsSequence, SequenceFacts
<1>6. \A i \in 1..n : r[i] = s[n - i + 1] /\ s[i] = r[n - i + 1]
  BY <1>1, <1>2, <1>3
<1>7. ToSet(r) = ToSet(s)
  BY <1>1, <1>3, <1>5, <1>6
<1>8. ASSUME IsInjective(s), NEW i \in 1..n, NEW j \in 1..n, r[i] = r[j] PROVE i = j
  <2>1. n - i + 1 = n - j + 1
    BY <1>1, <1>3, <1>6, <1>8 DEF IsInjective
  <2> QED BY <1>1, <2>1
<1> QED BY <1>5, <1>7, <1>8 DEF r, IsInjective

LEMMA ScannedElements ==
  ASSUME NEW a, a.side \in Sides, a.rows \in Seq(InputRow), NEW row \in InputRow
  PROVE  /\ ScannedWith(a, row) \in Seq(PairSet)
         /\ \A p \in PairSet : p \in ToSet(ScannedWith(a, row)) <=>
              /\ RowOf(p, Other(a.side)) \in ToSet(a.rows) /\ RowOf(p, a.side) = row
              /\ Residual(p[1], p[2])
         /\ IsInjective(a.rows) => IsInjective(ScannedWith(a, row))
<1> DEFINE hits == {r \in InputRow : LET p == Pair(a.side, row, r) IN Residual(p[1], p[2])}
           back == Reverse(a.rows)
           some == Among(back, hits)
<1>1. ScannedWith(a, row) = PairsWith(Other(a.side), some, row)
  BY DEF ScannedWith
<1>2. back \in Seq(InputRow) /\ ToSet(back) = ToSet(a.rows)
      /\ (IsInjective(a.rows) => IsInjective(back))
  BY ReverseElements
<1>3. some \in Seq(InputRow) /\ ToSet(some) = ToSet(back) \cap hits
      /\ (IsInjective(back) => IsInjective(some))
  <2> HIDE DEF hits, back
  <2> QED BY <1>2, AmongElements
<1>4. ASSUME NEW p \in PairSet, RowOf(p, a.side) = row
      PROVE  RowOf(p, Other(a.side)) \in hits <=> Residual(p[1], p[2])
  <2>1. p = Pair(a.side, row, RowOf(p, Other(a.side))) /\ RowOf(p, Other(a.side)) \in InputRow
    BY <1>4, PairFacts
  <2> QED BY <2>1
<1>5. Other(a.side) \in Sides /\ Other(Other(a.side)) = a.side
  BY SideFacts
<1> HIDE DEF hits, some, back
<1> QED BY <1>1, <1>2, <1>3, <1>4, <1>5, PairsWithElements

-----------------------------------------------------------------------------
(* Splitting the rows of both sides into files *)

Parts == 0..NumPartitions - 1

TaskSet == [file : [Sides -> Nat], depth : 0..MaxDepth]

NewTask(part, depth) == [file |-> [side \in Sides |-> FileOf(part, side)], depth |-> depth]

\* What may be split, and how deep.
Splits(rows, depth) ==
  /\ rows \in [Sides -> Seq(InputRow)] /\ depth \in 0..MaxDepth
  /\ next_id \in Nat /\ hash \in HashFunctions

LEMMA HashTyped ==
  ASSUME hash \in HashFunctions, NEW row \in InputRow, NEW depth \in 0..MaxDepth
  PROVE  hash[row.key, depth] \in Parts
<1>1. hash \in [Keys \X (0..MaxDepth) -> 0..NumPartitions - 1]
  BY JoinAssumption
<1>2. row.key \in Keys
  BY DEF InputRow
<1> QED BY <1>1, <1>2 DEF Parts

LEMMA FileNumbers ==
  ASSUME next_id \in Nat
  PROVE  /\ \A p \in Parts : \A s \in Sides :
              /\ FileOf(p, s) \in Nat
              /\ next_id <= FileOf(p, s) /\ FileOf(p, s) < next_id + 2 * NumPartitions
              /\ PartOf(FileOf(p, s)) = p /\ SideOf(FileOf(p, s)) = s
         /\ \A p, q \in Parts : \A s, t \in Sides : FileOf(p, s) = FileOf(q, t) => p = q /\ s = t
<1>1. NumPartitions \in Nat
  BY JoinAssumption
<1>2. ASSUME NEW p \in Parts, NEW s \in Sides
      PROVE  /\ FileOf(p, s) \in Nat
             /\ next_id <= FileOf(p, s) /\ FileOf(p, s) < next_id + 2 * NumPartitions
             /\ PartOf(FileOf(p, s)) = p /\ SideOf(FileOf(p, s)) = s
  <2>1. p \in Nat /\ p <= NumPartitions - 1
    BY <1>1 DEF Parts
  <2>2. CASE s = "left"
    <3>1. FileOf(p, s) = next_id + 2 * p
      BY <2>1, <2>2 DEF FileOf
    <3>2. FileOf(p, s) - next_id = 2 * p
      BY <2>1, <3>1
    <3>3. (2 * p) \div 2 = p /\ (2 * p) % 2 = 0
      BY <2>1
    <3> QED BY <1>1, <2>1, <2>2, <3>1, <3>2, <3>3 DEF PartOf, SideOf
  <2>3. CASE s = "right"
    <3>1. FileOf(p, s) = next_id + 2 * p + 1
      BY <2>1, <2>3 DEF FileOf
    <3>2. FileOf(p, s) - next_id = 2 * p + 1
      BY <2>1, <3>1
    <3>3. (2 * p + 1) \div 2 = p /\ (2 * p + 1) % 2 = 1
      BY <2>1
    <3> QED BY <1>1, <2>1, <2>3, <3>1, <3>2, <3>3 DEF PartOf, SideOf
  <2> QED BY <2>2, <2>3 DEF Sides
<1> QED BY <1>2

LEMMA PartitionElements ==
  ASSUME NEW rows \in Seq(InputRow), NEW depth, NEW part
  PROVE  /\ InPartition(rows, depth, part) \in Seq(InputRow)
         /\ \A r : r \in ToSet(InPartition(rows, depth, part)) <=>
              r \in ToSet(rows) /\ hash[r.key, depth] = part
         /\ IsInjective(rows) => IsInjective(InPartition(rows, depth, part))
<1> DEFINE those == {row \in InputRow : hash[row.key, depth] = part}
<1>1. InPartition(rows, depth, part) = Among(rows, those)
  BY DEF InPartition
<1>2. \A r \in ToSet(rows) : r \in those <=> hash[r.key, depth] = part
  BY SequenceFacts
<1> HIDE DEF those
<1>3. /\ Among(rows, those) \in Seq(InputRow)
      /\ ToSet(Among(rows, those)) = ToSet(rows) \cap those
      /\ IsInjective(rows) => IsInjective(Among(rows, those))
  BY AmongElements
<1> QED BY <1>1, <1>2, <1>3

LEMMA TasksElements ==
  ASSUME NEW rows, NEW depth, Splits(rows, depth)
  PROVE  /\ Tasks(rows, depth) \in Seq(TaskSet) /\ IsInjective(Tasks(rows, depth))
         /\ ToSet(Tasks(rows, depth)) = {NewTask(p, depth) : p \in KeptParts(rows, depth)}
<1> DEFINE all   == [i \in 1..NumPartitions |-> i - 1]
           parts == Among(all, KeptParts(rows, depth))
           n     == Len(parts)
           tasks == Tasks(rows, depth)
<1>1. NumPartitions \in Nat
  BY JoinAssumption
<1>2. all \in Seq(Parts) /\ Len(all) = NumPartitions /\ DOMAIN all = 1..NumPartitions
  <2>1. all \in [1..NumPartitions -> Parts]
    BY <1>1 DEF Parts
  <2> HIDE DEF all
  <2> QED BY <1>1, <2>1, FunctionIsSequence
<1>3. ToSet(all) = Parts
  <2>1. ToSet(all) = {all[i] : i \in 1..NumPartitions}
    <3> HIDE DEF all
    <3> QED BY <1>2, SequenceFacts
  <2>2. \A p \in Parts : p + 1 \in 1..NumPartitions /\ all[p + 1] = p
    BY <1>1 DEF Parts
  <2>3. \A i \in 1..NumPartitions : all[i] \in Parts
    BY <1>1 DEF Parts
  <2> HIDE DEF all
  <2> QED BY <2>1, <2>2, <2>3
<1>4. IsInjective(all)
  BY <1>1 DEF IsInjective
<1> HIDE DEF all
<1>5. parts \in Seq(Parts) /\ IsInjective(parts) /\ ToSet(parts) = KeptParts(rows, depth)
  <2>1. /\ parts \in Seq(Parts) /\ IsInjective(parts)
        /\ ToSet(parts) = ToSet(all) \cap KeptParts(rows, depth)
    BY <1>2, <1>4, AmongElements
  <2>2. KeptParts(rows, depth) \subseteq Parts
    BY DEF KeptParts, Parts
  <2> QED BY <1>3, <2>1, <2>2
<1>6. tasks = [i \in 1..n |-> NewTask(parts[i], depth)]
  BY DEF Tasks, NewTask, all
<1> HIDE DEF parts, tasks
<1>7. n \in Nat /\ DOMAIN parts = 1..n /\ (\A i \in 1..n : parts[i] \in Parts)
      /\ ToSet(parts) = {parts[i] : i \in 1..n}
  BY <1>5, SequenceFacts
<1> HIDE DEF n
<1>8. ASSUME NEW p \in Parts PROVE NewTask(p, depth) \in TaskSet
  <2>1. [side \in Sides |-> FileOf(p, side)] \in [Sides -> Nat]
    BY FileNumbers DEF Splits
  <2> QED BY <2>1 DEF NewTask, TaskSet, Splits
<1>9. tasks \in [1..n -> TaskSet]
  BY <1>6, <1>7, <1>8
<1>10. tasks \in Seq(TaskSet) /\ DOMAIN tasks = 1..n /\ ToSet(tasks) = {tasks[i] : i \in 1..n}
  BY <1>7, <1>9, FunctionIsSequence, SequenceFacts
<1>11. ASSUME NEW i \in 1..n, NEW j \in 1..n, tasks[i] = tasks[j] PROVE i = j
  <2>1. NewTask(parts[i], depth) = NewTask(parts[j], depth)
    BY <1>6, <1>11
  <2>2. FileOf(parts[i], "left") = FileOf(parts[j], "left")
    <3>1. "left" \in Sides
      BY DEF Sides
    <3>2. \A p : NewTask(p, depth).file["left"] = FileOf(p, "left")
      BY <3>1 DEF NewTask
    <3> QED BY <2>1, <3>2
  <2>3. parts[i] = parts[j]
    BY <1>7, <2>2, FileNumbers DEF Splits, Sides
  <2> QED BY <1>5, <1>7, <2>3 DEF IsInjective
<1>12. ToSet(tasks) = {NewTask(p, depth) : p \in KeptParts(rows, depth)}
  BY <1>5, <1>6, <1>7, <1>10
<1> QED BY <1>10, <1>11, <1>12 DEF IsInjective, tasks

LEMMA NewFilesElements ==
  ASSUME NEW rows, NEW depth, Splits(rows, depth)
  PROVE  NewFiles(rows, depth) =
           UNION {{FileOf(p, s) : s \in Sides} : p \in KeptParts(rows, depth)}
<1>1. ToSet(Tasks(rows, depth)) = {NewTask(p, depth) : p \in KeptParts(rows, depth)}
  BY TasksElements
<1>2. \A p : FilesOf(NewTask(p, depth)) = {FileOf(p, s) : s \in Sides}
  BY DEF FilesOf, NewTask
<1> QED BY <1>1, <1>2 DEF NewFiles

-----------------------------------------------------------------------------
(* The inductive invariant *)

Inputs == [side \in Sides |-> IF side = "left" THEN left ELSE right]

\* The tasks still to be joined.
Open == ToSet(pending_tasks) \cup {a.task : a \in active}

\* The files are those of the tasks in U, none of two, with ids below n.
FilesOwned(U, files, n) ==
  /\ U \subseteq TaskSet
  /\ \A t \in U : \A s \in Sides : t.file[s] \in DOMAIN files
  /\ \A id \in DOMAIN files : id \in Nat /\ id < n /\ \E t \in U : \E s \in Sides : t.file[s] = id
  /\ \A t, u \in U : \A s, s2 \in Sides : t.file[s] = u.file[s2] => t = u /\ s = s2

\* Rows of one side, each at most once.
RowsFrom(rows, input) ==
  rows \in Seq(InputRow) /\ IsInjective(rows) /\ ToSet(rows) \subseteq ToSet(input)

\* The keys of the rows of both sides are not told apart before this depth.
Alike(rows, depth, h) ==
  \A s, t \in Sides : \A r \in ToSet(rows[s]), q \in ToSet(rows[t]) : \A d \in 0..depth - 1 :
    h[<<r.key, d>>] = h[<<q.key, d>>]

\* The files of a task.
Contents(task, files) == [side \in Sides |-> files[task.file[side]]]

\* A file has rows of its side, and the two of a task those of one partition.
FilesFilled(U, files, h, ins) ==
  \A t \in U :
    /\ \A s \in Sides : files[t.file[s]] # << >> /\ RowsFrom(files[t.file[s]], ins[s])
    /\ Alike(Contents(t, files), t.depth + 1, h)

ActiveSet ==
  [kind : {"hash", "nested_loop"}, task : TaskSet, side : Sides, rows : Seq(InputRow),
   read : Nat, inner_read : Nat]

TypeInv ==
  /\ left \in Seq(InputRow) /\ right \in Seq(InputRow)
  /\ IsInjective(left) /\ IsInjective(right)
  /\ left_hint \in Hints /\ right_hint \in Hints /\ hash \in HashFunctions
  /\ state \in {"NotStarted", "InMemoryProbing", "Probing", "Done"}
  /\ pending_tasks \in Seq(TaskSet)
  /\ active \subseteq ActiveSet /\ \A a, b \in active : a = b
  /\ output_buf \in Seq(PairSet) /\ output \in Seq(PairSet)
  /\ next_id \in Nat

FilesInv ==
  /\ FilesOwned(Open, temp, next_id) /\ FilesFilled(Open, temp, hash, Inputs)
  /\ IsInjective(pending_tasks) /\ \A a \in active : a.task \notin ToSet(pending_tasks)

RestInv ==
  /\ rest \in [Sides -> Seq(InputRow)]
  /\ \A s \in Sides : RowsFrom(rest[s], Inputs[s])
  /\ RowsFrom(build_map, Inputs[BuildSide])

\* The rows from position n + 1 on.
RowsAfter(rows, n) == SubSeq(rows, n + 1, Len(rows))

\* The build map of these rows would not fit.
Overfull(rows) == Len(rows) * RowCost > BuildBudget

\* What an active partition has read of its files.
Underway(a, files) ==
  LET build == files[a.task.file[a.side]]
      probe == files[a.task.file[Other(a.side)]]
  IN /\ a.read \in 0..Len(probe) /\ a.inner_read \in 0..Len(build)
     /\ a.kind = "hash" => a.rows = build
     /\ a.kind = "nested_loop" =>
          /\ a.task.depth >= MaxDepth /\ Overfull(build)
          /\ RowsFrom(a.rows, probe)
          /\ ToSet(a.rows) \cap ToSet(RowsAfter(probe, a.read)) = {}

ActiveInv == \A a \in active : Underway(a, temp)

StageInv ==
  /\ state = "NotStarted" =>
       /\ rest = Inputs /\ build_map = << >> /\ output_buf = << >> /\ output = << >>
  /\ state # "Probing" => pending_tasks = << >> /\ active = {}
  /\ state \in {"InMemoryProbing", "Done"} => rest[BuildSide] = << >>
  /\ state \in {"Probing", "Done"} =>
       build_map = << >> /\ rest[BuildSide] = << >> /\ rest[Other(BuildSide)] = << >>
  /\ state = "Done" => output_buf = << >>

JoinInv == TypeInv /\ FilesInv /\ RestInv /\ ActiveInv /\ StageInv

LEMMA InputsSame ==
  ASSUME UNCHANGED inputVars
  PROVE  /\ Inputs' = Inputs /\ BuildSide' = BuildSide
         /\ left' = left /\ right' = right /\ left_hint' = left_hint
         /\ right_hint' = right_hint /\ hash' = hash /\ lookalikes' = lookalikes
  BY DEF inputVars, Inputs, BuildSide

LEMMA BuildSideIsSide == BuildSide \in Sides
  BY DEF BuildSide, Sides

\* What SplitIntoFiles leaves and adds.
LEMMA SplitResult ==
  ASSUME NEW rows, NEW depth, NEW deleted, Splits(rows, depth),
         SplitIntoFiles(rows, depth, deleted),
         \A id \in DOMAIN temp : id \in Nat /\ id < next_id
  PROVE  /\ next_id' \in Nat /\ next_id' = next_id + 2 * NumPartitions
         /\ \A id \in DOMAIN temp \ deleted : id \in DOMAIN temp' /\ temp'[id] = temp[id]
         /\ \A id \in DOMAIN temp' :
              \/ id \in DOMAIN temp \ deleted
              \/ \E p \in KeptParts(rows, depth) : \E s \in Sides : id = FileOf(p, s)
         /\ \A p \in KeptParts(rows, depth) : \A s \in Sides :
              /\ FileOf(p, s) \in DOMAIN temp'
              /\ temp'[FileOf(p, s)] = InPartition(rows[s], depth, p)
<1> DEFINE new == NewFiles(rows, depth)
           old == DOMAIN temp \ deleted
<1>1. temp' = [id \in old \cup new |->
                 IF id < next_id THEN temp[id]
                 ELSE InPartition(rows[SideOf(id)], depth, PartOf(id))]
  BY DEF SplitIntoFiles
<1>2. new = UNION {{FileOf(p, s) : s \in Sides} : p \in KeptParts(rows, depth)}
  BY NewFilesElements
<1>3. \A p \in KeptParts(rows, depth) : \A s \in Sides :
        /\ FileOf(p, s) \in new /\ ~ (FileOf(p, s) < next_id)
        /\ PartOf(FileOf(p, s)) = p /\ SideOf(FileOf(p, s)) = s
  <2>1. ASSUME NEW p \in KeptParts(rows, depth), NEW s \in Sides
        PROVE  ~ (FileOf(p, s) < next_id) /\ PartOf(FileOf(p, s)) = p /\ SideOf(FileOf(p, s)) = s
    <3>1. p \in Parts /\ next_id \in Nat
      BY DEF Splits, KeptParts, Parts
    <3>2. /\ FileOf(p, s) \in Nat /\ next_id <= FileOf(p, s)
          /\ PartOf(FileOf(p, s)) = p /\ SideOf(FileOf(p, s)) = s
      BY <3>1, FileNumbers
    <3> QED BY <3>1, <3>2
  <2> HIDE DEF new
  <2> QED BY <1>2, <2>1
<1>4. next_id' \in Nat /\ next_id' = next_id + 2 * NumPartitions
  BY JoinAssumption DEF SplitIntoFiles, Splits
<1> HIDE DEF new
<1>5. \A id \in old : id \in DOMAIN temp' /\ temp'[id] = temp[id]
  BY <1>1
<1>6. \A id \in DOMAIN temp' :
        \/ id \in old
        \/ \E p \in KeptParts(rows, depth) : \E s \in Sides : id = FileOf(p, s)
  BY <1>1, <1>2
<1> HIDE DEF old
<1>7. \A p \in KeptParts(rows, depth) : \A s \in Sides :
        /\ FileOf(p, s) \in DOMAIN temp'
        /\ temp'[FileOf(p, s)] = InPartition(rows[s], depth, p)
  BY <1>1, <1>3
<1> QED BY <1>4, <1>5, <1>6, <1>7 DEF old

NewTasks(rows, depth) == {NewTask(p, depth) : p \in KeptParts(rows, depth)}

\* The rows of some tasks, or of the inputs, go to new files.
SplitOf(rows, depth, U, D) ==
  /\ FilesOwned(U, temp, next_id) /\ FilesFilled(U, temp, hash, Inputs)
  /\ D \subseteq U
  /\ Splits(rows, depth) /\ SplitIntoFiles(rows, depth, UNION {FilesOf(t) : t \in D})
  /\ \A s \in Sides : RowsFrom(rows[s], Inputs[s])
  /\ Alike(rows, depth, hash)

\* The new files stand in the place of those of the tasks split.
SplitKept(rows, depth, U, D) ==
  /\ FilesOwned((U \ D) \cup NewTasks(rows, depth), temp', next_id')
  /\ FilesFilled((U \ D) \cup NewTasks(rows, depth), temp', hash, Inputs)
  /\ NewTasks(rows, depth) \cap U = {}
  /\ \A t \in U \ D : Contents(t, temp') = Contents(t, temp)
  /\ \A p \in KeptParts(rows, depth) : \A s \in Sides :
       Contents(NewTask(p, depth), temp')[s] = InPartition(rows[s], depth, p)

\* Splitting the rows of some tasks replaces the files of those by the new ones.
LEMMA SplitKeepsFiles ==
  ASSUME NEW rows, NEW depth, NEW U, NEW D, SplitOf(rows, depth, U, D)
  PROVE  SplitKept(rows, depth, U, D)
<1> DEFINE N == NewTasks(rows, depth)
           deleted == UNION {FilesOf(t) : t \in D}
<1>0. /\ D \subseteq U /\ Splits(rows, depth) /\ SplitIntoFiles(rows, depth, deleted)
      /\ FilesOwned(U, temp, next_id) /\ FilesFilled(U, temp, hash, Inputs)
      /\ (\A s \in Sides : RowsFrom(rows[s], Inputs[s])) /\ Alike(rows, depth, hash)
  BY DEF SplitOf
<1>1. N = {NewTask(p, depth) : p \in KeptParts(rows, depth)}
  BY DEF NewTasks
<1> HIDE DEF N
<1> USE <1>0, <1>1
<1> DEFINE K == KeptParts(rows, depth)
<1>2. next_id \in Nat /\ depth \in 0..MaxDepth /\ \A s \in Sides : rows[s] \in Seq(InputRow)
  BY DEF Splits
<1>3. /\ U \subseteq TaskSet
      /\ \A t \in U : \A s \in Sides : t.file[s] \in DOMAIN temp
      /\ \A id \in DOMAIN temp : id \in Nat /\ id < next_id /\ \E t \in U : \E s \in Sides : t.file[s] = id
      /\ \A t, u \in U : \A s, s2 \in Sides : t.file[s] = u.file[s2] => t = u /\ s = s2
  BY DEF FilesOwned
<1>4. /\ next_id' \in Nat /\ next_id' = next_id + 2 * NumPartitions
      /\ \A id \in DOMAIN temp \ deleted : id \in DOMAIN temp' /\ temp'[id] = temp[id]
      /\ \A id \in DOMAIN temp' :
           \/ id \in DOMAIN temp \ deleted
           \/ \E p \in K : \E s \in Sides : id = FileOf(p, s)
      /\ \A p \in K : \A s \in Sides :
           /\ FileOf(p, s) \in DOMAIN temp'
           /\ temp'[FileOf(p, s)] = InPartition(rows[s], depth, p)
  BY <1>3, SplitResult
<1>5. \A p \in K : p \in Parts
  BY DEF KeptParts, Parts
<1>6. /\ \A p \in K : \A s \in Sides :
           /\ FileOf(p, s) \in Nat
           /\ next_id <= FileOf(p, s) /\ FileOf(p, s) < next_id + 2 * NumPartitions
      /\ \A p, q \in K : \A s, t \in Sides : FileOf(p, s) = FileOf(q, t) => p = q /\ s = t
  BY <1>2, <1>5, FileNumbers
<1>7. \A p : NewTask(p, depth).depth = depth /\ \A s \in Sides : NewTask(p, depth).file[s] = FileOf(p, s)
  BY DEF NewTask
<1>8. N \subseteq TaskSet /\ N \cap U = {}
  <2>1. N \subseteq TaskSet
    BY TasksElements, SequenceFacts
  <2>2. ASSUME NEW p \in K, NewTask(p, depth) \in U PROVE FALSE
    <3>1. "left" \in Sides
      BY DEF Sides
    <3>2. FileOf(p, "left") \in DOMAIN temp
      BY <1>3, <1>7, <2>2, <3>1
    <3> QED BY <1>2, <1>3, <1>6, <3>1, <3>2
  <2> QED BY <2>1, <2>2
<1> HIDE DEF K
<1>9. ASSUME NEW t \in U \ D, NEW s \in Sides
      PROVE  t.file[s] \in DOMAIN temp \ deleted /\ t.file[s] < next_id /\ t.file[s] \in Nat
  <2>1. t.file[s] \notin deleted
    <3>1. SUFFICES ASSUME NEW u \in D, t.file[s] \in FilesOf(u) PROVE FALSE
      OBVIOUS
    <3>2. PICK s2 \in Sides : t.file[s] = u.file[s2]
      BY <3>1 DEF FilesOf
    <3> QED BY <1>3, <3>2
  <2> QED BY <1>3, <2>1
<1>10. FilesOwned((U \ D) \cup N, temp', next_id')
  <2>1. (U \ D) \cup N \subseteq TaskSet
    BY <1>3, <1>8
  <2>2. \A t \in (U \ D) \cup N : \A s \in Sides : t.file[s] \in DOMAIN temp'
    BY <1>4, <1>7, <1>9 DEF K
  <2>3. ASSUME NEW id \in DOMAIN temp'
        PROVE  id \in Nat /\ id < next_id' /\ \E t \in (U \ D) \cup N : \E s \in Sides : t.file[s] = id
    <3>1. CASE id \in DOMAIN temp \ deleted
      <4>1. PICK t \in U : \E s \in Sides : t.file[s] = id
        BY <1>3, <3>1
      <4>2. t \notin D
        BY <3>1, <4>1 DEF FilesOf
      <4>3. NumPartitions \in Nat
        BY JoinAssumption
      <4>4. next_id <= next_id'
        BY <1>2, <1>4, <4>3
      <4>5. id \in Nat /\ id < next_id
        BY <1>3, <3>1
      <4> QED BY <1>2, <1>4, <4>1, <4>2, <4>4, <4>5
    <3>2. CASE \E p \in K : \E s \in Sides : id = FileOf(p, s)
      <4>1. PICK p \in K : \E s \in Sides : id = FileOf(p, s)
        BY <3>2
      <4>2. NewTask(p, depth) \in N
        BY <4>1 DEF K
      <4> QED BY <1>4, <1>6, <1>7, <4>1, <4>2
    <3> QED BY <1>4, <3>1, <3>2
  <2>4. ASSUME NEW t \in (U \ D) \cup N, NEW u \in (U \ D) \cup N, NEW s \in Sides, NEW s2 \in Sides,
               t.file[s] = u.file[s2]
        PROVE  t = u /\ s = s2
    <3>1. \A v \in N : \E p \in K : v = NewTask(p, depth) /\ \A z \in Sides : v.file[z] = FileOf(p, z)
      BY <1>7 DEF K
    <3>2. CASE t \in U \ D /\ u \in U \ D
      BY <1>3, <2>4, <3>2
    <3>3. CASE t \in N /\ u \in N
      BY <1>6, <2>4, <3>1, <3>3
    <3>4. CASE t \in U \ D /\ u \in N
      BY <1>2, <1>6, <1>9, <2>4, <3>1, <3>4
    <3>5. CASE t \in N /\ u \in U \ D
      BY <1>2, <1>6, <1>9, <2>4, <3>1, <3>5
    <3> QED BY <3>2, <3>3, <3>4, <3>5
  <2> QED BY <2>1, <2>2, <2>3, <2>4 DEF FilesOwned
<1>11. \A t \in U \ D : Contents(t, temp') = Contents(t, temp)
  BY <1>4, <1>9 DEF Contents
<1>12. \A p \in K : \A s \in Sides :
         Contents(NewTask(p, depth), temp')[s] = InPartition(rows[s], depth, p)
  BY <1>4, <1>7 DEF Contents
<1>13. ASSUME NEW t \in U \ D
       PROVE  /\ \A s \in Sides : temp'[t.file[s]] # << >> /\ RowsFrom(temp'[t.file[s]], Inputs[s])
              /\ Alike(Contents(t, temp'), t.depth + 1, hash)
  <2>1. \A s \in Sides : temp'[t.file[s]] = temp[t.file[s]]
    BY <1>4, <1>9
  <2> QED BY <1>11, <2>1 DEF FilesFilled
<1>14. ASSUME NEW p \in K
       PROVE  /\ \A s \in Sides : LET f == InPartition(rows[s], depth, p)
                                  IN f # << >> /\ RowsFrom(f, Inputs[s])
              /\ Alike(Contents(NewTask(p, depth), temp'), depth + 1, hash)
  <2>1. ASSUME NEW s \in Sides
        PROVE  /\ InPartition(rows[s], depth, p) \in Seq(InputRow)
               /\ \A r : r \in ToSet(InPartition(rows[s], depth, p)) <=>
                    r \in ToSet(rows[s]) /\ hash[r.key, depth] = p
               /\ IsInjective(rows[s]) => IsInjective(InPartition(rows[s], depth, p))
    BY <1>2, PartitionElements
  <2>2. ASSUME NEW s \in Sides
        PROVE  InPartition(rows[s], depth, p) # << >> /\ RowsFrom(InPartition(rows[s], depth, p), Inputs[s])
    <3>1. \E row \in ToSet(rows[s]) : hash[row.key, depth] = p
      BY <1>14 DEF K, KeptParts
    <3>2. InPartition(rows[s], depth, p) # << >>
      BY <2>1, <3>1, EmptyElements
    <3> QED BY <2>1, <3>2 DEF RowsFrom
  <2>3. ASSUME NEW s \in Sides, NEW t \in Sides,
               NEW r \in ToSet(InPartition(rows[s], depth, p)),
               NEW q \in ToSet(InPartition(rows[t], depth, p)),
               NEW d \in 0..(depth + 1) - 1
        PROVE  hash[<<r.key, d>>] = hash[<<q.key, d>>]
    <3>1. /\ r \in ToSet(rows[s]) /\ hash[r.key, depth] = p
          /\ q \in ToSet(rows[t]) /\ hash[q.key, depth] = p
      BY <2>1
    <3>2. CASE d = depth
      BY <3>1, <3>2
    <3>3. CASE d # depth
      <4>1. d \in 0..depth - 1
        BY <1>2, <3>3
      <4> QED BY <3>1, <4>1 DEF Alike
    <3> QED BY <3>2, <3>3
  <2>4. Alike(Contents(NewTask(p, depth), temp'), depth + 1, hash)
    <3>1. PICK both : both = Contents(NewTask(p, depth), temp')
                      /\ \A s \in Sides : both[s] = InPartition(rows[s], depth, p)
      BY <1>12
    <3>2. ASSUME NEW s \in Sides, NEW t \in Sides,
                 NEW r \in ToSet(both[s]), NEW q \in ToSet(both[t]), NEW d \in 0..(depth + 1) - 1
          PROVE  hash[<<r.key, d>>] = hash[<<q.key, d>>]
      <4>1. /\ r \in ToSet(InPartition(rows[s], depth, p))
            /\ q \in ToSet(InPartition(rows[t], depth, p))
        BY <3>1
      <4> QED BY <2>3, <4>1
    <3>3. \A s, t \in Sides : \A r \in ToSet(both[s]), q \in ToSet(both[t]) : \A d \in 0..(depth + 1) - 1 :
            hash[<<r.key, d>>] = hash[<<q.key, d>>]
      BY <3>2, Zenon
    <3>4. Alike(both, depth + 1, hash)
      BY <3>3, Zenon DEF Alike
    <3> QED BY <3>1, <3>4
  <2> QED BY <2>2, <2>4
<1>15. FilesFilled((U \ D) \cup N, temp', hash, Inputs)
  <2>1. ASSUME NEW t \in N
        PROVE  /\ \A s \in Sides : temp'[t.file[s]] # << >> /\ RowsFrom(temp'[t.file[s]], Inputs[s])
               /\ Alike(Contents(t, temp'), t.depth + 1, hash)
    <3>1. PICK p \in K : t = NewTask(p, depth)
      BY DEF K
    <3>2. t.depth = depth /\ \A s \in Sides : temp'[t.file[s]] = InPartition(rows[s], depth, p)
      BY <1>4, <1>7, <3>1
    <3> QED BY <1>14, <3>1, <3>2
  <2> QED BY <1>13, <2>1 DEF FilesFilled
<1> QED BY <1>8, <1>10, <1>11, <1>12, <1>15 DEF K, N, SplitKept

-----------------------------------------------------------------------------
(* Parts of a sequence, and what an active partition has still to read *)

LEMMA SubSeqElements ==
  ASSUME NEW S, NEW s \in Seq(S), NEW lo \in 0..Len(s), NEW hi \in lo..Len(s)
  PROVE  LET x == SubSeq(s, lo + 1, hi)
         IN /\ x \in Seq(S) /\ Len(x) = hi - lo
            /\ x = << >> <=> lo = hi
            /\ x # << >> => Head(x) = s[lo + 1]
            /\ ToSet(x) = {s[i] : i \in lo + 1..hi}
            /\ IsInjective(s) => IsInjective(x)
<1> DEFINE x == SubSeq(s, lo + 1, hi)
<1>1. Len(s) \in Nat /\ DOMAIN s = 1..Len(s) /\ s \in [1..Len(s) -> S]
  BY SequenceFacts
<1>2. lo \in Nat /\ hi \in Nat /\ lo <= hi /\ hi <= Len(s)
  BY <1>1
<1>3. \A i \in lo + 1..hi : i \in 1..Len(s)
  BY <1>1, <1>2
<1>4. /\ x \in Seq(S) /\ Len(x) = hi - lo
      /\ \A i \in 1..hi - lo : x[i] = s[lo + i]
  <2>1. /\ x \in Seq(S) /\ Len(x) = (IF lo + 1 <= hi THEN hi - (lo + 1) + 1 ELSE 0)
        /\ \A i \in 1..hi - (lo + 1) + 1 : x[i] = s[lo + 1 + i - 1]
    BY <1>1, <1>2, <1>3, SubSeqProperties
  <2>2. \A i \in 1..hi - lo : lo + 1 + i - 1 = lo + i
    BY <1>2
  <2>3. hi - (lo + 1) + 1 = hi - lo
    BY <1>2
  <2>4. (IF lo + 1 <= hi THEN hi - (lo + 1) + 1 ELSE 0) = hi - lo
    BY <1>2
  <2> QED BY <2>1, <2>2, <2>3, <2>4
<1> HIDE DEF x
<1>5. /\ DOMAIN x = 1..hi - lo /\ ToSet(x) = {x[i] : i \in 1..hi - lo}
      /\ (x = << >> <=> hi - lo = 0)
  BY <1>4, SequenceFacts
<1>6. ToSet(x) = {s[i] : i \in lo + 1..hi}
  <2>1. \A i \in 1..hi - lo : lo + i \in lo + 1..hi
    BY <1>2
  <2>2. \A i \in lo + 1..hi : i - lo \in 1..hi - lo /\ lo + (i - lo) = i
    BY <1>2
  <2>3. \A i \in 1..hi - lo : x[i] = s[lo + i]
    BY <1>4
  <2>4. \A i \in lo + 1..hi : s[i] = x[i - lo]
    BY <2>2, <2>3
  <2>5. ToSet(x) = {x[i] : i \in 1..hi - lo}
    BY <1>5
  <2>6. ASSUME NEW i \in 1..hi - lo PROVE x[i] \in {s[j] : j \in lo + 1..hi}
    BY <2>1, <2>3
  <2>7. ASSUME NEW i \in lo + 1..hi PROVE s[i] \in {x[j] : j \in 1..hi - lo}
    BY <2>2, <2>4
  <2> QED BY <2>5, <2>6, <2>7
<1>7. ASSUME IsInjective(s) PROVE IsInjective(x)
  <2>1. ASSUME NEW i \in 1..hi - lo, NEW j \in 1..hi - lo, x[i] = x[j] PROVE i = j
    <3>1. lo + i \in 1..Len(s) /\ lo + j \in 1..Len(s)
      BY <1>1, <1>2
    <3>2. s[lo + i] = s[lo + j]
      BY <1>4, <2>1
    <3>3. lo + i = lo + j
      BY <1>1, <1>7, <3>1, <3>2 DEF IsInjective
    <3> QED BY <1>2, <3>3
  <2> QED BY <1>5, <2>1 DEF IsInjective
<1>8. x = << >> <=> lo = hi
  BY <1>2, <1>5
<1>9. ASSUME x # << >> PROVE Head(x) = s[lo + 1]
  <2>1. Head(x) = x[1]
    BY <1>4, <1>9, HeadElements
  <2>2. 1 \in 1..hi - lo
    BY <1>2, <1>8, <1>9
  <2> QED BY <1>4, <2>1, <2>2
<1> QED BY <1>4, <1>6, <1>7, <1>8, <1>9 DEF x

LEMMA AfterElements ==
  ASSUME NEW S, NEW rows \in Seq(S), NEW n \in 0..Len(rows)
  PROVE  /\ RowsAfter(rows, n) \in Seq(S)
         /\ RowsAfter(rows, n) = << >> <=> n = Len(rows)
         /\ RowsAfter(rows, n) # << >> =>
              Head(RowsAfter(rows, n)) = rows[n + 1] /\ n + 1 \in 1..Len(rows)
         /\ ToSet(RowsAfter(rows, n)) = {rows[i] : i \in n + 1..Len(rows)}
         /\ ToSet(RowsAfter(rows, n)) \subseteq ToSet(rows)
         /\ n = 0 => ToSet(RowsAfter(rows, n)) = ToSet(rows)
         /\ n < Len(rows) => RowsAfter(rows, n) # << >>
         /\ n < Len(rows) /\ IsInjective(rows) =>
              /\ n + 1 \in 0..Len(rows)
              /\ ToSet(RowsAfter(rows, n)) = {rows[n + 1]} \cup ToSet(RowsAfter(rows, n + 1))
              /\ rows[n + 1] \notin ToSet(RowsAfter(rows, n + 1))
<1> DEFINE L == Len(rows)
<1>1. L \in Nat /\ DOMAIN rows = 1..L /\ ToSet(rows) = {rows[i] : i \in 1..L}
  BY SequenceFacts
<1>2. n \in 0..L
  OBVIOUS
<1>3. ASSUME NEW k \in 0..L
      PROVE  /\ RowsAfter(rows, k) \in Seq(S)
             /\ RowsAfter(rows, k) = << >> <=> k = L
             /\ RowsAfter(rows, k) # << >> => Head(RowsAfter(rows, k)) = rows[k + 1]
             /\ ToSet(RowsAfter(rows, k)) = {rows[i] : i \in k + 1..L}
  <2>1. L \in k..L
    BY <1>1
  <2> DEFINE x == SubSeq(rows, k + 1, L)
  <2>2. L = Len(rows) /\ k \in 0..L /\ rows \in Seq(S)
    BY <1>3
  <2> HIDE DEF L
  <2>3. x \in Seq(S) /\ Len(x) = L - k
    BY <2>1, <2>2, SubSeqElements
  <2>4. x = << >> <=> k = L
    <3> HIDE DEF x
    <3>1. x = << >> <=> Len(x) = 0
      BY <2>3, SequenceFacts
    <3>2. L - k = 0 <=> k = L
      BY <1>1, <2>2
    <3> QED BY <2>3, <3>1, <3>2
  <2>5. x # << >> => Head(x) = rows[k + 1]
    BY <2>1, <2>2, SubSeqElements
  <2>6. ToSet(x) = {rows[i] : i \in k + 1..L}
    BY <2>1, <2>2, SubSeqElements
  <2>7. RowsAfter(rows, k) = x
    BY <2>2 DEF RowsAfter
  <2> QED BY <2>3, <2>4, <2>5, <2>6, <2>7
<1> HIDE DEF L
<1>4. ASSUME n < L, IsInjective(rows)
      PROVE  /\ n + 1 \in 0..L
             /\ ToSet(RowsAfter(rows, n)) = {rows[n + 1]} \cup ToSet(RowsAfter(rows, n + 1))
             /\ rows[n + 1] \notin ToSet(RowsAfter(rows, n + 1))
  <2>1. n + 1 \in 0..L /\ n + 1 \in 1..L
    BY <1>1, <1>2, <1>4
  <2>2. ToSet(RowsAfter(rows, n + 1)) = {rows[i] : i \in (n + 1) + 1..L}
    BY <1>3, <2>1
  <2>3. n + 1..L = {n + 1} \cup ((n + 1) + 1..L)
    BY <1>1, <1>2, <1>4
  <2>4. \A i \in (n + 1) + 1..L : i \in 1..L /\ i # n + 1
    BY <1>1, <1>2
  <2>5. rows[n + 1] \notin ToSet(RowsAfter(rows, n + 1))
    BY <1>1, <1>4, <2>1, <2>2, <2>4 DEF IsInjective
  <2> QED BY <1>2, <1>3, <2>1, <2>2, <2>3, <2>5
<1>5. /\ RowsAfter(rows, n) \in Seq(S) /\ (RowsAfter(rows, n) = << >> <=> n = L)
      /\ RowsAfter(rows, n) # << >> => Head(RowsAfter(rows, n)) = rows[n + 1]
      /\ ToSet(RowsAfter(rows, n)) = {rows[i] : i \in n + 1..L}
  BY <1>2, <1>3
<1>6. n # L => n + 1 \in 1..L
  BY <1>1, <1>2
<1>7. \A i \in n + 1..L : i \in 1..L
  BY <1>1, <1>2
<1>8. ToSet(RowsAfter(rows, n)) \subseteq ToSet(rows)
  BY <1>1, <1>5, <1>7
<1>9. ASSUME n = 0 PROVE ToSet(RowsAfter(rows, n)) = ToSet(rows)
  <2>1. n + 1 = 1
    BY <1>9
  <2> QED BY <1>1, <1>5, <2>1
<1>10. n < L => n # L
  BY <1>1, <1>2
<1> QED BY <1>4, <1>5, <1>6, <1>8, <1>9, <1>10 DEF L

\* An outer batch is the rows that it takes off the front of those to come.
LEMMA BatchElements ==
  ASSUME NEW rows \in Seq(InputRow), IsInjective(rows), NEW n \in 0..Len(rows)
  PROVE  LET batch == OuterBatch(rows, n)
             m     == n + Len(batch)
         IN /\ batch \in Seq(InputRow) /\ IsInjective(batch) /\ ToSet(batch) \subseteq ToSet(rows)
            /\ m \in 0..Len(rows)
            /\ ToSet(RowsAfter(rows, n)) = ToSet(batch) \cup ToSet(RowsAfter(rows, m))
            /\ ToSet(batch) \cap ToSet(RowsAfter(rows, m)) = {}
<1> DEFINE hi == Min({n + OuterBatchRows, Len(rows)})
           batch == OuterBatch(rows, n)
<1>1. /\ Len(rows) \in Nat /\ DOMAIN rows = 1..Len(rows)
      /\ ToSet(rows) = {rows[i] : i \in 1..Len(rows)}
      /\ n \in Nat /\ n <= Len(rows) /\ OuterBatchRows \in Nat
  BY SequenceFacts, JoinAssumption
<1>2. hi \in n..Len(rows)
  <2> DEFINE T == {n + OuterBatchRows, Len(rows)}
  <2>1. \E x \in T : \A y \in T : x <= y
    BY <1>1
  <2>2. hi \in T /\ \A y \in T : hi <= y
    <3> HIDE DEF T
    <3>1. Min(T) \in T /\ \A y \in T : Min(T) <= y
      BY <2>1 DEF Min
    <3> QED BY <3>1 DEF T
  <2>3. hi \in Nat /\ n <= hi /\ hi <= Len(rows)
    BY <1>1, <2>2
  <2> QED BY <1>1, <2>3
<1> HIDE DEF hi
<1>3. /\ batch \in Seq(InputRow) /\ Len(batch) = hi - n /\ IsInjective(batch)
      /\ ToSet(batch) = {rows[i] : i \in n + 1..hi}
  <2>1. batch = SubSeq(rows, n + 1, hi)
    BY DEF OuterBatch, hi
  <2> HIDE DEF batch
  <2> QED BY <1>2, <2>1, SubSeqElements
<1> HIDE DEF batch
<1>4. n + Len(batch) = hi /\ hi \in 0..Len(rows) /\ hi \in Nat /\ n <= hi
  BY <1>1, <1>2, <1>3
<1>5. /\ ToSet(RowsAfter(rows, n)) = {rows[i] : i \in n + 1..Len(rows)}
      /\ ToSet(RowsAfter(rows, hi)) = {rows[i] : i \in hi + 1..Len(rows)}
  BY <1>4, AfterElements
<1>6. n + 1..Len(rows) = (n + 1..hi) \cup (hi + 1..Len(rows))
  BY <1>1, <1>4
<1>7. /\ \A i \in n + 1..hi : i \in 1..Len(rows)
      /\ \A i \in hi + 1..Len(rows) : i \in 1..Len(rows) /\ i \notin n + 1..hi
  BY <1>1, <1>4
<1>8. ToSet(batch) \subseteq ToSet(rows)
  BY <1>1, <1>3, <1>7
<1>9. ToSet(RowsAfter(rows, n)) = ToSet(batch) \cup ToSet(RowsAfter(rows, hi))
  BY <1>3, <1>5, <1>6
<1>10. ToSet(batch) \cap ToSet(RowsAfter(rows, hi)) = {}
  BY <1>1, <1>3, <1>5, <1>7 DEF IsInjective
<1> QED BY <1>3, <1>4, <1>8, <1>9, <1>10 DEF batch

-----------------------------------------------------------------------------
(* Facts that the steps share *)

LEMMA TaskRows ==
  ASSUME TypeInv, FilesInv, NEW t \in Open
  PROVE  /\ t \in TaskSet
         /\ \A s \in Sides :
              /\ t.file[s] \in DOMAIN temp
              /\ temp[t.file[s]] \in Seq(InputRow) /\ IsInjective(temp[t.file[s]])
              /\ temp[t.file[s]] # << >> /\ ToSet(temp[t.file[s]]) \subseteq ToSet(Inputs[s])
              /\ RowsIn(t)[s] = temp[t.file[s]]
<1>1. FilesOwned(Open, temp, next_id) /\ FilesFilled(Open, temp, hash, Inputs)
  BY DEF FilesInv
<1>2. t \in TaskSet /\ \A s \in Sides : t.file[s] \in DOMAIN temp
  BY <1>1 DEF FilesOwned
<1>3. \A s \in Sides : temp[t.file[s]] # << >> /\ RowsFrom(temp[t.file[s]], Inputs[s])
  BY <1>1 DEF FilesFilled
<1> QED BY <1>2, <1>3 DEF RowsFrom, RowsIn

LEMMA SmallerSideIsSide == \A t : SmallerSide(t) \in Sides
  BY DEF SmallerSide, Sides

LEMMA ActiveFields ==
  /\ \A a \in ActiveSet :
       /\ a.kind \in {"hash", "nested_loop"} /\ a.task \in TaskSet /\ a.side \in Sides
       /\ a.rows \in Seq(InputRow) /\ a.read \in Nat /\ a.inner_read \in Nat
  /\ \A t \in TaskSet : t.file \in [Sides -> Nat] /\ t.depth \in 0..MaxDepth
  BY DEF ActiveSet, TaskSet

\* The files that an active partition reads.
BuildFile(a, files) == files[a.task.file[a.side]]
ProbeFile(a, files) == files[a.task.file[Other(a.side)]]

FilesRead(a, files) ==
  /\ BuildFile(a, files) \in Seq(InputRow) /\ IsInjective(BuildFile(a, files))
  /\ ProbeFile(a, files) \in Seq(InputRow) /\ IsInjective(ProbeFile(a, files))

\* The probe file of a hashed partition is read on.
LEMMA UnderwayProbe ==
  ASSUME NEW a \in ActiveSet, NEW files, FilesRead(a, files), Underway(a, files),
         a.kind = "hash", RowsAfter(ProbeFile(a, files), a.read) # << >>
  PROVE  LET b == [a EXCEPT !.read = @ + 1]
         IN b \in ActiveSet /\ Underway(b, files)
<1> DEFINE b == [a EXCEPT !.read = @ + 1]
<1>1. /\ b \in ActiveSet /\ b.kind = "hash" /\ b.task = a.task /\ b.side = a.side
      /\ b.rows = a.rows /\ b.inner_read = a.inner_read /\ b.read = a.read + 1
  BY DEF ActiveSet
<1>2. PICK probe : probe = ProbeFile(a, files)
  OBVIOUS
<1>3. a.read \in 0..Len(probe) /\ probe \in Seq(InputRow)
  BY <1>2 DEF Underway, FilesRead, ProbeFile
<1>4. a.read + 1 \in 1..Len(probe)
  BY <1>2, <1>3, AfterElements
<1>5. Len(probe) \in Nat
  BY <1>3, SequenceFacts
<1>6. a.read + 1 \in 0..Len(probe)
  BY <1>4, <1>5
<1> HIDE DEF b
<1> QED BY <1>1, <1>2, <1>6 DEF Underway, ProbeFile, b

\* The inner file of a nested loop is read on.
LEMMA UnderwayScan ==
  ASSUME NEW a \in ActiveSet, NEW files, FilesRead(a, files), Underway(a, files),
         a.kind = "nested_loop", RowsAfter(BuildFile(a, files), a.inner_read) # << >>
  PROVE  LET b == [a EXCEPT !.inner_read = @ + 1]
         IN b \in ActiveSet /\ Underway(b, files)
<1> DEFINE b == [a EXCEPT !.inner_read = @ + 1]
<1>1. /\ b \in ActiveSet /\ b.kind = "nested_loop" /\ b.task = a.task /\ b.side = a.side
      /\ b.rows = a.rows /\ b.read = a.read /\ b.inner_read = a.inner_read + 1
  BY DEF ActiveSet
<1>2. PICK build : build = BuildFile(a, files)
  OBVIOUS
<1>3. a.inner_read \in 0..Len(build) /\ build \in Seq(InputRow)
  BY <1>2 DEF Underway, FilesRead, BuildFile
<1>4. a.inner_read + 1 \in 1..Len(build)
  BY <1>2, <1>3, AfterElements
<1>5. Len(build) \in Nat
  BY <1>3, SequenceFacts
<1>6. a.inner_read + 1 \in 0..Len(build)
  BY <1>4, <1>5
<1> HIDE DEF b
<1> QED BY <1>1, <1>2, <1>6 DEF Underway, BuildFile, b

\* A nested loop takes its next outer batch, the first one as well.
LEMMA UnderwayBatch ==
  ASSUME NEW a, NEW files, FilesRead(a, files), a.task.depth >= MaxDepth,
         a.task \in TaskSet, a.side \in Sides, Overfull(BuildFile(a, files)),
         NEW n \in 0..Len(ProbeFile(a, files)),
         NEW b, NEW batch, batch = OuterBatch(ProbeFile(a, files), n),
         b.kind = "nested_loop", b.task = a.task, b.side = a.side,
         b.rows = batch, b.read = n + Len(batch), b.inner_read = 0
  PROVE  /\ b.rows \in Seq(InputRow) /\ b.read \in Nat /\ Underway(b, files)
         /\ ToSet(RowsAfter(ProbeFile(a, files), n)) =
              ToSet(b.rows) \cup ToSet(RowsAfter(ProbeFile(a, files), b.read))
<1>1. PICK probe, build : probe = ProbeFile(a, files) /\ build = BuildFile(a, files)
  OBVIOUS
<1>2. probe \in Seq(InputRow) /\ IsInjective(probe) /\ n \in 0..Len(probe)
      /\ build \in Seq(InputRow)
  BY <1>1 DEF FilesRead
<1>3. /\ batch \in Seq(InputRow) /\ IsInjective(batch) /\ ToSet(batch) \subseteq ToSet(probe)
      /\ n + Len(batch) \in 0..Len(probe)
      /\ ToSet(RowsAfter(probe, n)) = ToSet(batch) \cup ToSet(RowsAfter(probe, n + Len(batch)))
      /\ ToSet(batch) \cap ToSet(RowsAfter(probe, n + Len(batch))) = {}
  <2>1. batch = OuterBatch(probe, n)
    BY <1>1
  <2>2. /\ OuterBatch(probe, n) \in Seq(InputRow) /\ IsInjective(OuterBatch(probe, n))
        /\ ToSet(OuterBatch(probe, n)) \subseteq ToSet(probe)
    BY <1>2, BatchElements
  <2>3. n + Len(OuterBatch(probe, n)) \in 0..Len(probe)
    BY <1>2, BatchElements
  <2>4. /\ ToSet(RowsAfter(probe, n)) =
             ToSet(OuterBatch(probe, n)) \cup ToSet(RowsAfter(probe, n + Len(OuterBatch(probe, n))))
        /\ ToSet(OuterBatch(probe, n)) \cap ToSet(RowsAfter(probe, n + Len(OuterBatch(probe, n)))) = {}
    BY <1>2, BatchElements
  <2> QED BY <2>1, <2>2, <2>3, <2>4
<1>4. 0 \in 0..Len(build) /\ n + Len(batch) \in Nat
  <2>1. Len(build) \in Nat /\ Len(probe) \in Nat
    BY <1>2, SequenceFacts
  <2> QED BY <1>3, <2>1
<1>5. Underway(b, files)
  BY <1>1, <1>3, <1>4 DEF Underway, RowsFrom, ProbeFile, BuildFile
<1> QED BY <1>1, <1>3, <1>4, <1>5

\* All of the build side of a hashed partition is in the map before a row is probed.
LEMMA UnderwayHash ==
  ASSUME NEW a, NEW files, FilesRead(a, files), a.task \in TaskSet, a.side \in Sides,
         NEW b, b = [kind |-> "hash", task |-> a.task, side |-> a.side,
                     rows |-> BuildFile(a, files), read |-> 0, inner_read |-> 0]
  PROVE  b \in ActiveSet /\ Underway(b, files)
<1>1. PICK probe, build : probe = ProbeFile(a, files) /\ build = BuildFile(a, files)
  OBVIOUS
<1>2. probe \in Seq(InputRow) /\ build \in Seq(InputRow)
  BY <1>1 DEF FilesRead
<1>3. 0 \in 0..Len(build) /\ 0 \in 0..Len(probe)
  <2>1. Len(build) \in Nat /\ Len(probe) \in Nat
    BY <1>2, SequenceFacts
  <2> QED BY <2>1
<1>4. /\ b.kind = "hash" /\ b.task = a.task /\ b.side = a.side /\ b.rows = build
      /\ b.read = 0 /\ b.inner_read = 0
  BY <1>1
<1>5. b \in ActiveSet
  BY <1>1, <1>2 DEF ActiveSet
<1>6. Underway(b, files)
  BY <1>1, <1>3, <1>4 DEF Underway, ProbeFile, BuildFile
<1> QED BY <1>5, <1>6

\* Tasks for the files that the rows of some tasks, or of the inputs, were split into
\* stand in the place of those.
LEMMA SplitOpens ==
  ASSUME FilesInv, active = {}, active' = {}, UNCHANGED inputVars,
         NEW rows, NEW depth, NEW tail \in Seq(TaskSet), NEW D,
         Open = D \cup ToSet(tail), D \cap ToSet(tail) = {}, IsInjective(tail),
         Splits(rows, depth), SplitIntoFiles(rows, depth, UNION {FilesOf(t) : t \in D}),
         \A s \in Sides : RowsFrom(rows[s], Inputs[s]), Alike(rows, depth, hash),
         pending_tasks' = Tasks(rows, depth) \o tail
  PROVE  /\ pending_tasks' \in Seq(TaskSet) /\ next_id' \in Nat /\ FilesInv'
         /\ ToSet(pending_tasks') = ToSet(tail) \cup NewTasks(rows, depth)
         /\ \A t \in ToSet(tail) : \A s \in Sides : temp'[t.file[s]] = temp[t.file[s]]
         /\ \A p \in KeptParts(rows, depth) : \A s \in Sides :
              temp'[NewTask(p, depth).file[s]] = InPartition(rows[s], depth, p)
<1>1. PICK U : U = Open
  OBVIOUS
<1>2. PICK N : N = NewTasks(rows, depth)
  OBVIOUS
<1>3. D \subseteq U /\ U \ D = ToSet(tail)
  BY <1>1
<1>4. SplitKept(rows, depth, U, D)
  <2>1. SplitOf(rows, depth, U, D)
    BY <1>1, <1>3 DEF SplitOf, FilesInv
  <2> QED BY <2>1, SplitKeepsFiles
<1>5. /\ FilesOwned((U \ D) \cup N, temp', next_id')
      /\ FilesFilled((U \ D) \cup N, temp', hash, Inputs)
      /\ N \cap U = {}
      /\ \A t \in U \ D : Contents(t, temp') = Contents(t, temp)
      /\ \A p \in KeptParts(rows, depth) : \A s \in Sides :
           Contents(NewTask(p, depth), temp')[s] = InPartition(rows[s], depth, p)
  BY <1>2, <1>4 DEF SplitKept
<1>6. /\ Tasks(rows, depth) \in Seq(TaskSet) /\ IsInjective(Tasks(rows, depth))
      /\ ToSet(Tasks(rows, depth)) = N
  BY <1>2, TasksElements DEF NewTasks
<1>7. /\ pending_tasks' \in Seq(TaskSet) /\ ToSet(pending_tasks') = N \cup ToSet(tail)
      /\ IsInjective(pending_tasks')
  <2>1. N \cap ToSet(tail) = {}
    BY <1>3, <1>5
  <2> QED BY <1>6, <2>1, ConcatElements
<1>8. Open' = (U \ D) \cup N
  BY <1>3, <1>7 DEF Open
<1>9. FilesInv'
  BY <1>5, <1>7, <1>8, InputsSame DEF FilesInv
<1>10. next_id' \in Nat
  BY JoinAssumption DEF SplitIntoFiles, Splits
<1>11. \A t : \A s \in Sides :
         Contents(t, temp')[s] = temp'[t.file[s]] /\ Contents(t, temp)[s] = temp[t.file[s]]
  BY DEF Contents
<1>12. \A t \in ToSet(tail) : \A s \in Sides : temp'[t.file[s]] = temp[t.file[s]]
  BY <1>3, <1>5, <1>11
<1>13. \A p \in KeptParts(rows, depth) : \A s \in Sides :
         temp'[NewTask(p, depth).file[s]] = InPartition(rows[s], depth, p)
  BY <1>5, <1>11
<1> QED BY <1>1, <1>2, <1>7, <1>9, <1>10, <1>12, <1>13

\* What is partitioned of the inputs: all of the build side, and every row of the
\* other side with a key that the build side has.
LEMMA PartitionedRows ==
  ASSUME JoinInv, StartPartitioned
  PROVE  \E rows \in [Sides -> Seq(InputRow)] :
           /\ \A s \in Sides : RowsFrom(rows[s], Inputs[s])
           /\ \A r \in ToSet(Inputs[BuildSide]) : \A q \in ToSet(Inputs[Other(BuildSide)]) :
                r.key = q.key =>
                  r \in ToSet(rows[BuildSide]) /\ q \in ToSet(rows[Other(BuildSide)])
           /\ pending_tasks' = Tasks(rows, 0) /\ SplitIntoFiles(rows, 0, {})
           /\ rest' = [side \in Sides |-> << >>] /\ state' = "Probing"
           /\ UNCHANGED <<inputVars, build_map, active, output_buf, output>>
<1> DEFINE build == rest[BuildSide]
           probe == rest[Other(BuildSide)]
<1>1. /\ build \in Seq(InputRow) /\ probe \in Seq(InputRow)
      /\ RowsFrom(build, Inputs[BuildSide]) /\ RowsFrom(probe, Inputs[Other(BuildSide)])
      /\ rest = Inputs
  BY BuildSideIsSide, SideFacts DEF JoinInv, RestInv, StageInv, StartPartitioned
<1>2. PICK n \in 0..Len(build) : PartitionInputs(n)
  <2>1. Len(build) \in Nat
    BY <1>1, SequenceFacts
  <2>2. InMemRows \in Nat
    <3>1. InMemBudget \in Nat /\ InMemRowCost \in Nat \ {0}
      BY JoinAssumption
    <3> QED BY <3>1 DEF InMemRows
  <2>3. Overflowed => InMemRows + 1 \in 0..Len(build)
    BY <2>1, <2>2 DEF Overflowed
  <2>4. 0 \in 0..Len(build)
    BY <2>1
  <2> QED BY <2>3, <2>4 DEF StartPartitioned
<1> DEFINE full == Prefetched(n) \o NotPulled(n)
           some == Among(probe, {row \in InputRow : row.key \in BloomKeys(n)})
           rows == [side \in Sides |-> IF side = BuildSide THEN full ELSE some]
<1>3. full = build
  <2>1. build = SubSeq(build, 1, n) \o SubSeq(build, n + 1, Len(build))
    <3>1. n \in 0..Len(build)
      BY <1>2
    <3> HIDE DEF build
    <3> QED BY <1>1, <3>1, SplitElements
  <2> QED BY <2>1 DEF Prefetched, NotPulled
<1>4. some \in Seq(InputRow) /\ IsInjective(some)
      /\ ToSet(some) = ToSet(probe) \cap {row \in InputRow : row.key \in BloomKeys(n)}
  <2>1. IsInjective(probe)
    BY <1>1 DEF RowsFrom
  <2> HIDE DEF probe
  <2> QED BY <1>1, <2>1, AmongElements
<1>5. ASSUME NEW r \in ToSet(build), NEW q \in ToSet(probe), r.key = q.key PROVE q \in ToSet(some)
  <2>1. r.key \in KeysOf(build)
    <3>1. ToSet(build) = {build[i] : i \in DOMAIN build}
      BY DEF ToSet
    <3> QED BY <3>1 DEF KeysOf
  <2>2. q.key \in BloomKeys(n)
    BY <1>3, <1>5, <2>1 DEF BloomKeys
  <2>3. q \in InputRow
    BY <1>1, SequenceFacts
  <2> QED BY <1>4, <2>2, <2>3
<1>6. /\ pending_tasks' = Tasks(rows, 0) /\ SplitIntoFiles(rows, 0, {})
      /\ rest' = [side \in Sides |-> << >>] /\ state' = "Probing"
      /\ UNCHANGED <<inputVars, build_map, active, output_buf, output>>
  <2> DEFINE r == [side \in Sides |->
                     IF side = BuildSide THEN Prefetched(n) \o NotPulled(n)
                     ELSE Among(rest[side], {row \in InputRow : row.key \in BloomKeys(n)})]
  <2>1. /\ pending_tasks' = Tasks(r, 0) /\ SplitIntoFiles(r, 0, {})
        /\ rest' = [side \in Sides |-> << >>] /\ state' = "Probing"
        /\ UNCHANGED <<inputVars, build_map, active, output_buf, output>>
    BY <1>2 DEF PartitionInputs
  <2>2. \A side \in Sides : r[side] = rows[side]
    BY BuildSideIsSide, SideFacts
  <2>3. r = rows
    BY <2>2
  <2> HIDE DEF r, rows
  <2> QED BY <2>1, <2>3
<1>7. rows[BuildSide] = build /\ rows[Other(BuildSide)] = some
  BY <1>3, BuildSideIsSide, SideFacts
<1>8. rows \in [Sides -> Seq(InputRow)]
  BY <1>1, <1>3, <1>4
<1>9. ToSet(some) \subseteq ToSet(probe)
  BY <1>4
<1> HIDE DEF rows, full, some
<1>10. \A s \in Sides : RowsFrom(rows[s], Inputs[s])
  <2>1. RowsFrom(some, Inputs[Other(BuildSide)])
    BY <1>1, <1>4, <1>9 DEF RowsFrom
  <2> QED BY <1>1, <1>7, <2>1, BuildSideIsSide, SideFacts
<1>11. build = Inputs[BuildSide] /\ probe = Inputs[Other(BuildSide)]
  BY <1>1
<1> HIDE DEF build, probe
<1> QED BY <1>5, <1>6, <1>7, <1>8, <1>10, <1>11

-----------------------------------------------------------------------------
(* The invariant holds at the start and after every step *)

LEMMA StillFiled ==
  ASSUME FilesInv, UNCHANGED <<inputVars, temp, next_id>>, Open' = Open,
         IsInjective(pending_tasks'), \A a \in active' : a.task \notin ToSet(pending_tasks')
  PROVE  FilesInv'
  BY InputsSame DEF FilesInv

LEMMA InputIsRows ==
  ASSUME NEW input \in InputRows
  PROVE  input \in Seq(InputRow) /\ IsInjective(input)
<1>1. PICK n \in 0..MaxInput : \E keys \in [1..n -> Keys] :
        input = [i \in 1..n |-> [key |-> keys[i], id |-> i]]
  BY SMTT(30) DEF InputRows
<1>2. PICK keys \in [1..n -> Keys] : input = [i \in 1..n |-> [key |-> keys[i], id |-> i]]
  BY <1>1
<1>3. n \in Nat /\ n <= MaxInput /\ MaxInput \in Nat
  BY <1>1, JoinAssumption
<1>4. \A i \in 1..n : i \in 1..MaxInput
  BY <1>3
<1>5. \A i \in 1..n : input[i] = [key |-> keys[i], id |-> i] /\ input[i] \in InputRow
  BY <1>2, <1>4 DEF InputRow
<1>6. input \in [1..n -> InputRow]
  BY <1>2, <1>5
<1>7. input \in Seq(InputRow) /\ DOMAIN input = 1..n
  BY <1>3, <1>6, FunctionIsSequence
<1>8. \A i \in 1..n : input[i].id = i
  BY <1>2
<1>9. IsInjective(input)
  BY <1>7, <1>8 DEF IsInjective
<1> QED BY <1>7, <1>9

LEMMA NoRows == \A input : RowsFrom(<< >>, input)
  BY EmptyElements DEF RowsFrom

LEMMA InitJoinInv == Init => JoinInv
<1> SUFFICES ASSUME Init PROVE JoinInv
  OBVIOUS
<1>1. /\ left \in Seq(InputRow) /\ IsInjective(left)
      /\ right \in Seq(InputRow) /\ IsInjective(right)
  BY InputIsRows DEF Init
<1>2. /\ pending_tasks = << >> /\ active = {} /\ temp = << >> /\ next_id = 0
      /\ output_buf = << >> /\ output = << >> /\ build_map = << >> /\ state = "NotStarted"
  BY DEF Init
<1>3. rest = Inputs
  BY DEF Init, Inputs
<1>4. TypeInv
  BY <1>1, <1>2, EmptyElements DEF TypeInv, Init
<1>5. FilesInv
  <2>1. Open = {} /\ DOMAIN temp = {}
    BY <1>2, EmptyElements DEF Open
  <2> QED BY <1>2, <2>1, EmptyElements DEF FilesInv, FilesOwned, FilesFilled
<1>6. RestInv
  <2>1. \A s \in Sides : Inputs[s] \in Seq(InputRow) /\ IsInjective(Inputs[s])
    BY <1>1 DEF Inputs
  <2>2. rest \in [Sides -> Seq(InputRow)]
    BY <1>3, <2>1 DEF Inputs
  <2> QED BY <1>2, <1>3, <2>1, <2>2, NoRows DEF RestInv, RowsFrom
<1>7. ActiveInv
  BY <1>2 DEF ActiveInv
<1>8. StageInv
  BY <1>2, <1>3 DEF StageInv
<1> QED BY <1>4, <1>5, <1>6, <1>7, <1>8 DEF JoinInv

LEMMA BuildInMemoryKeeps == ASSUME JoinInv, BuildInMemory PROVE JoinInv'
<1> USE DEF BuildInMemory
<1>1. /\ UNCHANGED inputVars /\ Inputs' = Inputs /\ BuildSide' = BuildSide
      /\ BuildSide \in Sides /\ pending_tasks = << >> /\ active = {}
  BY InputsSame, BuildSideIsSide DEF JoinInv, StageInv
<1>2. TypeInv'
  BY <1>1, InputsSame DEF JoinInv, TypeInv
<1>3. FilesInv'
  <2>1. Open' = Open
    BY DEF Open
  <2> QED BY <2>1, StillFiled DEF JoinInv, FilesInv
<1>4. RestInv'
  <2>1. /\ rest \in [Sides -> Seq(InputRow)] /\ \A s \in Sides : RowsFrom(rest[s], Inputs[s])
    BY DEF JoinInv, RestInv
  <2>2. rest' = [rest EXCEPT ![BuildSide] = << >>] /\ build_map' = rest[BuildSide]
    OBVIOUS
  <2>3. /\ rest'[BuildSide] = << >> /\ << >> \in Seq(InputRow)
        /\ rest' \in [Sides -> Seq(InputRow)] /\ \A s \in Sides : s # BuildSide => rest'[s] = rest[s]
    BY <1>1, <2>1, <2>2
  <2> QED BY <1>1, <2>1, <2>2, <2>3, NoRows DEF RestInv
<1>5. ActiveInv'
  BY <1>1 DEF ActiveInv
<1>6. StageInv'
  <2>1. rest'[BuildSide] = << >>
    BY <1>1 DEF JoinInv, RestInv
  <2> QED BY <1>1, <2>1 DEF StageInv
<1> QED BY <1>2, <1>3, <1>4, <1>5, <1>6 DEF JoinInv

LEMMA StartPartitionedKeeps == ASSUME JoinInv, StartPartitioned PROVE JoinInv'
<1>1. PICK rows \in [Sides -> Seq(InputRow)] :
        /\ \A s \in Sides : RowsFrom(rows[s], Inputs[s])
        /\ pending_tasks' = Tasks(rows, 0) /\ SplitIntoFiles(rows, 0, {})
        /\ rest' = [side \in Sides |-> << >>] /\ state' = "Probing"
        /\ UNCHANGED <<inputVars, build_map, active, output_buf, output>>
  BY PartitionedRows
<1>2. /\ UNCHANGED inputVars /\ Inputs' = Inputs /\ BuildSide' = BuildSide
      /\ BuildSide \in Sides /\ Other(BuildSide) \in Sides
      /\ pending_tasks = << >> /\ active = {} /\ build_map = << >>
      /\ output_buf = << >> /\ output = << >> /\ state = "NotStarted"
  BY <1>1, InputsSame, BuildSideIsSide, SideFacts DEF JoinInv, StageInv, StartPartitioned
<1>3. pending_tasks' \in Seq(TaskSet) /\ next_id' \in Nat /\ FilesInv'
  <2> DEFINE tail == << >>
             D == {}
  <2>1. /\ tail \in Seq(TaskSet) /\ ToSet(tail) = {} /\ IsInjective(tail)
        /\ Open = D \cup ToSet(tail) /\ D \cap ToSet(tail) = {}
    BY <1>2, EmptyElements DEF Open
  <2>2. Splits(rows, 0) /\ Alike(rows, 0, hash)
    BY JoinAssumption DEF Splits, Alike, JoinInv, TypeInv
  <2>3. SplitIntoFiles(rows, 0, UNION {FilesOf(t) : t \in D})
    <3>1. UNION {FilesOf(t) : t \in D} = {}
      OBVIOUS
    <3> QED BY <1>1, <3>1
  <2>4. pending_tasks' = Tasks(rows, 0) \o tail
    <3>1. Tasks(rows, 0) \in Seq(TaskSet)
      BY <2>2, TasksElements
    <3> QED BY <1>1, <3>1, ConcatEmptySeq
  <2>5. active' = {} /\ FilesInv
    BY <1>1, <1>2 DEF JoinInv
  <2> HIDE DEF tail, D
  <2> QED BY <1>1, <1>2, <2>1, <2>2, <2>3, <2>4, <2>5, SplitOpens
<1>4. TypeInv'
  BY <1>1, <1>2, <1>3, InputsSame DEF JoinInv, TypeInv
<1>5. RestInv'
  <2>1. rest' \in [Sides -> Seq(InputRow)] /\ \A s \in Sides : rest'[s] = << >>
    BY <1>1
  <2> QED BY <1>1, <1>2, <2>1, NoRows DEF RestInv
<1>6. ActiveInv'
  BY <1>1, <1>2 DEF ActiveInv
<1>7. StageInv'
  BY <1>1, <1>2 DEF StageInv
<1> QED BY <1>3, <1>4, <1>5, <1>6, <1>7 DEF JoinInv

LEMMA ProbeInMemoryKeeps == ASSUME JoinInv, ProbeInMemory PROVE JoinInv'
<1> DEFINE probe == Other(BuildSide)
<1>1. /\ UNCHANGED inputVars /\ Inputs' = Inputs /\ BuildSide' = BuildSide
      /\ BuildSide \in Sides /\ probe \in Sides /\ probe # BuildSide
      /\ state = "InMemoryProbing" /\ pending_tasks = << >> /\ active = {}
  BY InputsSame, BuildSideIsSide, SideFacts DEF JoinInv, StageInv, ProbeInMemory
<1>2. /\ rest \in [Sides -> Seq(InputRow)] /\ \A s \in Sides : RowsFrom(rest[s], Inputs[s])
      /\ RowsFrom(build_map, Inputs[BuildSide]) /\ build_map \in Seq(InputRow)
  BY DEF JoinInv, RestInv, RowsFrom
<1>3. /\ rest[probe] # << >> /\ output_buf' = Found(BuildSide, build_map, Head(rest[probe]))
      /\ rest' = [rest EXCEPT ![probe] = Tail(@)]
      /\ UNCHANGED <<state, build_map, pending_tasks, active, output, temp, next_id>>
  BY DEF ProbeInMemory
<1> HIDE DEF probe
<1>4. /\ Head(rest[probe]) \in InputRow /\ Tail(rest[probe]) \in Seq(InputRow)
      /\ RowsFrom(Tail(rest[probe]), Inputs[probe])
  <2>1. rest[probe] \in Seq(InputRow) /\ RowsFrom(rest[probe], Inputs[probe])
    BY <1>1, <1>2
  <2> QED BY <1>3, <2>1, HeadElements DEF RowsFrom
<1>5. output_buf' \in Seq(PairSet)
  BY <1>1, <1>2, <1>3, <1>4, FoundElements
<1>6. TypeInv'
  BY <1>1, <1>3, <1>5, InputsSame DEF JoinInv, TypeInv
<1>7. FilesInv'
  <2>1. Open' = Open
    BY <1>3 DEF Open
  <2> QED BY <1>1, <1>3, <2>1, StillFiled DEF JoinInv, FilesInv
<1>8. /\ rest' \in [Sides -> Seq(InputRow)] /\ rest'[probe] = Tail(rest[probe])
      /\ \A s \in Sides : s # probe => rest'[s] = rest[s]
  BY <1>1, <1>2, <1>3, <1>4
<1>9. RestInv'
  BY <1>1, <1>2, <1>3, <1>4, <1>8 DEF RestInv
<1>10. ActiveInv'
  BY <1>1, <1>3 DEF ActiveInv
<1>11. StageInv'
  BY <1>1, <1>3, <1>8 DEF StageInv, JoinInv
<1> QED BY <1>6, <1>7, <1>9, <1>10, <1>11 DEF JoinInv

LEMMA EndInMemoryKeeps == ASSUME JoinInv, EndInMemory PROVE JoinInv'
<1>1. /\ UNCHANGED inputVars /\ Inputs' = Inputs /\ BuildSide' = BuildSide
      /\ state = "InMemoryProbing" /\ pending_tasks = << >> /\ active = {}
      /\ output_buf = << >> /\ rest[Other(BuildSide)] = << >> /\ rest[BuildSide] = << >>
      /\ state' = "Done" /\ build_map' = << >>
      /\ UNCHANGED <<rest, pending_tasks, active, output_buf, output, temp, next_id>>
  BY InputsSame DEF JoinInv, StageInv, EndInMemory
<1>2. TypeInv'
  BY <1>1, InputsSame DEF JoinInv, TypeInv
<1>3. FilesInv'
  <2>1. Open' = Open
    BY <1>1 DEF Open
  <2> QED BY <1>1, <2>1, StillFiled DEF JoinInv, FilesInv
<1>4. RestInv'
  BY <1>1, NoRows DEF JoinInv, RestInv
<1>5. ActiveInv'
  BY <1>1 DEF ActiveInv
<1>6. StageInv'
  BY <1>1 DEF StageInv
<1> QED BY <1>2, <1>3, <1>4, <1>5, <1>6 DEF JoinInv

\* The last pair of the buffer moves to the output.
LEMMA PopElements ==
  ASSUME NEW S, NEW buf \in Seq(S), buf # << >>
  PROVE  /\ Last(buf) \in S /\ Front(buf) \in Seq(S)
         /\ ToSet(buf) = ToSet(Front(buf)) \cup {Last(buf)}
         /\ IsInjective(buf) => IsInjective(Front(buf)) /\ Last(buf) \notin ToSet(Front(buf))
<1> DEFINE n == Len(buf)
<1>1. n \in Nat /\ n # 0 /\ n - 1 \in 0..n /\ n \in n - 1..n
      /\ DOMAIN buf = 1..n /\ ToSet(buf) = {buf[i] : i \in 1..n} /\ \A i \in 1..n : buf[i] \in S
  BY SequenceFacts
<1>2. /\ Front(buf) \in Seq(S) /\ ToSet(Front(buf)) = {buf[i] : i \in 1..n - 1}
      /\ IsInjective(buf) => IsInjective(Front(buf))
  <2>1. Front(buf) = SubSeq(buf, 0 + 1, n - 1)
    BY DEF Front
  <2>2. 0 \in 0..n /\ n - 1 \in 0..n
    BY <1>1
  <2>3. /\ SubSeq(buf, 0 + 1, n - 1) \in Seq(S)
        /\ ToSet(SubSeq(buf, 0 + 1, n - 1)) = {buf[i] : i \in 0 + 1..n - 1}
        /\ IsInjective(buf) => IsInjective(SubSeq(buf, 0 + 1, n - 1))
    BY <2>2, SubSeqElements
  <2> QED BY <2>1, <2>3
<1>3. Last(buf) = buf[n]
  BY DEF Last
<1> HIDE DEF n
<1>4. 1..n = (1..n - 1) \cup {n} /\ n \in 1..n /\ \A i \in 1..n - 1 : i \in 1..n /\ i # n
  BY <1>1
<1>5. ToSet(buf) = ToSet(Front(buf)) \cup {Last(buf)}
  BY <1>1, <1>2, <1>3, <1>4
<1>6. IsInjective(buf) => Last(buf) \notin ToSet(Front(buf))
  BY <1>1, <1>2, <1>3, <1>4 DEF IsInjective
<1> QED BY <1>1, <1>2, <1>3, <1>4, <1>5, <1>6

LEMMA PopOutputKeeps == ASSUME JoinInv, PopOutput PROVE JoinInv'
<1>1. /\ UNCHANGED inputVars /\ Inputs' = Inputs /\ BuildSide' = BuildSide
      /\ output_buf # << >> /\ output' = Append(output, Last(output_buf))
      /\ output_buf' = Front(output_buf) /\ state \notin {"NotStarted", "Done"}
      /\ UNCHANGED <<state, rest, build_map, pending_tasks, active, temp, next_id>>
  BY InputsSame DEF JoinInv, StageInv, PopOutput
<1>2. output_buf \in Seq(PairSet) /\ output \in Seq(PairSet)
  BY DEF JoinInv, TypeInv
<1>3. output' \in Seq(PairSet) /\ output_buf' \in Seq(PairSet)
  BY <1>1, <1>2, PopElements, AppendElements
<1>4. TypeInv'
  BY <1>1, <1>3, InputsSame DEF JoinInv, TypeInv
<1>5. FilesInv'
  <2>1. Open' = Open
    BY <1>1 DEF Open
  <2> QED BY <1>1, <2>1, StillFiled DEF JoinInv, FilesInv
<1>6. RestInv'
  BY <1>1 DEF JoinInv, RestInv
<1>7. ActiveInv'
  BY <1>1 DEF JoinInv, ActiveInv
<1>8. StageInv'
  BY <1>1 DEF JoinInv, StageInv
<1> QED BY <1>4, <1>5, <1>6, <1>7, <1>8 DEF JoinInv

\* The task at the head of the queue.
LEMMA NextTaskFacts ==
  ASSUME JoinInv, NEW task, NextTask(task)
  PROVE  /\ state = "Probing" /\ output_buf = << >> /\ active = {}
         /\ pending_tasks \in Seq(TaskSet) /\ pending_tasks # << >>
         /\ task = Head(pending_tasks) /\ task \in TaskSet /\ task \in Open
         /\ Tail(pending_tasks) \in Seq(TaskSet) /\ IsInjective(Tail(pending_tasks))
         /\ ToSet(pending_tasks) = {task} \cup ToSet(Tail(pending_tasks))
         /\ task \notin ToSet(Tail(pending_tasks)) /\ Open = ToSet(pending_tasks)
<1>1. /\ state = "Probing" /\ output_buf = << >> /\ active = {}
      /\ pending_tasks # << >> /\ task = Head(pending_tasks)
  BY DEF NextTask, WaitsForTask
<1>2. pending_tasks \in Seq(TaskSet) /\ IsInjective(pending_tasks)
  BY DEF JoinInv, TypeInv, FilesInv
<1>3. Open = ToSet(pending_tasks)
  BY <1>1 DEF Open
<1> QED BY <1>1, <1>2, <1>3, HeadElements

LEMMA RepartitionKeeps == ASSUME JoinInv, NEW task, RepartitionTask(task) PROVE JoinInv'
<1> DEFINE tail == Tail(pending_tasks)
           rows == RowsIn(task)
           depth == task.depth + 1
<1>1. /\ UNCHANGED inputVars /\ Inputs' = Inputs /\ BuildSide' = BuildSide
      /\ pending_tasks' = Tasks(rows, depth) \o tail
      /\ SplitIntoFiles(rows, depth, FilesOf(task)) /\ task.depth < MaxDepth
      /\ UNCHANGED <<state, rest, build_map, active, output_buf, output>>
      /\ NextTask(task)
  BY InputsSame DEF RepartitionTask
<1>2. /\ state = "Probing" /\ active = {} /\ task \in TaskSet /\ task \in Open
      /\ tail \in Seq(TaskSet) /\ IsInjective(tail)
      /\ Open = {task} \cup ToSet(tail) /\ task \notin ToSet(tail)
  BY <1>1, NextTaskFacts
<1>3. depth \in 0..MaxDepth
  BY <1>1, <1>2, JoinAssumption, ActiveFields
<1>4. /\ rows \in [Sides -> Seq(InputRow)]
      /\ \A s \in Sides : RowsFrom(rows[s], Inputs[s])
  <2>1. \A s \in Sides :
          /\ rows[s] \in Seq(InputRow) /\ IsInjective(rows[s])
          /\ ToSet(rows[s]) \subseteq ToSet(Inputs[s])
    BY <1>2, TaskRows DEF JoinInv
  <2>2. rows = [s \in Sides |-> rows[s]]
    BY DEF RowsIn
  <2> HIDE DEF rows
  <2> QED BY <2>1, <2>2 DEF RowsFrom
<1>5. Alike(rows, depth, hash)
  <2>1. rows = Contents(task, temp)
    BY DEF RowsIn, Contents
  <2>2. Alike(Contents(task, temp), task.depth + 1, hash)
    BY <1>2 DEF JoinInv, FilesInv, FilesFilled
  <2> QED BY <2>1, <2>2
<1> HIDE DEF tail, rows, depth
<1>6. Splits(rows, depth)
  BY <1>3, <1>4 DEF Splits, JoinInv, TypeInv
<1>7. pending_tasks' \in Seq(TaskSet) /\ next_id' \in Nat /\ FilesInv'
  <2> DEFINE D == {task}
  <2>1. SplitIntoFiles(rows, depth, UNION {FilesOf(t) : t \in D})
    <3>1. UNION {FilesOf(t) : t \in D} = FilesOf(task)
      OBVIOUS
    <3> QED BY <1>1, <3>1
  <2>2. Open = D \cup ToSet(tail) /\ D \cap ToSet(tail) = {} /\ active' = {} /\ FilesInv
    BY <1>1, <1>2 DEF JoinInv
  <2> HIDE DEF D
  <2> QED BY <1>1, <1>2, <1>4, <1>5, <1>6, <2>1, <2>2, SplitOpens
<1>8. TypeInv'
  BY <1>1, <1>7, InputsSame DEF JoinInv, TypeInv
<1>9. RestInv'
  BY <1>1 DEF JoinInv, RestInv
<1>10. ActiveInv'
  BY <1>1, <1>2 DEF ActiveInv
<1>11. StageInv'
  BY <1>1, <1>2 DEF JoinInv, StageInv
<1> QED BY <1>7, <1>8, <1>9, <1>10, <1>11 DEF JoinInv

\* The files of the task started, as an active partition on some side reads them.
LEMMA StartFacts ==
  ASSUME JoinInv, NEW task, NextTask(task), NEW a, a.task = task, a.side \in Sides
  PROVE  /\ FilesRead(a, temp)
         /\ BuildFile(a, temp) = RowsIn(task)[a.side]
         /\ ProbeFile(a, temp) = RowsIn(task)[Other(a.side)]
<1>1. task \in Open /\ Other(a.side) \in Sides
  BY NextTaskFacts, SideFacts
<1>2. \A s \in Sides :
        /\ temp[task.file[s]] \in Seq(InputRow) /\ IsInjective(temp[task.file[s]])
        /\ RowsIn(task)[s] = temp[task.file[s]]
  BY <1>1, TaskRows DEF JoinInv
<1> QED BY <1>1, <1>2 DEF FilesRead, BuildFile, ProbeFile

\* A task becomes the active partition.
LEMMA StartKeeps ==
  ASSUME JoinInv, NEW task, NextTask(task), NEW a \in ActiveSet, a.task = task,
         Underway(a, temp), active' = {a}, pending_tasks' = Tail(pending_tasks),
         UNCHANGED <<inputVars, state, rest, build_map, output_buf, output, temp, next_id>>
  PROVE  JoinInv'
<1>1. /\ UNCHANGED inputVars /\ Inputs' = Inputs /\ BuildSide' = BuildSide
      /\ UNCHANGED <<state, rest, build_map, output_buf, output, temp, next_id>>
  BY InputsSame
<1>2. /\ state = "Probing" /\ active = {}
      /\ pending_tasks' \in Seq(TaskSet) /\ IsInjective(pending_tasks')
      /\ Open = {task} \cup ToSet(pending_tasks') /\ task \notin ToSet(pending_tasks')
  BY NextTaskFacts
<1>3. TypeInv'
  BY <1>1, <1>2, InputsSame DEF JoinInv, TypeInv
<1>4. FilesInv'
  <2>1. Open' = Open
    BY <1>2 DEF Open
  <2> QED BY <1>1, <1>2, <2>1, StillFiled DEF JoinInv
<1>5. RestInv'
  BY <1>1 DEF JoinInv, RestInv
<1>6. ActiveInv'
  BY <1>1 DEF ActiveInv
<1>7. StageInv'
  BY <1>1, <1>2 DEF JoinInv, StageInv
<1> QED BY <1>3, <1>4, <1>5, <1>6, <1>7 DEF JoinInv

\* The active partition of a hash join starts with all of its build side.
LEMMA StartHashFacts ==
  ASSUME JoinInv, NEW task, StartHash(task)
  PROVE  \E a \in ActiveSet :
           /\ a.task = task /\ a.kind = "hash" /\ a.read = 0 /\ Underway(a, temp)
           /\ active' = {a}
<1> DEFINE a == [kind |-> "hash", task |-> task, side |-> SmallerSide(task),
                 rows |-> RowsIn(task)[SmallerSide(task)], read |-> 0, inner_read |-> 0]
<1>1. /\ a.kind = "hash" /\ a.task = task /\ a.side = SmallerSide(task) /\ a.read = 0
      /\ a.side \in Sides /\ a.rows = RowsIn(task)[SmallerSide(task)]
      /\ a = [kind |-> "hash", task |-> a.task, side |-> a.side,
              rows |-> a.rows, read |-> 0, inner_read |-> 0]
  BY SmallerSideIsSide
<1>2. NextTask(task) /\ active' = {a}
  BY DEF StartHash
<1> HIDE DEF a
<1>3. FilesRead(a, temp) /\ a.rows = BuildFile(a, temp) /\ a.task \in TaskSet
  BY <1>1, <1>2, StartFacts, NextTaskFacts
<1>4. a \in ActiveSet /\ Underway(a, temp)
  BY <1>1, <1>3, UnderwayHash
<1> QED BY <1>1, <1>2, <1>4

LEMMA StartHashKeeps == ASSUME JoinInv, NEW task, StartHash(task) PROVE JoinInv'
<1>1. PICK a \in ActiveSet :
        a.task = task /\ a.kind = "hash" /\ Underway(a, temp) /\ active' = {a}
  BY StartHashFacts
<1> QED BY <1>1, StartKeeps DEF StartHash

\* That of a nested loop starts with the first outer batch.
LEMMA StartNestedLoopFacts ==
  ASSUME JoinInv, NEW task, StartNestedLoop(task)
  PROVE  \E a \in ActiveSet :
           /\ a.task = task /\ a.kind = "nested_loop" /\ a.inner_read = 0 /\ Underway(a, temp)
           /\ ToSet(ProbeFile(a, temp)) =
                ToSet(a.rows) \cup ToSet(RowsAfter(ProbeFile(a, temp), a.read))
           /\ active' = {a}
<1> DEFINE batch == OuterBatch(RowsIn(task)[Other(SmallerSide(task))], 0)
           a == [kind |-> "nested_loop", task |-> task, side |-> SmallerSide(task),
                 rows |-> batch, read |-> Len(batch), inner_read |-> 0]
<1>1. /\ a.kind = "nested_loop" /\ a.task = task /\ a.side = SmallerSide(task)
      /\ a.side \in Sides /\ a.rows = batch /\ a.inner_read = 0 /\ a.read = Len(batch)
  BY SmallerSideIsSide
<1>2. /\ NextTask(task) /\ active' = {a} /\ task.depth >= MaxDepth
      /\ Overfull(RowsIn(task)[SmallerSide(task)])
  BY DEF StartNestedLoop, MapOverflows, Overfull
<1>3. batch = OuterBatch(RowsIn(task)[Other(a.side)], 0)
  BY <1>1
<1> HIDE DEF a, batch
<1>4. /\ FilesRead(a, temp) /\ batch = OuterBatch(ProbeFile(a, temp), 0) /\ a.task \in TaskSet
      /\ Overfull(BuildFile(a, temp))
  BY <1>1, <1>2, <1>3, StartFacts, NextTaskFacts
<1>5. PICK probe : probe = ProbeFile(a, temp)
  OBVIOUS
<1>6. probe \in Seq(InputRow) /\ 0 \in 0..Len(probe)
  <2>1. probe \in Seq(InputRow)
    BY <1>4, <1>5 DEF FilesRead
  <2>2. Len(probe) \in Nat
    BY <2>1, SequenceFacts
  <2> QED BY <2>1, <2>2
<1>7. 0 + Len(batch) = Len(batch)
  <2>1. batch \in Seq(InputRow)
    BY <1>4, <1>5, <1>6, BatchElements DEF FilesRead
  <2>2. Len(batch) \in Nat
    BY <2>1, SequenceFacts
  <2> QED BY <2>2
<1>8. /\ batch \in Seq(InputRow) /\ Len(batch) \in Nat /\ Underway(a, temp)
      /\ ToSet(RowsAfter(probe, 0)) = ToSet(a.rows) \cup ToSet(RowsAfter(probe, a.read))
  BY <1>1, <1>2, <1>4, <1>5, <1>6, <1>7, UnderwayBatch
<1>9. ToSet(RowsAfter(probe, 0)) = ToSet(probe)
  BY <1>6, AfterElements
<1>10. a \in ActiveSet
  BY <1>1, <1>4, <1>8 DEF ActiveSet, a
<1> QED BY <1>1, <1>2, <1>5, <1>8, <1>9, <1>10

LEMMA StartNestedLoopKeeps == ASSUME JoinInv, NEW task, StartNestedLoop(task) PROVE JoinInv'
<1>1. PICK a \in ActiveSet :
        a.task = task /\ a.kind = "nested_loop" /\ Underway(a, temp) /\ active' = {a}
  BY StartNestedLoopFacts
<1> QED BY <1>1, StartKeeps DEF StartNestedLoop

\* The active partition and what it has still to read.
LEMMA ActiveFacts ==
  ASSUME JoinInv, NEW a \in active
  PROVE  /\ a \in ActiveSet /\ active = {a} /\ state = "Probing"
         /\ a.task \in Open /\ a.task \in TaskSet /\ a.task \notin ToSet(pending_tasks)
         /\ a.side \in Sides /\ Other(a.side) \in Sides /\ a.rows \in Seq(InputRow)
         /\ a.kind \in {"hash", "nested_loop"} /\ Underway(a, temp) /\ FilesRead(a, temp)
         /\ IsInjective(a.rows)
         /\ ToProbe(a) = RowsAfter(ProbeFile(a, temp), a.read)
         /\ ToScan(a) = RowsAfter(BuildFile(a, temp), a.inner_read)
         /\ a.read \in 0..Len(ProbeFile(a, temp)) /\ a.inner_read \in 0..Len(BuildFile(a, temp))
<1>1. a \in ActiveSet /\ active = {a}
  BY DEF JoinInv, TypeInv
<1>2. state = "Probing" /\ a.task \in Open /\ a.task \notin ToSet(pending_tasks)
  BY DEF JoinInv, StageInv, FilesInv, Open
<1>3. Underway(a, temp)
  BY DEF JoinInv, ActiveInv
<1>4. /\ a.side \in Sides /\ Other(a.side) \in Sides /\ a.rows \in Seq(InputRow)
      /\ a.kind \in {"hash", "nested_loop"} /\ a.task \in TaskSet
  BY <1>1, ActiveFields, SideFacts
<1>5. FilesRead(a, temp)
  <2>1. \A s \in Sides : temp[a.task.file[s]] \in Seq(InputRow) /\ IsInjective(temp[a.task.file[s]])
    BY <1>2, TaskRows DEF JoinInv
  <2> QED BY <1>4, <2>1 DEF FilesRead, BuildFile, ProbeFile
<1>6. IsInjective(a.rows)
  BY <1>3, <1>4, <1>5 DEF Underway, FilesRead, BuildFile, RowsFrom
<1>7. /\ ToProbe(a) = RowsAfter(ProbeFile(a, temp), a.read)
      /\ ToScan(a) = RowsAfter(BuildFile(a, temp), a.inner_read)
  BY DEF ToProbe, ToScan, RowsAfter, ProbeFile, BuildFile
<1>8. a.read \in 0..Len(ProbeFile(a, temp)) /\ a.inner_read \in 0..Len(BuildFile(a, temp))
  BY <1>3 DEF Underway, ProbeFile, BuildFile
<1> QED BY <1>1, <1>2, <1>3, <1>4, <1>5, <1>6, <1>7, <1>8

LEMMA AdvanceKeeps ==
  ASSUME JoinInv, NEW a \in active, NEW b \in ActiveSet, b.task = a.task, Underway(b, temp),
         active' = {b}, output_buf' \in Seq(PairSet),
         UNCHANGED <<inputVars, state, rest, build_map, pending_tasks, output, temp, next_id>>
  PROVE  JoinInv'
<1>1. /\ UNCHANGED inputVars /\ Inputs' = Inputs /\ BuildSide' = BuildSide
      /\ UNCHANGED <<state, rest, build_map, pending_tasks, output, temp, next_id>>
  BY InputsSame
<1>2. active = {a} /\ state = "Probing" /\ a.task \notin ToSet(pending_tasks)
  BY ActiveFacts
<1>3. TypeInv'
  BY <1>1, InputsSame DEF JoinInv, TypeInv
<1>4. FilesInv'
  <2>1. Open' = Open
    BY <1>1, <1>2 DEF Open
  <2> QED BY <1>1, <1>2, <2>1, StillFiled DEF JoinInv, FilesInv
<1>5. RestInv'
  BY <1>1 DEF JoinInv, RestInv
<1>6. ActiveInv'
  BY <1>1 DEF ActiveInv
<1>7. StageInv'
  BY <1>1, <1>2 DEF JoinInv, StageInv
<1> QED BY <1>3, <1>4, <1>5, <1>6, <1>7 DEF JoinInv

LEMMA ProbeRowKeeps == ASSUME JoinInv, NEW a \in active, ProbeRow(a) PROVE JoinInv'
<1> DEFINE b == [a EXCEPT !.read = @ + 1]
<1>1. /\ a.kind = "hash" /\ ToProbe(a) # << >> /\ active' = {b}
      /\ output_buf' = Found(a.side, a.rows, Head(ToProbe(a)))
      /\ UNCHANGED <<inputVars, state, rest, build_map, pending_tasks, output, temp, next_id>>
  BY DEF ProbeRow
<1>2. /\ a \in ActiveSet /\ Underway(a, temp) /\ FilesRead(a, temp)
      /\ a.side \in Sides /\ a.rows \in Seq(InputRow)
      /\ ToProbe(a) = RowsAfter(ProbeFile(a, temp), a.read)
      /\ a.read \in 0..Len(ProbeFile(a, temp))
  BY ActiveFacts
<1>3. b \in ActiveSet /\ b.task = a.task /\ Underway(b, temp)
  <2>1. b \in ActiveSet /\ Underway(b, temp)
    BY <1>1, <1>2, UnderwayProbe
  <2>2. b.task = a.task
    BY <1>2 DEF ActiveSet
  <2> QED BY <2>1, <2>2
<1>4. output_buf' \in Seq(PairSet)
  <2>1. ToProbe(a) \in Seq(InputRow)
    BY <1>2, AfterElements DEF FilesRead
  <2>2. Head(ToProbe(a)) \in InputRow
    BY <1>1, <2>1, HeadElements
  <2> QED BY <1>1, <1>2, <2>2, FoundElements
<1> HIDE DEF b
<1> QED BY <1>1, <1>3, <1>4, AdvanceKeeps

LEMMA ScanInnerKeeps == ASSUME JoinInv, NEW a \in active, ScanInner(a) PROVE JoinInv'
<1> DEFINE b == [a EXCEPT !.inner_read = @ + 1]
<1>1. /\ a.kind = "nested_loop" /\ ToScan(a) # << >> /\ active' = {b}
      /\ output_buf' = ScannedWith(a, Head(ToScan(a)))
      /\ UNCHANGED <<inputVars, state, rest, build_map, pending_tasks, output, temp, next_id>>
  BY DEF ScanInner
<1>2. /\ a \in ActiveSet /\ Underway(a, temp) /\ FilesRead(a, temp)
      /\ a.side \in Sides /\ a.rows \in Seq(InputRow)
      /\ ToScan(a) = RowsAfter(BuildFile(a, temp), a.inner_read)
      /\ a.inner_read \in 0..Len(BuildFile(a, temp))
  BY ActiveFacts
<1>3. b \in ActiveSet /\ b.task = a.task /\ Underway(b, temp)
  <2>1. b \in ActiveSet /\ Underway(b, temp)
    BY <1>1, <1>2, UnderwayScan
  <2>2. b.task = a.task
    BY <1>2 DEF ActiveSet
  <2> QED BY <2>1, <2>2
<1>4. output_buf' \in Seq(PairSet)
  <2>1. ToScan(a) \in Seq(InputRow)
    BY <1>2, AfterElements DEF FilesRead
  <2>2. Head(ToScan(a)) \in InputRow
    BY <1>1, <2>1, HeadElements
  <2> QED BY <1>1, <1>2, <2>2, ScannedElements
<1> HIDE DEF b
<1> QED BY <1>1, <1>3, <1>4, AdvanceKeeps

\* The next outer batch holds the rows taken off those still to be probed.
LEMMA NextBatchFacts ==
  ASSUME JoinInv, NEW a \in active, NextOuterBatch(a)
  PROVE  \E b \in ActiveSet :
           /\ b.task = a.task /\ b.side = a.side /\ b.kind = "nested_loop" /\ b.inner_read = 0
           /\ Underway(b, temp)
           /\ ToSet(RowsAfter(ProbeFile(a, temp), a.read)) =
                ToSet(b.rows) \cup ToSet(RowsAfter(ProbeFile(a, temp), b.read))
           /\ active' = {b}
<1> DEFINE batch == OuterBatch(ProbeFile(a, temp), a.read)
           b == [a EXCEPT !.rows = batch, !.read = @ + Len(batch), !.inner_read = 0]
<1>1. a.kind = "nested_loop" /\ active' = {b}
  BY DEF NextOuterBatch, ProbeFile
<1>2. /\ a \in ActiveSet /\ Underway(a, temp) /\ FilesRead(a, temp)
      /\ a.side \in Sides /\ a.task \in TaskSet /\ a.read \in 0..Len(ProbeFile(a, temp))
  BY ActiveFacts
<1>3. /\ b.kind = "nested_loop" /\ b.task = a.task /\ b.side = a.side
      /\ b.rows = batch /\ b.read = a.read + Len(batch) /\ b.inner_read = 0
  <2> HIDE DEF batch
  <2> QED BY <1>1, <1>2 DEF ActiveSet
<1>4. a.task.depth >= MaxDepth /\ Overfull(BuildFile(a, temp))
  BY <1>1, <1>2 DEF Underway, BuildFile
<1>5. /\ batch \in Seq(InputRow) /\ a.read + Len(batch) \in Nat /\ Underway(b, temp)
      /\ ToSet(RowsAfter(ProbeFile(a, temp), a.read)) =
           ToSet(b.rows) \cup ToSet(RowsAfter(ProbeFile(a, temp), b.read))
  <2> HIDE DEF b
  <2> QED BY <1>2, <1>3, <1>4, UnderwayBatch
<1>6. b \in ActiveSet
  <2> HIDE DEF batch
  <2> QED BY <1>2, <1>5 DEF ActiveSet
<1> HIDE DEF b
<1> QED BY <1>1, <1>3, <1>5, <1>6

LEMMA NextOuterBatchKeeps == ASSUME JoinInv, NEW a \in active, NextOuterBatch(a) PROVE JoinInv'
<1>1. PICK b \in ActiveSet : b.task = a.task /\ Underway(b, temp) /\ active' = {b}
  BY NextBatchFacts
<1>2. /\ output_buf' \in Seq(PairSet)
      /\ UNCHANGED <<inputVars, state, rest, build_map, pending_tasks, output, temp, next_id>>
  BY DEF NextOuterBatch, JoinInv, TypeInv
<1> QED BY <1>1, <1>2, AdvanceKeeps

LEMMA EndPartitionKeeps == ASSUME JoinInv, NEW a \in active, EndPartition(a) PROVE JoinInv'
<1>1. /\ UNCHANGED inputVars /\ Inputs' = Inputs /\ BuildSide' = BuildSide /\ hash' = hash
      /\ temp' = [id \in DOMAIN temp \ FilesOf(a.task) |-> temp[id]] /\ active' = {}
      /\ UNCHANGED <<state, rest, build_map, pending_tasks, output_buf, output, next_id>>
  BY InputsSame DEF EndPartition, CleanupFiles
<1>2. active = {a} /\ state = "Probing" /\ a.task \notin ToSet(pending_tasks) /\ a.task \in Open
  BY ActiveFacts
<1>3. PICK U : U = ToSet(pending_tasks)
  OBVIOUS
<1>4. Open = U \cup {a.task} /\ Open' = U /\ a.task \notin U
  BY <1>1, <1>2, <1>3 DEF Open
<1>5. /\ \A t \in U \cup {a.task} : t \in TaskSet /\ \A s \in Sides : t.file[s] \in DOMAIN temp
      /\ \A id \in DOMAIN temp :
           id \in Nat /\ id < next_id /\ \E t \in U \cup {a.task} : \E s \in Sides : t.file[s] = id
      /\ \A t, u \in U \cup {a.task} : \A s, s2 \in Sides :
           t.file[s] = u.file[s2] => t = u /\ s = s2
  BY <1>4 DEF JoinInv, FilesInv, FilesOwned
<1>6. ASSUME NEW t \in U, NEW s \in Sides
      PROVE  t.file[s] \in DOMAIN temp' /\ temp'[t.file[s]] = temp[t.file[s]]
  <2>1. t.file[s] \notin FilesOf(a.task)
    <3>1. SUFFICES ASSUME NEW s2 \in Sides, t.file[s] = a.task.file[s2] PROVE FALSE
      BY DEF FilesOf
    <3>2. \A u, v \in Open : \A z, z2 \in Sides : u.file[z] = v.file[z2] => u = v
      BY DEF JoinInv, FilesInv, FilesOwned
    <3>3. t \in Open /\ a.task \in Open
      BY <1>4, <1>6
    <3>4. t = a.task
      BY <1>6, <3>1, <3>2, <3>3
    <3> QED BY <1>4, <1>6, <3>4
  <2> QED BY <1>1, <1>5, <1>6, <2>1
<1>7. FilesOwned(U, temp', next_id')
  <2>1. \A id \in DOMAIN temp' : id \in Nat /\ id < next_id /\ \E t \in U : \E s \in Sides : t.file[s] = id
    <3>1. SUFFICES ASSUME NEW id \in DOMAIN temp'
                   PROVE  id \in Nat /\ id < next_id /\ \E t \in U : \E s \in Sides : t.file[s] = id
      OBVIOUS
    <3>2. id \in DOMAIN temp /\ id \notin FilesOf(a.task)
      BY <1>1, <3>1
    <3>3. PICK t \in U \cup {a.task} : \E s \in Sides : t.file[s] = id
      BY <1>5, <3>2
    <3>4. t # a.task
      BY <3>2, <3>3 DEF FilesOf
    <3> QED BY <1>5, <3>2, <3>3, <3>4
  <2>2. U \subseteq TaskSet /\ \A t \in U : \A s \in Sides : t.file[s] \in DOMAIN temp'
    BY <1>5, <1>6
  <2>3. \A t, u \in U : \A s, s2 \in Sides : t.file[s] = u.file[s2] => t = u /\ s = s2
    BY <1>5
  <2> QED BY <1>1, <2>1, <2>2, <2>3 DEF FilesOwned
<1>8. FilesFilled(U, temp', hash', Inputs')
  <2>1. ASSUME NEW t \in U
        PROVE  /\ \A s \in Sides : temp'[t.file[s]] # << >> /\ RowsFrom(temp'[t.file[s]], Inputs[s])
               /\ Alike(Contents(t, temp'), t.depth + 1, hash)
    <3>1. /\ \A s \in Sides : temp[t.file[s]] # << >> /\ RowsFrom(temp[t.file[s]], Inputs[s])
          /\ Alike(Contents(t, temp), t.depth + 1, hash)
      BY <1>4, <2>1 DEF JoinInv, FilesInv, FilesFilled
    <3>2. Contents(t, temp') = Contents(t, temp)
      BY <1>6, <2>1 DEF Contents
    <3> QED BY <1>6, <2>1, <3>1, <3>2
  <2> QED BY <1>1, <2>1 DEF FilesFilled
<1>9. FilesInv'
  BY <1>1, <1>4, <1>7, <1>8 DEF JoinInv, FilesInv
<1>10. TypeInv'
  BY <1>1, InputsSame DEF JoinInv, TypeInv
<1>11. RestInv'
  BY <1>1 DEF JoinInv, RestInv
<1>12. ActiveInv'
  BY <1>1 DEF ActiveInv
<1>13. StageInv'
  BY <1>1, <1>2 DEF JoinInv, StageInv
<1> QED BY <1>9, <1>10, <1>11, <1>12, <1>13 DEF JoinInv

LEMMA EndOfTasksKeeps == ASSUME JoinInv, EndOfTasks PROVE JoinInv'
<1>1. /\ UNCHANGED inputVars /\ Inputs' = Inputs /\ BuildSide' = BuildSide
      /\ state = "Probing" /\ output_buf = << >> /\ active = {} /\ pending_tasks = << >>
      /\ state' = "Done"
      /\ UNCHANGED <<rest, build_map, pending_tasks, active, output_buf, output, temp, next_id>>
  BY InputsSame DEF EndOfTasks, WaitsForTask
<1>2. TypeInv'
  BY <1>1, InputsSame DEF JoinInv, TypeInv
<1>3. FilesInv'
  <2>1. Open' = Open
    BY <1>1 DEF Open
  <2> QED BY <1>1, <2>1, StillFiled DEF JoinInv, FilesInv
<1>4. RestInv'
  BY <1>1 DEF JoinInv, RestInv
<1>5. ActiveInv'
  BY <1>1 DEF ActiveInv
<1>6. StageInv'
  BY <1>1 DEF JoinInv, StageInv
<1> QED BY <1>2, <1>3, <1>4, <1>5, <1>6 DEF JoinInv

LEMMA StutterKeeps == ASSUME JoinInv, UNCHANGED vars PROVE JoinInv'
<1>1. /\ UNCHANGED inputVars /\ Inputs' = Inputs /\ BuildSide' = BuildSide
      /\ UNCHANGED <<state, rest, build_map, pending_tasks, active, output_buf, output,
                     temp, next_id>>
  BY InputsSame DEF vars
<1>2. TypeInv'
  BY <1>1, InputsSame DEF JoinInv, TypeInv
<1>3. FilesInv'
  <2>1. Open' = Open
    BY <1>1 DEF Open
  <2> QED BY <1>1, <2>1, StillFiled DEF JoinInv, FilesInv
<1>4. RestInv' /\ ActiveInv' /\ StageInv'
  BY <1>1 DEF JoinInv, RestInv, ActiveInv, StageInv
<1> QED BY <1>2, <1>3, <1>4 DEF JoinInv

\* What the join has partitioned, what it has still to read and where it is fit together.
THEOREM JoinInvariant == Spec => []JoinInv
<1>1. JoinInv /\ [Next]_vars => JoinInv'
  <2> SUFFICES ASSUME JoinInv, [Next]_vars PROVE JoinInv'
    OBVIOUS
  <2>1. ASSUME NEW task \in ToSet(pending_tasks),
               RepartitionTask(task) \/ StartHash(task) \/ StartNestedLoop(task)
        PROVE  JoinInv'
    BY <2>1, RepartitionKeeps, StartHashKeeps, StartNestedLoopKeeps
  <2>2. ASSUME NEW a \in active,
               ProbeRow(a) \/ ScanInner(a) \/ NextOuterBatch(a) \/ EndPartition(a)
        PROVE  JoinInv'
    BY <2>2, ProbeRowKeeps, ScanInnerKeeps, NextOuterBatchKeeps, EndPartitionKeeps
  <2>3. NextNone => UNCHANGED vars
    BY DEF NextNone
  <2> QED BY <2>1, <2>2, <2>3, BuildInMemoryKeeps, StartPartitionedKeeps, ProbeInMemoryKeeps,
             EndInMemoryKeeps, PopOutputKeeps, EndOfTasksKeeps, StutterKeeps DEF Next
<1> QED BY <1>1, InitJoinInv, PTL DEF Spec

-----------------------------------------------------------------------------
(* The temporary files *)

\* At most one element in a sequence of its own.
LEMMA SetToSeqOfOne ==
  ASSUME NEW S, NEW T \in SUBSET S, \A x, y \in T : x = y
  PROVE  SetToSeq(T) \in Seq(S) /\ ToSet(SetToSeq(T)) = T /\ IsInjective(SetToSeq(T))
<1> DEFINE Lists(f) == f \in [1..Cardinality(T) -> T] /\ IsInjective(f)
<1>1. ASSUME NEW f, Lists(f), Cardinality(T) \in Nat
      PROVE  f \in Seq(T) /\ Len(f) = Cardinality(T)
  BY <1>1, FunctionIsSequence
<1>2. CASE T = {}
  <2>1. Cardinality(T) = 0
    BY <1>2, FS_EmptySet
  <2>2. Lists(<< >>)
    <3>1. << >> \in [1..0 -> T]
      OBVIOUS
    <3> QED BY <2>1, <3>1, EmptyElements
  <2>3. Lists(SetToSeq(T))
    BY <2>2 DEF SetToSeq
  <2> HIDE DEF Lists
  <2>4. SetToSeq(T) \in Seq(T) /\ Len(SetToSeq(T)) = 0
    BY <1>1, <2>1, <2>3
  <2>5. SetToSeq(T) = << >>
    BY <2>4, SequenceFacts
  <2> QED BY <1>2, <2>5, EmptyElements
<1>3. CASE T # {}
  <2>1. PICK x \in T : T = {x}
    BY <1>3
  <2>2. Cardinality(T) = 1
    BY <2>1, FS_Singleton
  <2>3. Lists(<<x>>)
    <3>1. <<x>> \in Seq(T) /\ Len(<<x>>) = 1 /\ IsInjective(<<x>>)
      BY <2>1, SingletonElements
    <3>2. <<x>> \in [1..1 -> T]
      BY <3>1, SequenceFacts
    <3> QED BY <2>2, <3>1, <3>2
  <2>4. Lists(SetToSeq(T))
    BY <2>3 DEF SetToSeq
  <2>5. IsInjective(SetToSeq(T))
    BY <2>4
  <2> HIDE DEF Lists
  <2>6. SetToSeq(T) \in Seq(T) /\ Len(SetToSeq(T)) = 1
    BY <1>1, <2>2, <2>4
  <2> DEFINE f == SetToSeq(T)
  <2> HIDE DEF f
  <2>7. f \in Seq(T) /\ Len(f) = 1 /\ IsInjective(f)
    BY <2>5, <2>6 DEF f
  <2>8. ToSet(f) \subseteq T /\ f # << >> /\ ToSet(f) # {}
    BY <2>7, SequenceFacts
  <2>9. ToSet(f) = T
    BY <2>1, <2>8
  <2>10. f \in Seq(S)
    <3>1. f \in [1..1 -> S]
      BY <2>7, SequenceFacts
    <3> QED BY <3>1, FunctionIsSequence
  <2> QED BY <2>7, <2>9, <2>10 DEF f
<1> QED BY <1>2, <1>3

\* No file is leaked, deleted twice or empty, and no id is used again.
THEOREM FilesReferenced == Spec => []LiveFilesReferenced
<1>1. JoinInv => LiveFilesReferenced
  <2> SUFFICES ASSUME JoinInv PROVE LiveFilesReferenced
    OBVIOUS
  <2> DEFINE T == {a.task : a \in active}
  <2>1. /\ pending_tasks \in Seq(TaskSet) /\ IsInjective(pending_tasks)
        /\ ToSet(pending_tasks) \cap T = {} /\ T \in SUBSET TaskSet
        /\ (\A x, y \in T : x = y) /\ Open = ToSet(pending_tasks) \cup T
    BY ActiveFields DEF JoinInv, TypeInv, FilesInv, Open
  <2> HIDE DEF T
  <2>2. SetToSeq(T) \in Seq(TaskSet) /\ ToSet(SetToSeq(T)) = T /\ IsInjective(SetToSeq(T))
    BY <2>1, SetToSeqOfOne
  <2>3. OpenTasks = pending_tasks \o SetToSeq(T)
    BY DEF OpenTasks, T
  <2>4. /\ OpenTasks \in Seq(TaskSet) /\ ToSet(OpenTasks) = Open /\ IsInjective(OpenTasks)
    BY <2>1, <2>2, <2>3, ConcatElements
  <2>5. /\ \A t \in Open : \A s \in Sides : t.file[s] \in DOMAIN temp
        /\ \A id \in DOMAIN temp : id < next_id /\ \E t \in Open : \E s \in Sides : t.file[s] = id
        /\ \A t, u \in Open : \A s, s2 \in Sides : t.file[s] = u.file[s2] => t = u /\ s = s2
    BY DEF JoinInv, FilesInv, FilesOwned
  <2>6. DOMAIN temp = UNION {FilesOf(task) : task \in ToSet(OpenTasks)}
    <3>1. ASSUME NEW id \in DOMAIN temp
          PROVE  id \in UNION {FilesOf(task) : task \in Open}
      <4>1. PICK t \in Open : \E s \in Sides : t.file[s] = id
        BY <2>5, <3>1
      <4> QED BY <4>1 DEF FilesOf
    <3>2. ASSUME NEW t \in Open PROVE FilesOf(t) \subseteq DOMAIN temp
      BY <2>5, <3>2 DEF FilesOf
    <3> QED BY <2>4, <3>1, <3>2
  <2>7. ASSUME NEW i \in DOMAIN OpenTasks, NEW j \in DOMAIN OpenTasks,
               NEW s \in Sides, NEW t \in Sides, OpenTasks[i].file[s] = OpenTasks[j].file[t]
        PROVE  i = j /\ s = t
    <3>1. OpenTasks[i] \in Open /\ OpenTasks[j] \in Open
      BY <2>4, <2>7 DEF ToSet
    <3>2. OpenTasks[i] = OpenTasks[j] /\ s = t
      BY <2>5, <2>7, <3>1
    <3> QED BY <2>4, <2>7, <3>2 DEF IsInjective
  <2>8. \A id \in DOMAIN temp : id < next_id /\ temp[id] # << >>
    <3>1. SUFFICES ASSUME NEW id \in DOMAIN temp PROVE temp[id] # << >>
      BY <2>5
    <3>2. PICK t \in Open : \E s \in Sides : t.file[s] = id
      BY <2>5, <3>1
    <3> QED BY <3>2, TaskRows DEF JoinInv
  <2> QED BY <2>6, <2>7, <2>8 DEF LiveFilesReferenced
<1> QED BY <1>1, JoinInvariant, PTL

-----------------------------------------------------------------------------
(* Where a pair is: found, or still to be found by one part of the join *)

\* The files of a task have both rows of the pair.
Spot(p, t, files) == \A s \in Sides : RowOf(p, s) \in ToSet(files[t.file[s]])

\* An active partition has still to find the pair.
ActiveSpot(p, a, files) ==
  LET row   == RowOf(p, a.side)
      other == RowOf(p, Other(a.side))
      after == RowsAfter(ProbeFile(a, files), a.read)
  IN IF a.kind = "hash"
     THEN row \in ToSet(a.rows) /\ other \in ToSet(after)
     ELSE \/ other \in ToSet(a.rows) /\ row \in ToSet(RowsAfter(BuildFile(a, files), a.inner_read))
          \/ other \in ToSet(after) /\ row \in ToSet(BuildFile(a, files))

PendingSpot(p, queue, files) == \E t \in ToSet(queue) : Spot(p, t, files)

Waits(p) ==
  \/ PendingSpot(p, pending_tasks, temp)
  \/ \E a \in active : ActiveSpot(p, a, temp)
  \/ InBuildMap(p)

\* No row is in the files of two tasks.
RowsApart(U, files) ==
  \A t, u \in U : t # u =>
    \A s \in Sides : ToSet(files[t.file[s]]) \cap ToSet(files[u.file[s]]) = {}

FoundPairs == ToSet(output) \cup ToSet(output_buf)

\* A pair found is not found again.
OnceInv ==
  /\ RowsApart(Open, temp)
  /\ IsInjective(output) /\ IsInjective(output_buf)
  /\ ToSet(output) \cap ToSet(output_buf) = {}
  /\ \A p \in FoundPairs : ~ Waits(p)

\* A pair that matches is not lost.
KeptInv ==
  state # "NotStarted" => \A p \in Abstract!Joined : p \in FoundPairs \/ Waits(p)

MatchInv == OnceInv /\ KeptInv

LEMMA JoinedPairs ==
  ASSUME JoinInv
  PROVE  \A p : p \in Abstract!Joined <=>
           /\ p \in PairSet /\ Matches(p[1], p[2])
           /\ \A s \in Sides : RowOf(p, s) \in ToSet(Inputs[s])
<1>1. ToSet(left) \subseteq InputRow /\ ToSet(right) \subseteq InputRow
  BY SequenceFacts DEF JoinInv, TypeInv
<1>2. \A p : (\A s \in Sides : RowOf(p, s) \in ToSet(Inputs[s])) <=>
        p[1] \in ToSet(left) /\ p[2] \in ToSet(right)
  BY DEF Sides, RowOf, Inputs
<1>3. Abstract!Joined = {p \in ToSet(left) \X ToSet(right) : Matches(p[1], p[2])}
  BY DEF Abstract!Joined, Abstract!ToSet, ToSet
<1> QED BY <1>1, <1>2, <1>3 DEF PairSet

LEMMA JoinedSame == ASSUME UNCHANGED inputVars PROVE Abstract!Joined' = Abstract!Joined
  BY DEF inputVars, Abstract!Joined, Abstract!ToSet

\* Only one place still has a pair to find.
LEMMA OneSpot ==
  ASSUME JoinInv, RowsApart(Open, temp), NEW p
  PROVE  /\ \A t, u \in Open : Spot(p, t, temp) /\ Spot(p, u, temp) => t = u
         /\ \A a \in active : ActiveSpot(p, a, temp) =>
              Spot(p, a.task, temp) /\ ~ PendingSpot(p, pending_tasks, temp)
         /\ InBuildMap(p) =>
              state = "InMemoryProbing" /\ pending_tasks = << >> /\ active = {}
<1>1. \A t, u \in Open : Spot(p, t, temp) /\ Spot(p, u, temp) => t = u
  <2>1. "left" \in Sides
    BY DEF Sides
  <2> QED BY <2>1 DEF Spot, RowsApart
<1>2. ASSUME NEW a \in active, ActiveSpot(p, a, temp)
      PROVE  Spot(p, a.task, temp) /\ ~ PendingSpot(p, pending_tasks, temp)
  <2>1. PICK build, probe : build = BuildFile(a, temp) /\ probe = ProbeFile(a, temp)
    OBVIOUS
  <2>2. /\ a.side \in Sides /\ Other(a.side) \in Sides /\ a.task \in Open
        /\ a.task \notin ToSet(pending_tasks) /\ a.kind \in {"hash", "nested_loop"}
        /\ a.read \in 0..Len(probe) /\ a.inner_read \in 0..Len(build)
        /\ Underway(a, temp) /\ FilesRead(a, temp)
    BY <2>1, ActiveFacts
  <2>3. /\ build \in Seq(InputRow) /\ probe \in Seq(InputRow)
        /\ a.kind = "hash" => a.rows = build
        /\ a.kind = "nested_loop" => ToSet(a.rows) \subseteq ToSet(probe)
    BY <2>1, <2>2 DEF FilesRead, Underway, BuildFile, ProbeFile, RowsFrom
  <2>4. /\ ToSet(RowsAfter(probe, a.read)) \subseteq ToSet(probe)
        /\ ToSet(RowsAfter(build, a.inner_read)) \subseteq ToSet(build)
    BY <2>2, <2>3, AfterElements
  <2>5. RowOf(p, a.side) \in ToSet(build) /\ RowOf(p, Other(a.side)) \in ToSet(probe)
    BY <1>2, <2>1, <2>2, <2>3, <2>4 DEF ActiveSpot
  <2>6. Spot(p, a.task, temp)
    <3>1. \A s \in Sides : s = a.side \/ s = Other(a.side)
      BY <2>2, SideFacts
    <3> QED BY <2>1, <2>5, <3>1 DEF Spot, BuildFile, ProbeFile
  <2>7. ToSet(pending_tasks) \subseteq Open
    BY DEF Open
  <2> QED BY <1>1, <2>2, <2>6, <2>7 DEF PendingSpot
<1>3. ASSUME InBuildMap(p)
      PROVE  state = "InMemoryProbing" /\ pending_tasks = << >> /\ active = {}
  <2>1. build_map # << >>
    BY <1>3, EmptyElements DEF InBuildMap
  <2> QED BY <2>1 DEF JoinInv, TypeInv, StageInv
<1> QED BY <1>1, <1>2, <1>3

\* A step that finds some pairs, perhaps none, of those that are still to be found.
LEMMA FindingKeeps ==
  ASSUME MatchInv, UNCHANGED inputVars, output' = output, output_buf = << >>,
         JoinInv, JoinInv',
         state # "NotStarted", IsInjective(output_buf'), RowsApart(Open', temp'),
         \A p \in PairSet : Waits(p)' => Waits(p),
         \A p \in ToSet(output_buf') : Waits(p) /\ ~ Waits(p)',
         \A p \in Abstract!Joined : Waits(p) => Waits(p)' \/ p \in ToSet(output_buf')
  PROVE  MatchInv'
<1>1. ToSet(output_buf) = {}
  BY EmptyElements
<1>2. \A p \in ToSet(output) : ~ Waits(p) /\ p \in PairSet
  BY SequenceFacts DEF MatchInv, OnceInv, FoundPairs, JoinInv, TypeInv
<1>3. OnceInv'
  BY <1>1, <1>2 DEF MatchInv, OnceInv, FoundPairs
<1>4. KeptInv'
  BY <1>1, JoinedSame DEF MatchInv, KeptInv, FoundPairs
<1> QED BY <1>3, <1>4 DEF MatchInv

\* A step that starts the join.
LEMMA StartingKeeps ==
  ASSUME JoinInv, UNCHANGED <<inputVars, output, output_buf>>, state = "NotStarted",
         RowsApart(Open', temp'), \A p \in Abstract!Joined : Waits(p)'
  PROVE  MatchInv'
<1>1. output = << >> /\ output_buf = << >> /\ UNCHANGED inputVars
  BY DEF JoinInv, StageInv
<1>2. OnceInv'
  BY <1>1, EmptyElements DEF OnceInv, FoundPairs
<1>3. KeptInv'
  BY <1>1, JoinedSame DEF KeptInv
<1> QED BY <1>2, <1>3 DEF MatchInv

LEMMA InitMatchInv == Init => MatchInv
<1> SUFFICES ASSUME Init PROVE MatchInv
  OBVIOUS
<1>1. Open = {} /\ output = << >> /\ output_buf = << >> /\ state = "NotStarted"
  BY EmptyElements DEF Init, Open
<1>2. RowsApart(Open, temp)
  BY <1>1 DEF RowsApart
<1> QED BY <1>1, <1>2, EmptyElements DEF MatchInv, OnceInv, KeptInv, FoundPairs

\* With no task and no active partition only the build map still has pairs to find.
LEMMA WaitsInMemory ==
  ASSUME pending_tasks = << >>, active = {}
  PROVE  /\ \A p : Waits(p) <=> InBuildMap(p)
         /\ RowsApart(Open, temp)
  BY EmptyElements DEF Waits, PendingSpot, RowsApart, Open

LEMMA BuildInMemoryMatches == ASSUME JoinInv, MatchInv, BuildInMemory PROVE MatchInv'
<1>1. /\ UNCHANGED <<inputVars, output, output_buf>> /\ UNCHANGED inputVars
      /\ state = "NotStarted" /\ BuildSide' = BuildSide
      /\ build_map' = rest[BuildSide] /\ rest' = [rest EXCEPT ![BuildSide] = << >>]
      /\ pending_tasks = << >> /\ active = {} /\ pending_tasks' = << >> /\ active' = {}
      /\ rest = Inputs /\ rest \in [Sides -> Seq(InputRow)]
  BY InputsSame DEF BuildInMemory, JoinInv, StageInv, RestInv
<1>2. BuildSide \in Sides /\ Other(BuildSide) \in Sides /\ Other(BuildSide) # BuildSide
  BY BuildSideIsSide, SideFacts
<1>3. build_map' = Inputs[BuildSide] /\ rest'[Other(BuildSide)] = Inputs[Other(BuildSide)]
  BY <1>1, <1>2
<1>4. RowsApart(Open', temp')
  BY <1>1, EmptyElements DEF RowsApart, Open
<1>5. \A p \in Abstract!Joined : InBuildMap(p)'
  BY <1>1, <1>2, <1>3, JoinedPairs DEF InBuildMap
<1>6. \A p \in Abstract!Joined : Waits(p)'
  BY <1>5 DEF Waits
<1> QED BY <1>1, <1>4, <1>6, StartingKeeps

LEMMA ProbeInMemoryMatches == ASSUME JoinInv, JoinInv', MatchInv, ProbeInMemory PROVE MatchInv'
<1> DEFINE rows == rest[Other(BuildSide)]
           h    == Head(rows)
<1>1. /\ UNCHANGED inputVars /\ output' = output /\ output_buf = << >> /\ BuildSide' = BuildSide
      /\ state = "InMemoryProbing" /\ build_map' = build_map /\ temp' = temp
      /\ pending_tasks = << >> /\ active = {} /\ pending_tasks' = << >> /\ active' = {}
      /\ output_buf' = Found(BuildSide, build_map, h) /\ rows # << >>
      /\ rest' = [rest EXCEPT ![Other(BuildSide)] = Tail(@)]
  BY InputsSame DEF ProbeInMemory, JoinInv, StageInv
<1>2. BuildSide \in Sides /\ Other(BuildSide) \in Sides /\ Other(BuildSide) # BuildSide
  BY BuildSideIsSide, SideFacts
<1>3. /\ rows \in Seq(InputRow) /\ IsInjective(rows) /\ rest \in [Sides -> Seq(InputRow)]
      /\ build_map \in Seq(InputRow) /\ IsInjective(build_map)
  BY <1>2 DEF JoinInv, RestInv, RowsFrom
<1>4. rest'[Other(BuildSide)] = Tail(rows)
  BY <1>1, <1>2, <1>3
<1> HIDE DEF rows, h
<1>5. /\ h \in InputRow /\ ToSet(rows) = {h} \cup ToSet(Tail(rows)) /\ h \notin ToSet(Tail(rows))
  BY <1>1, <1>3, HeadElements DEF h
<1>6. /\ IsInjective(output_buf') /\ output_buf' \in Seq(PairSet)
      /\ \A p \in PairSet : p \in ToSet(output_buf') <=>
           /\ RowOf(p, BuildSide) \in ToSet(build_map) /\ RowOf(p, Other(BuildSide)) = h
           /\ Matches(p[1], p[2])
  BY <1>1, <1>2, <1>3, <1>5, FoundElements
<1>7. \A p : Waits(p) <=>
        RowOf(p, BuildSide) \in ToSet(build_map) /\ RowOf(p, Other(BuildSide)) \in ToSet(rows)
  BY <1>1, WaitsInMemory DEF InBuildMap, rows
<1>8. /\ \A p : Waits(p)' <=> RowOf(p, BuildSide) \in ToSet(build_map)
                            /\ RowOf(p, Other(BuildSide)) \in ToSet(Tail(rows))
      /\ RowsApart(Open', temp')
  <2>1. \A p : Waits(p)' <=> InBuildMap(p)'
    BY <1>1, EmptyElements DEF Waits, PendingSpot
  <2>2. RowsApart(Open', temp')
    BY <1>1, EmptyElements DEF RowsApart, Open
  <2> QED BY <1>1, <1>4, <2>1, <2>2 DEF InBuildMap
<1>9. ToSet(output_buf') \subseteq PairSet
  BY <1>6, SequenceFacts
<1>10. \A p \in PairSet : Waits(p)' => Waits(p)
  BY <1>5, <1>7, <1>8
<1>11. \A p \in ToSet(output_buf') : Waits(p) /\ ~ Waits(p)'
  BY <1>5, <1>6, <1>7, <1>8, <1>9
<1>12. \A p \in Abstract!Joined : Waits(p) => Waits(p)' \/ p \in ToSet(output_buf')
  BY <1>5, <1>6, <1>7, <1>8, JoinedPairs
<1> QED BY <1>1, <1>6, <1>8, <1>10, <1>11, <1>12, FindingKeeps

\* A step that leaves the buffer empty and what is still to be found as it was.
LEMMA NothingFoundKeeps ==
  ASSUME MatchInv, JoinInv, JoinInv', UNCHANGED inputVars,
         output' = output, output_buf = << >>, output_buf' = << >>,
         state # "NotStarted", RowsApart(Open', temp'),
         \A p \in PairSet : Waits(p)' => Waits(p),
         \A p \in Abstract!Joined : Waits(p) => Waits(p)'
  PROVE  MatchInv'
<1>1. IsInjective(output_buf') /\ ToSet(output_buf') = {}
  BY EmptyElements
<1> QED BY <1>1, FindingKeeps

LEMMA EndInMemoryMatches == ASSUME JoinInv, JoinInv', MatchInv, EndInMemory PROVE MatchInv'
<1>1. /\ UNCHANGED inputVars /\ output' = output /\ output_buf = << >> /\ output_buf' = << >>
      /\ state = "InMemoryProbing" /\ build_map' = << >> /\ temp' = temp
      /\ pending_tasks = << >> /\ active = {} /\ pending_tasks' = << >> /\ active' = {}
      /\ rest[Other(BuildSide)] = << >>
  BY DEF EndInMemory, JoinInv, StageInv
<1>2. \A p : ~ Waits(p)
  BY <1>1, WaitsInMemory, EmptyElements DEF InBuildMap
<1>3. \A p : ~ Waits(p)'
  BY <1>1, EmptyElements DEF Waits, PendingSpot, InBuildMap
<1>4. RowsApart(Open', temp')
  BY <1>1, EmptyElements DEF RowsApart, Open
<1> QED BY <1>1, <1>2, <1>3, <1>4, NothingFoundKeeps

LEMMA PopOutputMatches == ASSUME JoinInv, MatchInv, PopOutput PROVE MatchInv'
<1>1. /\ UNCHANGED inputVars /\ output_buf # << >> /\ output' = Append(output, Last(output_buf))
      /\ output_buf' = Front(output_buf) /\ BuildSide' = BuildSide
      /\ UNCHANGED <<state, rest, build_map, pending_tasks, active, temp, next_id>>
  BY InputsSame DEF PopOutput
<1>2. output_buf \in Seq(PairSet) /\ output \in Seq(PairSet)
  BY DEF JoinInv, TypeInv
<1>3. PICK e : e = Last(output_buf)
  OBVIOUS
<1>4. /\ e \in PairSet /\ ToSet(output_buf) = ToSet(output_buf') \cup {e}
      /\ IsInjective(output_buf) => IsInjective(output_buf') /\ e \notin ToSet(output_buf')
  BY <1>1, <1>2, <1>3, PopElements
<1>5. /\ ToSet(output') = ToSet(output) \cup {e}
      /\ IsInjective(output') <=> IsInjective(output) /\ e \notin ToSet(output)
  BY <1>1, <1>2, <1>3, <1>4, AppendElements
<1>6. /\ FoundPairs' = FoundPairs /\ \A p : Waits(p)' <=> Waits(p)
      /\ Open' = Open
  BY <1>1, <1>4, <1>5 DEF FoundPairs, Waits, InBuildMap, Open
<1>7. OnceInv'
  BY <1>1, <1>4, <1>5, <1>6 DEF MatchInv, OnceInv
<1>8. KeptInv'
  BY <1>1, <1>6, JoinedSame DEF MatchInv, KeptInv
<1> QED BY <1>7, <1>8 DEF MatchInv

\* A new task has the pairs of rows that the salted hash sends to its partition: all
\* of those that match, and no two new tasks share a row.
LEMMA SplitSpots ==
  ASSUME NEW rows, NEW depth, Splits(rows, depth),
         \A part \in KeptParts(rows, depth) : \A s \in Sides :
           temp'[NewTask(part, depth).file[s]] = InPartition(rows[s], depth, part)
  PROVE  /\ \A t \in NewTasks(rows, depth) : \A s \in Sides :
              ToSet(temp'[t.file[s]]) \subseteq ToSet(rows[s])
         /\ \A p \in PairSet :
              (\E t \in NewTasks(rows, depth) : Spot(p, t, temp')) =>
                \A s \in Sides : RowOf(p, s) \in ToSet(rows[s])
         /\ \A p \in PairSet :
              Matches(p[1], p[2]) /\ (\A s \in Sides : RowOf(p, s) \in ToSet(rows[s])) =>
                \E t \in NewTasks(rows, depth) : Spot(p, t, temp')
         /\ \A t, u \in NewTasks(rows, depth) : t # u => \A s \in Sides :
              ToSet(temp'[t.file[s]]) \cap ToSet(temp'[u.file[s]]) = {}
<1> DEFINE K == KeptParts(rows, depth)
           part(r) == hash[r.key, depth]
<1>1. /\ depth \in 0..MaxDepth /\ hash \in HashFunctions
      /\ \A s \in Sides : rows[s] \in Seq(InputRow) /\ ToSet(rows[s]) \subseteq InputRow
  BY SequenceFacts DEF Splits
<1>2. ASSUME NEW k \in K, NEW s \in Sides, NEW r
      PROVE  r \in ToSet(temp'[NewTask(k, depth).file[s]]) <=> r \in ToSet(rows[s]) /\ part(r) = k
  <2>1. temp'[NewTask(k, depth).file[s]] = InPartition(rows[s], depth, k)
    BY <1>2
  <2>2. /\ InPartition(rows[s], depth, k) \in Seq(InputRow)
        /\ \A q : q \in ToSet(InPartition(rows[s], depth, k)) <=>
             q \in ToSet(rows[s]) /\ hash[q.key, depth] = k
        /\ IsInjective(rows[s]) => IsInjective(InPartition(rows[s], depth, k))
    BY <1>1, <1>2, PartitionElements
  <2> QED BY <2>1, <2>2
<1>3. ASSUME NEW t \in NewTasks(rows, depth)
      PROVE  \E k \in K : t = NewTask(k, depth)
  BY DEF NewTasks
<1> HIDE DEF K, part
<1>4. ASSUME NEW t \in NewTasks(rows, depth), NEW s \in Sides
      PROVE  ToSet(temp'[t.file[s]]) \subseteq ToSet(rows[s])
  BY <1>2, <1>3
<1>5. ASSUME NEW p \in PairSet, NEW t \in NewTasks(rows, depth), Spot(p, t, temp'), NEW s \in Sides
      PROVE  RowOf(p, s) \in ToSet(rows[s])
  BY <1>4, <1>5 DEF Spot
<1>6. ASSUME NEW p \in PairSet, Matches(p[1], p[2]), \A s \in Sides : RowOf(p, s) \in ToSet(rows[s])
      PROVE  \E t \in NewTasks(rows, depth) : Spot(p, t, temp')
  <2> DEFINE k == part(p[1])
  <2>1. p[1] \in InputRow /\ p[2] \in InputRow /\ p[1].key = p[2].key
    BY <1>6 DEF PairSet, Matches
  <2>2. \A s \in Sides : part(RowOf(p, s)) = k
    BY <2>1 DEF part, RowOf
  <2>3. k \in Parts
    BY <1>1, <2>1, HashTyped DEF part
  <2>4. k \in K
    <3>1. \A s \in Sides : RowOf(p, s) \in ToSet(rows[s]) /\ hash[RowOf(p, s).key, depth] = k
      BY <1>6, <2>2 DEF part
    <3> HIDE DEF k
    <3> QED BY <2>3, <3>1 DEF K, KeptParts, Parts
  <2>5. NewTask(k, depth) \in NewTasks(rows, depth)
    BY <2>4 DEF NewTasks, K
  <2>6. Spot(p, NewTask(k, depth), temp')
    BY <1>2, <1>6, <2>2, <2>4 DEF Spot
  <2> QED BY <2>5, <2>6
<1>7. ASSUME NEW t \in NewTasks(rows, depth), NEW u \in NewTasks(rows, depth), t # u, NEW s \in Sides
      PROVE  ToSet(temp'[t.file[s]]) \cap ToSet(temp'[u.file[s]]) = {}
  <2>1. PICK k \in K, l \in K : t = NewTask(k, depth) /\ u = NewTask(l, depth) /\ k # l
    BY <1>3, <1>7
  <2> QED BY <1>2, <2>1
<1> QED BY <1>4, <1>5, <1>6, <1>7

LEMMA StartPartitionedMatches == ASSUME JoinInv, MatchInv, StartPartitioned PROVE MatchInv'
<1>1. PICK rows \in [Sides -> Seq(InputRow)] :
        /\ \A s \in Sides : RowsFrom(rows[s], Inputs[s])
        /\ \A r \in ToSet(Inputs[BuildSide]) : \A q \in ToSet(Inputs[Other(BuildSide)]) :
             r.key = q.key =>
               r \in ToSet(rows[BuildSide]) /\ q \in ToSet(rows[Other(BuildSide)])
        /\ pending_tasks' = Tasks(rows, 0) /\ SplitIntoFiles(rows, 0, {})
        /\ UNCHANGED <<inputVars, build_map, active, output_buf, output>>
  BY PartitionedRows
<1>2. /\ UNCHANGED inputVars /\ UNCHANGED <<inputVars, output, output_buf>>
      /\ BuildSide \in Sides /\ Other(BuildSide) \in Sides
      /\ (\A s \in Sides : s = BuildSide \/ s = Other(BuildSide))
      /\ state = "NotStarted" /\ active = {} /\ active' = {}
  BY <1>1, BuildSideIsSide, SideFacts DEF JoinInv, StageInv, StartPartitioned
<1>3. Splits(rows, 0)
  BY <1>1, JoinAssumption DEF Splits, JoinInv, TypeInv
<1>4. \A p \in KeptParts(rows, 0) : \A s \in Sides :
        temp'[NewTask(p, 0).file[s]] = InPartition(rows[s], 0, p)
  <2>1. \A id \in DOMAIN temp : id \in Nat /\ id < next_id
    BY DEF JoinInv, FilesInv, FilesOwned
  <2>2. \A p \in KeptParts(rows, 0) : \A s \in Sides :
          temp'[FileOf(p, s)] = InPartition(rows[s], 0, p)
    BY <1>1, <1>3, <2>1, SplitResult
  <2>3. \A p : \A s \in Sides : NewTask(p, 0).file[s] = FileOf(p, s)
    BY DEF NewTask
  <2> QED BY <2>2, <2>3
<1>5. ToSet(pending_tasks') = NewTasks(rows, 0) /\ Open' = NewTasks(rows, 0)
  BY <1>1, <1>2, <1>3, TasksElements DEF NewTasks, Open
<1>6. RowsApart(Open', temp')
  BY <1>3, <1>4, <1>5, SplitSpots DEF RowsApart
<1>7. ASSUME NEW p \in Abstract!Joined PROVE Waits(p)'
  <2>1. /\ p \in PairSet /\ Matches(p[1], p[2])
        /\ \A s \in Sides : RowOf(p, s) \in ToSet(Inputs[s])
    BY <1>7, JoinedPairs
  <2>2. RowOf(p, BuildSide).key = RowOf(p, Other(BuildSide)).key
    BY <2>1 DEF Matches, RowOf, Other
  <2>3. /\ RowOf(p, BuildSide) \in ToSet(rows[BuildSide])
        /\ RowOf(p, Other(BuildSide)) \in ToSet(rows[Other(BuildSide)])
    BY <1>1, <1>2, <2>1, <2>2
  <2>4. \A s \in Sides : RowOf(p, s) \in ToSet(rows[s])
    BY <1>2, <2>3
  <2>5. \E t \in NewTasks(rows, 0) : Spot(p, t, temp')
    BY <1>3, <1>4, <2>1, <2>4, SplitSpots
  <2> QED BY <1>5, <2>5 DEF Waits, PendingSpot
<1> QED BY <1>2, <1>6, <1>7, StartingKeeps

LEMMA RepartitionMatches ==
  ASSUME JoinInv, JoinInv', MatchInv, NEW task, RepartitionTask(task)
  PROVE  MatchInv'
<1> DEFINE tail  == Tail(pending_tasks)
           rows  == RowsIn(task)
           depth == task.depth + 1
           new   == NewTasks(rows, depth)
<1>1. /\ UNCHANGED inputVars /\ output' = output /\ output_buf' = output_buf
      /\ UNCHANGED <<rest, build_map, active>> /\ NextTask(task)
      /\ pending_tasks' = Tasks(rows, depth) \o tail
      /\ SplitIntoFiles(rows, depth, FilesOf(task)) /\ task.depth < MaxDepth
      /\ BuildSide' = BuildSide
  BY InputsSame DEF RepartitionTask
<1>2. /\ state = "Probing" /\ active = {} /\ output_buf = << >> /\ task \in TaskSet /\ task \in Open
      /\ tail \in Seq(TaskSet) /\ IsInjective(tail)
      /\ ToSet(pending_tasks) = {task} \cup ToSet(tail)
      /\ Open = {task} \cup ToSet(tail) /\ task \notin ToSet(tail)
  BY <1>1, NextTaskFacts
<1>3. \A s \in Sides : rows[s] = temp[task.file[s]] /\ rows[s] \in Seq(InputRow)
  BY <1>2, TaskRows DEF JoinInv
<1>4. Splits(rows, depth)
  <2>1. depth \in 0..MaxDepth
    BY <1>1, <1>2, JoinAssumption, ActiveFields
  <2>2. rows = [s \in Sides |-> rows[s]]
    BY DEF RowsIn
  <2> HIDE DEF rows, depth
  <2> QED BY <1>3, <2>1, <2>2 DEF Splits, JoinInv, TypeInv
<1> HIDE DEF rows, depth, tail
<1>5. /\ \A p \in KeptParts(rows, depth) : \A s \in Sides :
           temp'[NewTask(p, depth).file[s]] = InPartition(rows[s], depth, p)
      /\ \A t \in ToSet(tail) : \A s \in Sides : temp'[t.file[s]] = temp[t.file[s]]
  <2>1. /\ \A id \in DOMAIN temp : id \in Nat /\ id < next_id
        /\ \A t \in Open : \A s \in Sides : t.file[s] \in DOMAIN temp
        /\ \A t, u \in Open : \A s, s2 \in Sides : t.file[s] = u.file[s2] => t = u /\ s = s2
    BY DEF JoinInv, FilesInv, FilesOwned
  <2>2. /\ \A p \in KeptParts(rows, depth) : \A s \in Sides :
             temp'[FileOf(p, s)] = InPartition(rows[s], depth, p)
        /\ \A id \in DOMAIN temp \ FilesOf(task) : temp'[id] = temp[id]
    BY <1>1, <1>4, <2>1, SplitResult
  <2>3. \A p : \A s \in Sides : NewTask(p, depth).file[s] = FileOf(p, s)
    BY DEF NewTask
  <2>4. ASSUME NEW t \in ToSet(tail), NEW s \in Sides PROVE temp'[t.file[s]] = temp[t.file[s]]
    <3>1. t.file[s] \notin FilesOf(task)
      <4>1. SUFFICES ASSUME NEW s2 \in Sides, t.file[s] = task.file[s2] PROVE FALSE
        BY DEF FilesOf
      <4>2. t \in Open /\ task \in Open
        BY <1>2, <2>4
      <4>3. t = task
        BY <2>1, <2>4, <4>1, <4>2
      <4> QED BY <1>2, <2>4, <4>3
    <3>2. t.file[s] \in DOMAIN temp
      BY <1>2, <2>1, <2>4
    <3> QED BY <2>2, <3>1, <3>2
  <2> QED BY <2>2, <2>3, <2>4
<1>6. ToSet(pending_tasks') = new \cup ToSet(tail) /\ Open' = new \cup ToSet(tail)
  <2>1. /\ Tasks(rows, depth) \in Seq(TaskSet) /\ ToSet(Tasks(rows, depth)) = new
    BY <1>4, TasksElements DEF NewTasks
  <2>2. ToSet(pending_tasks') = new \cup ToSet(tail)
    BY <1>1, <1>2, <2>1, ConcatElements
  <2> QED BY <1>1, <1>2, <2>2 DEF Open
<1> HIDE DEF new
<1>7. /\ \A t \in new : \A s \in Sides : ToSet(temp'[t.file[s]]) \subseteq ToSet(rows[s])
      /\ \A p \in PairSet : (\E t \in new : Spot(p, t, temp')) =>
           \A s \in Sides : RowOf(p, s) \in ToSet(rows[s])
      /\ \A p \in PairSet :
           Matches(p[1], p[2]) /\ (\A s \in Sides : RowOf(p, s) \in ToSet(rows[s])) =>
             \E t \in new : Spot(p, t, temp')
      /\ \A t, u \in new : t # u => \A s \in Sides :
           ToSet(temp'[t.file[s]]) \cap ToSet(temp'[u.file[s]]) = {}
  BY <1>4, <1>5, SplitSpots DEF new
<1>8. RowsApart(Open', temp')
  <2>1. \A t, u \in Open : t # u =>
          \A s \in Sides : ToSet(temp[t.file[s]]) \cap ToSet(temp[u.file[s]]) = {}
    BY DEF MatchInv, OnceInv, RowsApart
  <2>2. ASSUME NEW t \in Open', NEW u \in Open', t # u, NEW s \in Sides
        PROVE  ToSet(temp'[t.file[s]]) \cap ToSet(temp'[u.file[s]]) = {}
    <3>1. CASE t \in new /\ u \in new
      BY <1>7, <2>2, <3>1
    <3>2. CASE t \in ToSet(tail) /\ u \in ToSet(tail)
      BY <1>2, <1>5, <2>1, <2>2, <3>2, SMTT(20)
    <3>3. ASSUME NEW v \in new, NEW w \in ToSet(tail)
          PROVE  ToSet(temp'[v.file[s]]) \cap ToSet(temp'[w.file[s]]) = {}
      <4>1. ToSet(temp[task.file[s]]) \cap ToSet(temp[w.file[s]]) = {}
        BY <1>2, <2>1, <2>2, <3>3
      <4>2. ToSet(temp'[v.file[s]]) \subseteq ToSet(temp[task.file[s]])
        BY <1>3, <1>7, <2>2, <3>3
      <4>3. temp'[w.file[s]] = temp[w.file[s]]
        BY <1>5, <2>2, <3>3
      <4> QED BY <4>1, <4>2, <4>3
    <3> QED BY <1>6, <2>2, <3>1, <3>2, <3>3
  <2> QED BY <2>2 DEF RowsApart
<1>9. \A p : \A t \in ToSet(tail) : Spot(p, t, temp') <=> Spot(p, t, temp)
  BY <1>5 DEF Spot
<1>10. \A p : Spot(p, task, temp) <=> \A s \in Sides : RowOf(p, s) \in ToSet(rows[s])
  BY <1>3 DEF Spot
<1>11. \A p : Waits(p) <=>
         Spot(p, task, temp) \/ (\E t \in ToSet(tail) : Spot(p, t, temp)) \/ InBuildMap(p)
  BY <1>2 DEF Waits, PendingSpot
<1>12. \A p : Waits(p)' <=>
         \/ \E t \in new : Spot(p, t, temp')
         \/ \E t \in ToSet(tail) : Spot(p, t, temp')
         \/ InBuildMap(p)
  <2>1. \A p : InBuildMap(p)' <=> InBuildMap(p)
    BY <1>1 DEF InBuildMap
  <2> QED BY <1>1, <1>2, <1>6, <2>1 DEF Waits, PendingSpot
<1>13. \A p \in PairSet : Waits(p)' => Waits(p)
  BY <1>7, <1>9, <1>10, <1>11, <1>12
<1>14. \A p \in Abstract!Joined : Waits(p) => Waits(p)'
  BY <1>7, <1>9, <1>10, <1>11, <1>12, JoinedPairs
<1> QED BY <1>1, <1>2, <1>8, <1>13, <1>14, NothingFoundKeeps

\* A task that becomes the active partition keeps the pairs it has to find.
LEMMA StartMatches ==
  ASSUME JoinInv, JoinInv', MatchInv, NEW task, NextTask(task), NEW a, active' = {a},
         \A p : ActiveSpot(p, a, temp) <=> Spot(p, task, temp),
         a.task = task, pending_tasks' = Tail(pending_tasks),
         UNCHANGED <<inputVars, rest, build_map, output_buf, output, temp>>
  PROVE  MatchInv'
<1>1. /\ UNCHANGED inputVars /\ output' = output /\ output_buf = << >> /\ output_buf' = << >>
      /\ BuildSide' = BuildSide /\ temp' = temp
      /\ state = "Probing" /\ active = {} /\ Open = {task} \cup ToSet(pending_tasks')
      /\ ToSet(pending_tasks) = {task} \cup ToSet(pending_tasks')
  BY NextTaskFacts, InputsSame
<1>2. Open' = Open
  BY <1>1 DEF Open
<1>3. RowsApart(Open', temp')
  BY <1>1, <1>2 DEF MatchInv, OnceInv
<1>4. \A p : Waits(p) <=>
        Spot(p, task, temp) \/ PendingSpot(p, pending_tasks', temp) \/ InBuildMap(p)
  BY <1>1 DEF Waits, PendingSpot
<1>5. \A p : Waits(p)' <=>
        ActiveSpot(p, a, temp) \/ PendingSpot(p, pending_tasks', temp) \/ InBuildMap(p)
  <2>1. \A p : InBuildMap(p)' <=> InBuildMap(p)
    BY <1>1 DEF InBuildMap
  <2> QED BY <1>1, <2>1 DEF Waits
<1>6. (\A p : Waits(p)' => Waits(p)) /\ \A p : Waits(p) => Waits(p)'
  BY <1>4, <1>5
<1> QED BY <1>1, <1>3, <1>6, NothingFoundKeeps

LEMMA StartHashMatches ==
  ASSUME JoinInv, JoinInv', MatchInv, NEW task, StartHash(task)
  PROVE  MatchInv'
<1>1. PICK a \in ActiveSet :
        /\ a.task = task /\ a.kind = "hash" /\ a.read = 0 /\ Underway(a, temp) /\ active' = {a}
  BY StartHashFacts
<1>2. /\ NextTask(task) /\ pending_tasks' = Tail(pending_tasks)
      /\ UNCHANGED <<inputVars, rest, build_map, output_buf, output, temp>>
  BY DEF StartHash
<1>3. a.side \in Sides /\ \A s \in Sides : s = a.side \/ s = Other(a.side)
  BY <1>1, ActiveFields, SideFacts
<1>4. Other(a.side) \in Sides
  BY <1>3, SideFacts
<1>5. PICK build, probe : build = BuildFile(a, temp) /\ probe = ProbeFile(a, temp)
  OBVIOUS
<1>6. /\ probe \in Seq(InputRow) /\ a.rows = build
      /\ build = temp[task.file[a.side]] /\ probe = temp[task.file[Other(a.side)]]
  BY <1>1, <1>2, <1>3, <1>5, StartFacts DEF FilesRead, Underway, BuildFile, ProbeFile
<1>7. ToSet(RowsAfter(probe, a.read)) = ToSet(probe)
  <2>1. Len(probe) \in Nat
    BY <1>6, SequenceFacts
  <2>2. 0 \in 0..Len(probe)
    BY <2>1
  <2> QED BY <1>1, <1>6, <2>2, AfterElements
<1>8. \A p : ActiveSpot(p, a, temp) <=>
        RowOf(p, a.side) \in ToSet(build) /\ RowOf(p, Other(a.side)) \in ToSet(probe)
  BY <1>1, <1>5, <1>6, <1>7 DEF ActiveSpot
<1>9. \A p : Spot(p, task, temp) <=>
        RowOf(p, a.side) \in ToSet(build) /\ RowOf(p, Other(a.side)) \in ToSet(probe)
  BY <1>3, <1>4, <1>6 DEF Spot
<1>10. \A p : ActiveSpot(p, a, temp) <=> Spot(p, task, temp)
  BY <1>8, <1>9
<1> QED BY <1>1, <1>2, <1>10, StartMatches

LEMMA StartNestedLoopMatches ==
  ASSUME JoinInv, JoinInv', MatchInv, NEW task, StartNestedLoop(task)
  PROVE  MatchInv'
<1>1. PICK a \in ActiveSet :
        /\ a.task = task /\ a.kind = "nested_loop" /\ a.inner_read = 0 /\ Underway(a, temp)
        /\ ToSet(ProbeFile(a, temp)) =
             ToSet(a.rows) \cup ToSet(RowsAfter(ProbeFile(a, temp), a.read))
        /\ active' = {a}
  BY StartNestedLoopFacts
<1>2. /\ NextTask(task) /\ pending_tasks' = Tail(pending_tasks)
      /\ UNCHANGED <<inputVars, rest, build_map, output_buf, output, temp>>
  BY DEF StartNestedLoop
<1>3. a.side \in Sides /\ \A s \in Sides : s = a.side \/ s = Other(a.side)
  BY <1>1, ActiveFields, SideFacts
<1>4. Other(a.side) \in Sides
  BY <1>3, SideFacts
<1>5. PICK build, probe : build = BuildFile(a, temp) /\ probe = ProbeFile(a, temp)
  OBVIOUS
<1>6. /\ build \in Seq(InputRow)
      /\ build = temp[task.file[a.side]] /\ probe = temp[task.file[Other(a.side)]]
  BY <1>1, <1>2, <1>3, <1>5, StartFacts DEF FilesRead, BuildFile, ProbeFile
<1>7. ToSet(RowsAfter(build, a.inner_read)) = ToSet(build)
  <2>1. Len(build) \in Nat
    BY <1>6, SequenceFacts
  <2>2. 0 \in 0..Len(build)
    BY <2>1
  <2> QED BY <1>1, <1>6, <2>2, AfterElements
<1>8. \A p : ActiveSpot(p, a, temp) <=>
        RowOf(p, a.side) \in ToSet(build) /\ RowOf(p, Other(a.side)) \in ToSet(probe)
  BY <1>1, <1>5, <1>7 DEF ActiveSpot
<1>9. \A p : Spot(p, task, temp) <=>
        RowOf(p, a.side) \in ToSet(build) /\ RowOf(p, Other(a.side)) \in ToSet(probe)
  BY <1>3, <1>4, <1>6 DEF Spot
<1>10. \A p : ActiveSpot(p, a, temp) <=> Spot(p, task, temp)
  BY <1>8, <1>9
<1> QED BY <1>1, <1>2, <1>10, StartMatches

\* The active partition reads on: what is pending stays so.
LEMMA AdvanceWaits ==
  ASSUME JoinInv, MatchInv, NEW a \in active, NEW b, active' = {b}, b.task = a.task,
         UNCHANGED <<inputVars, rest, build_map, pending_tasks, temp>>
  PROVE  /\ \A p : Waits(p) <=>
              PendingSpot(p, pending_tasks, temp) \/ ActiveSpot(p, a, temp)
         /\ \A p : Waits(p)' <=>
              PendingSpot(p, pending_tasks, temp) \/ ActiveSpot(p, b, temp)
         /\ \A p : ActiveSpot(p, a, temp) => ~ PendingSpot(p, pending_tasks, temp)
         /\ RowsApart(Open', temp')
<1>1. active = {a} /\ state = "Probing" /\ UNCHANGED inputVars /\ BuildSide' = BuildSide
      /\ temp' = temp /\ pending_tasks' = pending_tasks
  BY ActiveFacts, InputsSame
<1>2. RowsApart(Open, temp)
  BY DEF MatchInv, OnceInv
<1>3. \A p : ~ InBuildMap(p)
  BY <1>1, <1>2, OneSpot
<1>4. \A p : InBuildMap(p)' <=> InBuildMap(p)
  BY <1>1 DEF InBuildMap
<1>5. Open' = Open
  BY <1>1 DEF Open
<1>6. \A p : Waits(p) <=> PendingSpot(p, pending_tasks, temp) \/ ActiveSpot(p, a, temp)
  BY <1>1, <1>3 DEF Waits
<1>7. \A p : Waits(p)' <=> PendingSpot(p, pending_tasks, temp) \/ ActiveSpot(p, b, temp)
  BY <1>1, <1>3, <1>4 DEF Waits
<1>8. \A p : ActiveSpot(p, a, temp) => ~ PendingSpot(p, pending_tasks, temp)
  BY <1>2, OneSpot
<1> QED BY <1>1, <1>2, <1>5, <1>6, <1>7, <1>8

\* A step of the active partition that finds the pairs L and leaves the others.
LEMMA AdvanceMatches ==
  ASSUME JoinInv, JoinInv', MatchInv, NEW a \in active, NEW b, active' = {b}, b.task = a.task,
         UNCHANGED <<inputVars, rest, build_map, pending_tasks, output, temp>>,
         output_buf = << >>, IsInjective(output_buf'),
         \A p \in PairSet : ActiveSpot(p, b, temp) => ActiveSpot(p, a, temp),
         \A p \in ToSet(output_buf') : ActiveSpot(p, a, temp) /\ ~ ActiveSpot(p, b, temp),
         \A p \in Abstract!Joined :
           ActiveSpot(p, a, temp) => ActiveSpot(p, b, temp) \/ p \in ToSet(output_buf')
  PROVE  MatchInv'
<1>1. /\ \A p : Waits(p) <=> PendingSpot(p, pending_tasks, temp) \/ ActiveSpot(p, a, temp)
      /\ \A p : Waits(p)' <=> PendingSpot(p, pending_tasks, temp) \/ ActiveSpot(p, b, temp)
      /\ \A p : ActiveSpot(p, a, temp) => ~ PendingSpot(p, pending_tasks, temp)
      /\ RowsApart(Open', temp')
  BY AdvanceWaits
<1>2. state = "Probing" /\ UNCHANGED inputVars /\ output' = output
  BY ActiveFacts
<1>3. \A p \in PairSet : Waits(p)' => Waits(p)
  BY <1>1
<1>4. \A p \in ToSet(output_buf') : Waits(p) /\ ~ Waits(p)'
  BY <1>1
<1>5. \A p \in Abstract!Joined : Waits(p) => Waits(p)' \/ p \in ToSet(output_buf')
  BY <1>1
<1> QED BY <1>1, <1>2, <1>3, <1>4, <1>5, FindingKeeps

\* The next row to read, and those after it.
LEMMA NextRow ==
  ASSUME NEW rows \in Seq(InputRow), IsInjective(rows), NEW n \in 0..Len(rows),
         RowsAfter(rows, n) # << >>
  PROVE  LET h == Head(RowsAfter(rows, n))
         IN /\ h \in InputRow
            /\ ToSet(RowsAfter(rows, n)) = {h} \cup ToSet(RowsAfter(rows, n + 1))
            /\ h \notin ToSet(RowsAfter(rows, n + 1))
<1>1. n # Len(rows) /\ n + 1 \in 1..Len(rows) /\ Head(RowsAfter(rows, n)) = rows[n + 1]
  BY AfterElements
<1>2. Len(rows) \in Nat /\ \A i \in 1..Len(rows) : rows[i] \in InputRow
  BY SequenceFacts
<1>3. n < Len(rows)
  BY <1>1, <1>2
<1>4. /\ ToSet(RowsAfter(rows, n)) = {rows[n + 1]} \cup ToSet(RowsAfter(rows, n + 1))
      /\ rows[n + 1] \notin ToSet(RowsAfter(rows, n + 1))
  BY <1>3, AfterElements
<1> QED BY <1>1, <1>2, <1>4

LEMMA ProbeRowMatches ==
  ASSUME JoinInv, JoinInv', MatchInv, NEW a \in active, ProbeRow(a)
  PROVE  MatchInv'
<1> DEFINE b == [a EXCEPT !.read = @ + 1]
           h == Head(ToProbe(a))
<1>1. /\ a.kind = "hash" /\ ToProbe(a) # << >> /\ active' = {b} /\ output_buf = << >>
      /\ output_buf' = Found(a.side, a.rows, h)
      /\ UNCHANGED <<inputVars, rest, build_map, pending_tasks, output, temp>>
  BY DEF ProbeRow
<1>2. /\ a \in ActiveSet /\ FilesRead(a, temp)
      /\ a.side \in Sides /\ a.rows \in Seq(InputRow) /\ IsInjective(a.rows)
      /\ ToProbe(a) = RowsAfter(ProbeFile(a, temp), a.read)
      /\ a.read \in 0..Len(ProbeFile(a, temp))
  BY ActiveFacts
<1>3. b.task = a.task /\ b.side = a.side /\ b.kind = a.kind /\ b.rows = a.rows /\ b.read = a.read + 1
  BY <1>2 DEF ActiveSet
<1> HIDE DEF b
<1>4. PICK probe : probe = ProbeFile(a, temp)
  OBVIOUS
<1>5. probe \in Seq(InputRow) /\ IsInjective(probe) /\ ProbeFile(b, temp) = probe
  BY <1>2, <1>3, <1>4 DEF FilesRead, ProbeFile
<1>6. /\ h \in InputRow
      /\ ToSet(RowsAfter(probe, a.read)) = {h} \cup ToSet(RowsAfter(probe, b.read))
      /\ h \notin ToSet(RowsAfter(probe, b.read))
  <2>1. h = Head(RowsAfter(probe, a.read)) /\ RowsAfter(probe, a.read) # << >>
    BY <1>1, <1>2, <1>4
  <2>2. a.read \in 0..Len(probe)
    BY <1>2, <1>4
  <2> HIDE DEF h
  <2> QED BY <1>3, <1>5, <2>1, <2>2, NextRow
<1> HIDE DEF h
<1>7. /\ IsInjective(output_buf') /\ output_buf' \in Seq(PairSet)
      /\ \A p \in PairSet : p \in ToSet(output_buf') <=>
           /\ RowOf(p, a.side) \in ToSet(a.rows) /\ RowOf(p, Other(a.side)) = h
           /\ Matches(p[1], p[2])
  BY <1>1, <1>2, <1>6, FoundElements
<1>8. /\ \A p : ActiveSpot(p, a, temp) <=>
           /\ RowOf(p, a.side) \in ToSet(a.rows)
           /\ RowOf(p, Other(a.side)) \in ToSet(RowsAfter(probe, a.read))
      /\ \A p : ActiveSpot(p, b, temp) <=>
           /\ RowOf(p, a.side) \in ToSet(a.rows)
           /\ RowOf(p, Other(a.side)) \in ToSet(RowsAfter(probe, b.read))
  BY <1>1, <1>3, <1>4, <1>5 DEF ActiveSpot
<1>9. \A p \in PairSet : ActiveSpot(p, b, temp) => ActiveSpot(p, a, temp)
  BY <1>6, <1>8
<1>10. \A p \in ToSet(output_buf') : ActiveSpot(p, a, temp) /\ ~ ActiveSpot(p, b, temp)
  <2>1. ToSet(output_buf') \subseteq PairSet
    BY <1>7, SequenceFacts
  <2> QED BY <1>6, <1>7, <1>8, <2>1
<1>11. \A p \in Abstract!Joined :
         ActiveSpot(p, a, temp) => ActiveSpot(p, b, temp) \/ p \in ToSet(output_buf')
  BY <1>6, <1>7, <1>8, JoinedPairs
<1> QED BY <1>1, <1>3, <1>7, <1>9, <1>10, <1>11, AdvanceMatches

LEMMA ScanInnerMatches ==
  ASSUME JoinInv, JoinInv', MatchInv, NEW a \in active, ScanInner(a)
  PROVE  MatchInv'
<1> DEFINE b == [a EXCEPT !.inner_read = @ + 1]
           h == Head(ToScan(a))
<1>1. /\ a.kind = "nested_loop" /\ ToScan(a) # << >> /\ active' = {b} /\ output_buf = << >>
      /\ output_buf' = ScannedWith(a, h)
      /\ UNCHANGED <<inputVars, rest, build_map, pending_tasks, output, temp>>
  BY DEF ScanInner
<1>2. /\ a \in ActiveSet /\ FilesRead(a, temp) /\ Underway(a, temp)
      /\ a.side \in Sides /\ a.rows \in Seq(InputRow) /\ IsInjective(a.rows)
      /\ ToScan(a) = RowsAfter(BuildFile(a, temp), a.inner_read)
      /\ a.inner_read \in 0..Len(BuildFile(a, temp))
  BY ActiveFacts
<1>3. /\ b.task = a.task /\ b.side = a.side /\ b.kind = a.kind /\ b.rows = a.rows
      /\ b.read = a.read /\ b.inner_read = a.inner_read + 1
  BY <1>2 DEF ActiveSet
<1> HIDE DEF b
<1>4. PICK build, probe : build = BuildFile(a, temp) /\ probe = ProbeFile(a, temp)
  OBVIOUS
<1>5. /\ build \in Seq(InputRow) /\ IsInjective(build)
      /\ BuildFile(b, temp) = build /\ ProbeFile(b, temp) = probe
  BY <1>2, <1>3, <1>4 DEF FilesRead, BuildFile, ProbeFile
<1>6. /\ h \in InputRow
      /\ ToSet(RowsAfter(build, a.inner_read)) = {h} \cup ToSet(RowsAfter(build, b.inner_read))
      /\ h \notin ToSet(RowsAfter(build, b.inner_read))
  <2>1. h = Head(RowsAfter(build, a.inner_read)) /\ RowsAfter(build, a.inner_read) # << >>
    BY <1>1, <1>2, <1>4
  <2>2. a.inner_read \in 0..Len(build)
    BY <1>2, <1>4
  <2> HIDE DEF h
  <2> QED BY <1>3, <1>5, <2>1, <2>2, NextRow
<1> HIDE DEF h
<1>7. /\ IsInjective(output_buf') /\ output_buf' \in Seq(PairSet)
      /\ \A p \in PairSet : p \in ToSet(output_buf') <=>
           /\ RowOf(p, Other(a.side)) \in ToSet(a.rows) /\ RowOf(p, a.side) = h
           /\ Residual(p[1], p[2])
  BY <1>1, <1>2, <1>6, ScannedElements
<1>8. ToSet(a.rows) \cap ToSet(RowsAfter(probe, a.read)) = {}
  BY <1>1, <1>2, <1>4 DEF Underway, ProbeFile
<1>9. /\ \A p : ActiveSpot(p, a, temp) <=>
           \/ /\ RowOf(p, Other(a.side)) \in ToSet(a.rows)
              /\ RowOf(p, a.side) \in ToSet(RowsAfter(build, a.inner_read))
           \/ /\ RowOf(p, Other(a.side)) \in ToSet(RowsAfter(probe, a.read))
              /\ RowOf(p, a.side) \in ToSet(build)
      /\ \A p : ActiveSpot(p, b, temp) <=>
           \/ /\ RowOf(p, Other(a.side)) \in ToSet(a.rows)
              /\ RowOf(p, a.side) \in ToSet(RowsAfter(build, b.inner_read))
           \/ /\ RowOf(p, Other(a.side)) \in ToSet(RowsAfter(probe, a.read))
              /\ RowOf(p, a.side) \in ToSet(build)
  BY <1>1, <1>3, <1>4, <1>5 DEF ActiveSpot
<1>10. \A p \in PairSet : ActiveSpot(p, b, temp) => ActiveSpot(p, a, temp)
  BY <1>6, <1>9
<1>11. \A p \in ToSet(output_buf') : ActiveSpot(p, a, temp) /\ ~ ActiveSpot(p, b, temp)
  <2>1. ToSet(output_buf') \subseteq PairSet
    BY <1>7, SequenceFacts
  <2> QED BY <1>6, <1>7, <1>8, <1>9, <2>1
<1>12. \A p \in Abstract!Joined :
         ActiveSpot(p, a, temp) => ActiveSpot(p, b, temp) \/ p \in ToSet(output_buf')
  <2>1. \A p \in Abstract!Joined : p \in PairSet /\ Residual(p[1], p[2])
    BY JoinedPairs DEF Matches
  <2> QED BY <1>6, <1>7, <1>9, <2>1
<1> QED BY <1>1, <1>3, <1>7, <1>10, <1>11, <1>12, AdvanceMatches

LEMMA NextOuterBatchMatches ==
  ASSUME JoinInv, JoinInv', MatchInv, NEW a \in active, NextOuterBatch(a)
  PROVE  MatchInv'
<1>1. PICK b \in ActiveSet :
        /\ b.task = a.task /\ b.side = a.side /\ b.kind = "nested_loop" /\ b.inner_read = 0
        /\ ToSet(RowsAfter(ProbeFile(a, temp), a.read)) =
             ToSet(b.rows) \cup ToSet(RowsAfter(ProbeFile(a, temp), b.read))
        /\ active' = {b}
  BY NextBatchFacts
<1>2. /\ a.kind = "nested_loop" /\ ToScan(a) = << >> /\ output_buf = << >> /\ output_buf' = << >>
      /\ UNCHANGED <<inputVars, rest, build_map, pending_tasks, output, temp>>
  BY DEF NextOuterBatch
<1>3. PICK build, probe : build = BuildFile(a, temp) /\ probe = ProbeFile(a, temp)
  OBVIOUS
<1>4. /\ build \in Seq(InputRow) /\ BuildFile(b, temp) = build /\ ProbeFile(b, temp) = probe
      /\ RowsAfter(build, a.inner_read) = << >>
  BY <1>1, <1>2, <1>3, ActiveFacts DEF FilesRead, BuildFile, ProbeFile
<1>5. ToSet(RowsAfter(build, b.inner_read)) = ToSet(build)
  <2>1. Len(build) \in Nat
    BY <1>4, SequenceFacts
  <2>2. 0 \in 0..Len(build)
    BY <2>1
  <2> QED BY <1>1, <1>4, <2>2, AfterElements
<1>6. ToSet(RowsAfter(build, a.inner_read)) = {}
  BY <1>4, EmptyElements
<1>7. \A p : ActiveSpot(p, a, temp) <=>
        /\ RowOf(p, Other(a.side)) \in ToSet(RowsAfter(probe, a.read))
        /\ RowOf(p, a.side) \in ToSet(build)
  BY <1>2, <1>3, <1>6 DEF ActiveSpot
<1>8. \A p : ActiveSpot(p, b, temp) <=>
        /\ \/ RowOf(p, Other(a.side)) \in ToSet(b.rows)
           \/ RowOf(p, Other(a.side)) \in ToSet(RowsAfter(probe, b.read))
        /\ RowOf(p, a.side) \in ToSet(build)
  BY <1>1, <1>4, <1>5 DEF ActiveSpot
<1>9. \A p : ActiveSpot(p, a, temp) <=> ActiveSpot(p, b, temp)
  BY <1>1, <1>3, <1>7, <1>8
<1>10. IsInjective(output_buf') /\ ToSet(output_buf') = {}
  BY <1>2, EmptyElements
<1> QED BY <1>1, <1>2, <1>9, <1>10, AdvanceMatches

LEMMA EndPartitionMatches ==
  ASSUME JoinInv, JoinInv', MatchInv, NEW a \in active, EndPartition(a)
  PROVE  MatchInv'
<1>1. /\ output_buf = << >> /\ output_buf' = << >> /\ output' = output /\ UNCHANGED inputVars
      /\ ToProbe(a) = << >> /\ (a.kind = "nested_loop" => ToScan(a) = << >>)
      /\ temp' = [id \in DOMAIN temp \ FilesOf(a.task) |-> temp[id]] /\ active' = {}
      /\ UNCHANGED <<rest, build_map, pending_tasks>> /\ BuildSide' = BuildSide
  BY InputsSame DEF EndPartition, CleanupFiles
<1>2. /\ active = {a} /\ state = "Probing" /\ a.task \in Open /\ a.task \notin ToSet(pending_tasks)
      /\ a.kind \in {"hash", "nested_loop"} /\ ToProbe(a) = RowsAfter(ProbeFile(a, temp), a.read)
      /\ ToScan(a) = RowsAfter(BuildFile(a, temp), a.inner_read)
  BY ActiveFacts
<1>3. \A p : ~ ActiveSpot(p, a, temp)
  BY <1>1, <1>2, EmptyElements DEF ActiveSpot
<1>4. ToSet(pending_tasks) \subseteq Open /\ Open' = ToSet(pending_tasks)
  BY <1>1 DEF Open
<1>5. ASSUME NEW t \in ToSet(pending_tasks), NEW s \in Sides
      PROVE  temp'[t.file[s]] = temp[t.file[s]]
  <2>1. /\ \A u \in Open : \A z \in Sides : u.file[z] \in DOMAIN temp
        /\ \A u, v \in Open : \A z, z2 \in Sides : u.file[z] = v.file[z2] => u = v /\ z = z2
    BY DEF JoinInv, FilesInv, FilesOwned
  <2>2. t \in Open /\ t # a.task
    BY <1>2, <1>4, <1>5
  <2>3. t.file[s] \notin FilesOf(a.task)
    <3>1. SUFFICES ASSUME NEW s2 \in Sides, t.file[s] = a.task.file[s2] PROVE FALSE
      BY DEF FilesOf
    <3> QED BY <1>2, <1>5, <2>1, <2>2, <3>1
  <2> QED BY <1>1, <1>5, <2>1, <2>2, <2>3
<1>6. RowsApart(Open', temp')
  <2>1. RowsApart(Open, temp)
    BY DEF MatchInv, OnceInv
  <2> QED BY <1>4, <1>5, <2>1 DEF RowsApart
<1>7. \A p : \A t \in ToSet(pending_tasks) : Spot(p, t, temp') <=> Spot(p, t, temp)
  BY <1>5 DEF Spot
<1>8. \A p : Waits(p)' <=> Waits(p)
  <2>1. \A p : InBuildMap(p)' <=> InBuildMap(p)
    BY <1>1 DEF InBuildMap
  <2>2. \A p : Waits(p) <=> PendingSpot(p, pending_tasks, temp) \/ InBuildMap(p)
    BY <1>2, <1>3 DEF Waits
  <2>3. \A p : Waits(p)' <=> PendingSpot(p, pending_tasks, temp') \/ InBuildMap(p)
    BY <1>1, <2>1 DEF Waits
  <2>4. \A p : PendingSpot(p, pending_tasks, temp') <=> PendingSpot(p, pending_tasks, temp)
    BY <1>7 DEF PendingSpot
  <2> QED BY <2>2, <2>3, <2>4
<1> QED BY <1>1, <1>2, <1>6, <1>8, NothingFoundKeeps

\* A step that changes neither the pairs found nor what is to be read.
LEMMA SameSpotsKeep ==
  ASSUME JoinInv, MatchInv, state # "NotStarted" \/ state' = "NotStarted",
         UNCHANGED <<inputVars, rest, build_map, pending_tasks, active, output_buf, output, temp>>
  PROVE  MatchInv'
<1>1. UNCHANGED inputVars /\ BuildSide' = BuildSide /\ FoundPairs' = FoundPairs /\ Open' = Open
      /\ temp' = temp /\ output' = output /\ output_buf' = output_buf
  BY InputsSame DEF FoundPairs, Open
<1>2. \A p : Waits(p)' <=> Waits(p)
  <2>1. \A p : InBuildMap(p)' <=> InBuildMap(p)
    BY <1>1 DEF InBuildMap
  <2> QED BY <1>1, <2>1 DEF Waits
<1>3. OnceInv'
  BY <1>1, <1>2 DEF MatchInv, OnceInv
<1>4. KeptInv'
  BY <1>1, <1>2, JoinedSame DEF MatchInv, KeptInv
<1> QED BY <1>3, <1>4 DEF MatchInv

\* Every pair that matches is found or has still to be found, and none is found twice.
THEOREM MatchInvariant == Spec => []MatchInv
<1>1. JoinInv /\ JoinInv' /\ MatchInv /\ [Next]_vars => MatchInv'
  <2> SUFFICES ASSUME JoinInv, JoinInv', MatchInv, [Next]_vars PROVE MatchInv'
    OBVIOUS
  <2>1. ASSUME NEW task \in ToSet(pending_tasks),
               RepartitionTask(task) \/ StartHash(task) \/ StartNestedLoop(task)
        PROVE  MatchInv'
    BY <2>1, RepartitionMatches, StartHashMatches, StartNestedLoopMatches
  <2>2. ASSUME NEW a \in active,
               ProbeRow(a) \/ ScanInner(a) \/ NextOuterBatch(a) \/ EndPartition(a)
        PROVE  MatchInv'
    BY <2>2, ProbeRowMatches, ScanInnerMatches, NextOuterBatchMatches, EndPartitionMatches
  <2>3. ASSUME EndOfTasks PROVE MatchInv'
    BY <2>3, SameSpotsKeep DEF EndOfTasks, WaitsForTask
  <2>4. ASSUME UNCHANGED vars PROVE MatchInv'
    BY <2>4, SameSpotsKeep DEF vars
  <2>5. NextNone => UNCHANGED vars
    BY DEF NextNone
  <2> QED BY <2>1, <2>2, <2>3, <2>4, <2>5, BuildInMemoryMatches, StartPartitionedMatches,
             ProbeInMemoryMatches, EndInMemoryMatches, PopOutputMatches DEF Next
<1> QED BY <1>1, InitMatchInv, JoinInvariant, PTL DEF Spec

\* A sequence without repetition has an element at one index, or at none.
LEMMA OneIndex ==
  ASSUME NEW seq, IsInjective(seq), NEW e
  PROVE  /\ e \notin ToSet(seq) => {j \in DOMAIN seq : seq[j] = e} = {}
         /\ e \in ToSet(seq) => \E k : {j \in DOMAIN seq : seq[j] = e} = {k}
<1>1. ToSet(seq) = {seq[i] : i \in DOMAIN seq}
  BY DEF ToSet
<1>2. \A i, j \in DOMAIN seq : seq[i] = seq[j] => i = j
  BY DEF IsInjective
<1> QED BY <1>1, <1>2

\* The places of a pair, by where it is.
LEMMA PlacesFilled ==
  ASSUME JoinInv, MatchInv, NEW p
  PROVE  /\ p \in FoundPairs \/ Waits(p) => \E x : Places(p) = {x}
<1> DEFINE I == {j \in DOMAIN output : output[j] = p}
           J == {j \in DOMAIN output_buf : output_buf[j] = p}
           D == {<<"delivered", i>> : i \in I}
           F == {<<"found", i>> : i \in J}
           P == {<<"pending", i>> : i \in {j \in DOMAIN pending_tasks : InTask(p, pending_tasks[j])}}
           A == {<<"active", 1>> : a \in {b \in active : InActive(p, b)}}
           M == {<<"in memory", 1>> : b \in {c \in {BuildSide} : InBuildMap(p)}}
<1>1. Places(p) = D \cup F \cup P \cup A \cup M
  BY DEF Places
<1>2. /\ output \in Seq(PairSet) /\ IsInjective(output)
      /\ output_buf \in Seq(PairSet) /\ IsInjective(output_buf)
      /\ ToSet(output) \cap ToSet(output_buf) = {}
      /\ p \in FoundPairs => ~ Waits(p)
      /\ RowsApart(Open, temp)
      /\ pending_tasks \in Seq(TaskSet) /\ IsInjective(pending_tasks)
  BY DEF MatchInv, OnceInv, JoinInv, TypeInv, FilesInv
<1>3. /\ p \notin ToSet(output) => D = {}
      /\ p \in ToSet(output) => \E x : D = {x}
  <2>1. (p \notin ToSet(output) => I = {}) /\ (p \in ToSet(output) => \E k : I = {k})
    BY <1>2, OneIndex
  <2> HIDE DEF I
  <2>2. I = {} => D = {}
    OBVIOUS
  <2>3. \A k : I = {k} => D = {<<"delivered", k>>}
    OBVIOUS
  <2> QED BY <2>1, <2>2, <2>3
<1>4. /\ p \notin ToSet(output_buf) => F = {}
      /\ p \in ToSet(output_buf) => \E x : F = {x}
  <2>1. (p \notin ToSet(output_buf) => J = {}) /\ (p \in ToSet(output_buf) => \E k : J = {k})
    BY <1>2, OneIndex
  <2> HIDE DEF J
  <2>2. J = {} => F = {}
    OBVIOUS
  <2>3. \A k : J = {k} => F = {<<"found", k>>}
    OBVIOUS
  <2> QED BY <2>1, <2>2, <2>3
<1>5. \A t : InTask(p, t) <=> Spot(p, t, temp)
  BY DEF InTask, RowsIn, Spot
<1>6. ~ PendingSpot(p, pending_tasks, temp) => P = {}
  BY <1>5 DEF PendingSpot, ToSet
<1>7. ASSUME PendingSpot(p, pending_tasks, temp) PROVE \E x : P = {x}
  <2>1. ToSet(pending_tasks) = {pending_tasks[i] : i \in DOMAIN pending_tasks}
    BY DEF ToSet
  <2>2. PICK k \in DOMAIN pending_tasks : Spot(p, pending_tasks[k], temp)
    BY <1>7, <2>1 DEF PendingSpot
  <2>3. \A i \in DOMAIN pending_tasks : Spot(p, pending_tasks[i], temp) => i = k
    <3>1. \A i \in DOMAIN pending_tasks : pending_tasks[i] \in Open
      BY <2>1 DEF Open
    <3>2. \A i \in DOMAIN pending_tasks : pending_tasks[i] = pending_tasks[k] => i = k
      BY <1>2, <2>2 DEF IsInjective
    <3> QED BY <1>2, <2>2, <3>1, <3>2, OneSpot
  <2>4. P = {<<"pending", k>>}
    BY <1>5, <2>2, <2>3
  <2> QED BY <2>4
<1>8. \A a \in active : InActive(p, a) <=> ActiveSpot(p, a, temp)
  <2> SUFFICES ASSUME NEW a \in active PROVE InActive(p, a) <=> ActiveSpot(p, a, temp)
    OBVIOUS
  <2>1. /\ ToProbe(a) = RowsAfter(ProbeFile(a, temp), a.read) /\ a.side \in Sides
        /\ ToScan(a) = RowsAfter(BuildFile(a, temp), a.inner_read)
    BY ActiveFacts
  <2>2. RowsIn(a.task)[a.side] = BuildFile(a, temp)
    BY <2>1 DEF RowsIn, BuildFile
  <2> QED BY <2>1, <2>2 DEF InActive, ActiveSpot
<1>9. /\ (\E a \in active : ActiveSpot(p, a, temp)) => A = {<<"active", 1>>}
      /\ ~ (\E a \in active : ActiveSpot(p, a, temp)) => A = {}
  BY <1>8
<1>10. /\ InBuildMap(p) => M = {<<"in memory", 1>>}
       /\ ~ InBuildMap(p) => M = {}
  OBVIOUS
<1>11. /\ (\E a \in active : ActiveSpot(p, a, temp)) => ~ PendingSpot(p, pending_tasks, temp)
       /\ InBuildMap(p) => pending_tasks = << >> /\ active = {}
  BY <1>2, OneSpot
<1>12. pending_tasks = << >> => ~ PendingSpot(p, pending_tasks, temp)
  BY EmptyElements DEF PendingSpot
<1> HIDE DEF D, F, P, A, M
<1>13. CASE p \in FoundPairs
  <2>1. P = {} /\ A = {} /\ M = {}
    BY <1>2, <1>6, <1>9, <1>10, <1>13 DEF Waits
  <2> QED BY <1>1, <1>2, <1>3, <1>4, <1>13, <2>1 DEF FoundPairs
<1>14. CASE Waits(p)
  <2>1. D = {} /\ F = {}
    BY <1>2, <1>3, <1>4, <1>14 DEF FoundPairs
  <2> QED BY <1>1, <1>6, <1>7, <1>9, <1>10, <1>11, <1>12, <1>14, <2>1 DEF Waits
<1> QED BY <1>13, <1>14

\* Once the join has started every matching pair is in one place.
THEOREM MatchesInOnePlace == Spec => []EveryMatchInOnePlace
<1>1. JoinInv /\ MatchInv => EveryMatchInOnePlace
  <2> SUFFICES ASSUME JoinInv, MatchInv, state # "NotStarted", NEW p \in Abstract!Joined
               PROVE  Cardinality(Places(p)) = 1
    BY DEF EveryMatchInOnePlace
  <2>1. p \in FoundPairs \/ Waits(p)
    BY DEF MatchInv, KeptInv
  <2> QED BY <2>1, PlacesFilled, FS_Singleton
<1> QED BY <1>1, JoinInvariant, MatchInvariant, PTL

-----------------------------------------------------------------------------
(* Only pairs that match are found, or whose keys collide in a crowded partition *)

Owed == Abstract!Joined \cup Colliding

OnlyOwedFound == FoundPairs \subseteq Owed

LEMMA OwedSame == ASSUME UNCHANGED inputVars PROVE Colliding' = Colliding /\ Owed' = Owed
<1>1. Colliding' = Colliding
  BY DEF inputVars, Colliding, Crowded, SameHashes
<1> QED BY <1>1, JoinedSame DEF Owed

LEMMA CollidingPairs ==
  ASSUME JoinInv, NEW p \in PairSet, \A s \in Sides : RowOf(p, s) \in ToSet(Inputs[s]),
         p[1].key # p[2].key, Residual(p[1], p[2]), SameHashes(p[1], p[2]), Crowded(p[1])
  PROVE  p \in Colliding
<1>1. p[1] \in ToSet(left) /\ p[2] \in ToSet(right) /\ p = <<p[1], p[2]>>
  BY DEF Sides, RowOf, Inputs, PairSet
<1>2. p \in ToSet(left) \X ToSet(right)
  BY <1>1
<1> QED BY <1>2 DEF Colliding

\* A step that finds pairs of rows of the inputs.
LEMMA MatchesFound ==
  ASSUME JoinInv, OnlyOwedFound, UNCHANGED inputVars, output' = output,
         output_buf' \in Seq(PairSet),
         \A p \in ToSet(output_buf') : /\ Matches(p[1], p[2])
                                       /\ \A s \in Sides : RowOf(p, s) \in ToSet(Inputs[s])
  PROVE  OnlyOwedFound'
<1>1. ToSet(output_buf') \subseteq PairSet
  BY SequenceFacts
<1>2. ToSet(output_buf') \subseteq Owed
  BY <1>1, JoinedPairs DEF Owed
<1> QED BY <1>2, OwedSame DEF OnlyOwedFound, FoundPairs

LEMMA ProbeInMemoryRight ==
  ASSUME JoinInv, OnlyOwedFound, ProbeInMemory PROVE OnlyOwedFound'
<1> DEFINE rows == rest[Other(BuildSide)]
           h    == Head(rows)
<1>1. /\ UNCHANGED inputVars /\ output' = output /\ rows # << >>
      /\ output_buf' = Found(BuildSide, build_map, h)
  BY DEF ProbeInMemory
<1>2. BuildSide \in Sides /\ Other(BuildSide) \in Sides /\ Other(BuildSide) # BuildSide
      /\ \A s \in Sides : s = BuildSide \/ s = Other(BuildSide)
  BY BuildSideIsSide, SideFacts
<1>3. /\ rows \in Seq(InputRow) /\ ToSet(rows) \subseteq ToSet(Inputs[Other(BuildSide)])
      /\ IsInjective(rows)
      /\ build_map \in Seq(InputRow) /\ ToSet(build_map) \subseteq ToSet(Inputs[BuildSide])
  BY <1>2 DEF JoinInv, RestInv, RowsFrom
<1> HIDE DEF rows
<1>4. h \in InputRow /\ h \in ToSet(rows)
  BY <1>1, <1>3, HeadElements
<1> HIDE DEF h
<1>5. /\ output_buf' \in Seq(PairSet)
      /\ \A p \in PairSet : p \in ToSet(output_buf') <=>
           /\ RowOf(p, BuildSide) \in ToSet(build_map) /\ RowOf(p, Other(BuildSide)) = h
           /\ Matches(p[1], p[2])
  BY <1>1, <1>2, <1>3, <1>4, FoundElements
<1>6. ToSet(output_buf') \subseteq PairSet
  BY <1>5, SequenceFacts
<1>7. \A p \in ToSet(output_buf') : /\ Matches(p[1], p[2])
                                    /\ \A s \in Sides : RowOf(p, s) \in ToSet(Inputs[s])
  BY <1>2, <1>3, <1>4, <1>5, <1>6
<1> QED BY <1>1, <1>5, <1>7, MatchesFound

\* The rows of a pair that an active partition has still to find, and their keys.
LEMMA ActiveSpotRows ==
  ASSUME JoinInv, MatchInv, NEW a \in active, NEW p, ActiveSpot(p, a, temp)
  PROVE  /\ \A s \in Sides : RowOf(p, s) \in ToSet(Inputs[s])
         /\ \A d \in 0..a.task.depth :
              /\ hash[<<p[1].key, d>>] = hash[<<p[2].key, d>>]
              /\ \A q \in ToSet(BuildFile(a, temp)) :
                   hash[<<q.key, d>>] = hash[<<p[1].key, d>>]
<1>1. Spot(p, a.task, temp)
  BY OneSpot DEF MatchInv, OnceInv
<1>2. a.task \in Open /\ a.task \in TaskSet
  BY ActiveFacts
<1>3. \A s \in Sides : ToSet(temp[a.task.file[s]]) \subseteq ToSet(Inputs[s])
  BY <1>2, TaskRows DEF JoinInv
<1>4. Alike(Contents(a.task, temp), a.task.depth + 1, hash)
  BY <1>2 DEF JoinInv, FilesInv, FilesFilled
<1>5. \A s \in Sides : RowOf(p, s) \in ToSet(Contents(a.task, temp)[s])
  BY <1>1 DEF Spot, Contents
<1>6. ASSUME NEW d \in 0..a.task.depth
      PROVE  /\ hash[<<p[1].key, d>>] = hash[<<p[2].key, d>>]
             /\ \A q \in ToSet(BuildFile(a, temp)) :
                  hash[<<q.key, d>>] = hash[<<p[1].key, d>>]
  <2>1. "left" \in Sides /\ "right" \in Sides /\ RowOf(p, "left") = p[1] /\ RowOf(p, "right") = p[2]
    BY DEF Sides, RowOf
  <2>2. d \in 0..(a.task.depth + 1) - 1
    BY <1>2 DEF TaskSet
  <2>3. a.side \in Sides /\ Contents(a.task, temp)[a.side] = BuildFile(a, temp)
    BY ActiveFacts DEF Contents, BuildFile
  <2> QED BY <1>4, <1>5, <2>1, <2>2, <2>3 DEF Alike
<1> QED BY <1>1, <1>3, <1>6 DEF Spot

LEMMA ProbeRowRight ==
  ASSUME JoinInv, MatchInv, OnlyOwedFound, NEW a \in active, ProbeRow(a)
  PROVE  OnlyOwedFound'
<1> DEFINE after == RowsAfter(ProbeFile(a, temp), a.read)
           h     == Head(after)
<1>1. /\ a.kind = "hash" /\ UNCHANGED inputVars /\ output' = output
      /\ after # << >> /\ output_buf' = Found(a.side, a.rows, h)
  BY ActiveFacts DEF ProbeRow
<1>2. a.side \in Sides /\ a.rows \in Seq(InputRow)
  BY ActiveFacts
<1>3. h \in InputRow /\ h \in ToSet(after)
  <2>1. ProbeFile(a, temp) \in Seq(InputRow) /\ IsInjective(ProbeFile(a, temp))
        /\ a.read \in 0..Len(ProbeFile(a, temp))
    BY ActiveFacts DEF FilesRead
  <2> QED BY <1>1, <2>1, NextRow
<1> HIDE DEF h
<1>4. /\ output_buf' \in Seq(PairSet)
      /\ \A p \in PairSet : p \in ToSet(output_buf') <=>
           /\ RowOf(p, a.side) \in ToSet(a.rows) /\ RowOf(p, Other(a.side)) = h
           /\ Matches(p[1], p[2])
  BY <1>1, <1>2, <1>3, FoundElements
<1>5. ASSUME NEW p \in ToSet(output_buf')
      PROVE  Matches(p[1], p[2]) /\ \A s \in Sides : RowOf(p, s) \in ToSet(Inputs[s])
  <2>1. p \in PairSet
    BY <1>4, SequenceFacts
  <2>2. ActiveSpot(p, a, temp)
    BY <1>1, <1>3, <1>4, <2>1 DEF ActiveSpot
  <2> QED BY <1>4, <2>1, <2>2, ActiveSpotRows
<1> QED BY <1>1, <1>4, <1>5, MatchesFound

\* A row of an inner file that nested loops scan is in a crowded partition.
LEMMA NestedLoopCrowded ==
  ASSUME JoinInv, NEW a \in active, a.kind = "nested_loop", NEW row,
         \A q \in ToSet(BuildFile(a, temp)) : SameHashes(q, row)
  PROVE  Crowded(row)
<1> DEFINE build == BuildFile(a, temp)
           input == Inputs[a.side]
           alike == {other \in ToSet(input) : SameHashes(other, row)}
<1>1. /\ a.side \in Sides /\ a.task \in Open /\ Overfull(build)
      /\ build \in Seq(InputRow) /\ IsInjective(build)
  BY ActiveFacts DEF Underway, FilesRead, BuildFile
<1>2. ToSet(build) \subseteq ToSet(input)
  BY <1>1, TaskRows DEF JoinInv, BuildFile
<1>3. input \in {left, right}
  BY <1>1 DEF Sides, Inputs
<1>4. input \in Seq(InputRow) /\ IsInjective(input)
  BY <1>3 DEF JoinInv, TypeInv
<1>5. ToSet(build) \subseteq alike /\ alike \subseteq ToSet(input)
  BY <1>2
<1> HIDE DEF build, input, alike
<1>6. Cardinality(ToSet(build)) = Len(build) /\ IsFiniteSet(ToSet(input))
  BY <1>1, <1>4, ElementsCounted
<1>7. Len(build) <= Cardinality(alike) /\ Cardinality(alike) \in Nat /\ Len(build) \in Nat
  <2>1. IsFiniteSet(alike)
    BY <1>5, <1>6, FS_Subset
  <2>2. Cardinality(ToSet(build)) <= Cardinality(alike)
    BY <1>5, <2>1, FS_Subset
  <2> QED BY <1>1, <1>6, <2>1, <2>2, FS_CardinalityType, SequenceFacts
<1>8. Cardinality(alike) * RowCost > BuildBudget
  <2>1. RowCost \in Nat /\ BuildBudget \in Nat
    BY JoinAssumption
  <2>2. Len(build) * RowCost <= Cardinality(alike) * RowCost
    BY <1>7, <2>1
  <2> QED BY <1>1, <1>7, <2>1, <2>2 DEF Overfull
<1> QED BY <1>3, <1>8 DEF Crowded, alike

\* The nested loops do not look at the keys, and the hashes did not tell them apart at
\* any depth.
LEMMA ScanInnerRight ==
  ASSUME JoinInv, MatchInv, OnlyOwedFound, NEW a \in active, ScanInner(a)
  PROVE  OnlyOwedFound'
<1> DEFINE after == RowsAfter(BuildFile(a, temp), a.inner_read)
           h     == Head(after)
<1>1. /\ a.kind = "nested_loop" /\ UNCHANGED inputVars /\ output' = output
      /\ after # << >> /\ output_buf' = ScannedWith(a, h)
  BY ActiveFacts DEF ScanInner
<1>2. a.side \in Sides /\ a.rows \in Seq(InputRow) /\ Underway(a, temp) /\ a.task \in TaskSet
  BY ActiveFacts
<1>3. h \in InputRow /\ h \in ToSet(after)
  <2>1. BuildFile(a, temp) \in Seq(InputRow) /\ IsInjective(BuildFile(a, temp))
        /\ a.inner_read \in 0..Len(BuildFile(a, temp))
    BY ActiveFacts DEF FilesRead
  <2> QED BY <1>1, <2>1, NextRow
<1> HIDE DEF h
<1>4. /\ output_buf' \in Seq(PairSet)
      /\ \A p \in PairSet : p \in ToSet(output_buf') <=>
           /\ RowOf(p, Other(a.side)) \in ToSet(a.rows) /\ RowOf(p, a.side) = h
           /\ Residual(p[1], p[2])
  BY <1>1, <1>2, <1>3, ScannedElements
<1>5. ASSUME NEW p \in ToSet(output_buf') PROVE p \in Owed
  <2>1. p \in PairSet
    BY <1>4, SequenceFacts
  <2>2. Residual(p[1], p[2]) /\ ActiveSpot(p, a, temp)
    BY <1>1, <1>3, <1>4, <2>1 DEF ActiveSpot
  <2>3. 0..a.task.depth = 0..MaxDepth
    <3>1. a.task.depth = MaxDepth
      BY <1>1, <1>2, JoinAssumption DEF Underway, TaskSet
    <3> QED BY <3>1
  <2>4. /\ \A s \in Sides : RowOf(p, s) \in ToSet(Inputs[s])
        /\ SameHashes(p[1], p[2])
        /\ \A q \in ToSet(BuildFile(a, temp)) : SameHashes(q, p[1])
    <3> DEFINE build == BuildFile(a, temp)
    <3>1. \A s \in Sides : RowOf(p, s) \in ToSet(Inputs[s])
      BY <2>2, ActiveSpotRows
    <3>2. \A d \in 0..a.task.depth :
            /\ hash[<<p[1].key, d>>] = hash[<<p[2].key, d>>]
            /\ \A q \in ToSet(build) : hash[<<q.key, d>>] = hash[<<p[1].key, d>>]
      BY <2>2, ActiveSpotRows
    <3> HIDE DEF build
    <3>3. \A d \in 0..MaxDepth :
            /\ hash[<<p[1].key, d>>] = hash[<<p[2].key, d>>]
            /\ \A q \in ToSet(build) : hash[<<q.key, d>>] = hash[<<p[1].key, d>>]
      BY <2>3, <3>2
    <3>4. SameHashes(p[1], p[2]) /\ \A q \in ToSet(build) : SameHashes(q, p[1])
      BY <3>3 DEF SameHashes
    <3> QED BY <3>1, <3>4 DEF build
  <2>5. Crowded(p[1])
    BY <1>1, <2>4, NestedLoopCrowded
  <2>6. CASE p[1].key = p[2].key
    BY <2>1, <2>2, <2>4, <2>6, JoinedPairs DEF Owed, Matches
  <2>7. CASE p[1].key # p[2].key
    BY <2>1, <2>2, <2>4, <2>5, <2>7, CollidingPairs DEF Owed
  <2> QED BY <2>6, <2>7
<1> QED BY <1>1, <1>5, OwedSame DEF OnlyOwedFound, FoundPairs

LEMMA OtherStepsRight ==
  ASSUME JoinInv, OnlyOwedFound, UNCHANGED <<inputVars, output>>,
         output_buf' = output_buf \/ output_buf' = << >>
  PROVE  OnlyOwedFound'
<1>1. FoundPairs' \subseteq FoundPairs /\ UNCHANGED inputVars
  BY EmptyElements DEF FoundPairs
<1> QED BY <1>1, OwedSame DEF OnlyOwedFound

LEMMA PopOutputRight ==
  ASSUME JoinInv, MatchInv, OnlyOwedFound, PopOutput
  PROVE  OnlyOwedFound' /\ Abstract!JoinNext
<1>1. /\ UNCHANGED inputVars /\ output_buf # << >> /\ output' = Append(output, Last(output_buf))
      /\ output_buf' = Front(output_buf)
  BY DEF PopOutput
<1>2. output_buf \in Seq(PairSet) /\ output \in Seq(PairSet)
  BY DEF JoinInv, TypeInv
<1>3. PICK e : e = Last(output_buf)
  OBVIOUS
<1>4. e \in PairSet /\ ToSet(output_buf) = ToSet(output_buf') \cup {e}
  BY <1>1, <1>2, <1>3, PopElements
<1>5. ToSet(output') = ToSet(output) \cup {e}
  BY <1>1, <1>2, <1>3, <1>4, AppendElements
<1>6. OnlyOwedFound'
  BY <1>1, <1>4, <1>5, OwedSame DEF OnlyOwedFound, FoundPairs
<1>7. e \in Owed /\ e \notin ToSet(output)
  BY <1>4 DEF OnlyOwedFound, FoundPairs, MatchInv, OnceInv
<1>8. Abstract!Deliver(e)
  <2>1. UNCHANGED <<left, right, Colliding>>
    BY <1>1, OwedSame DEF inputVars
  <2>2. e \in Owed \ Abstract!ToSet(output)
    BY <1>7 DEF Abstract!ToSet, ToSet
  <2> QED BY <1>1, <1>3, <2>1, <2>2 DEF Abstract!Deliver, Owed
<1>9. Abstract!JoinNext
  BY <1>7, <1>8 DEF Abstract!JoinNext, Owed
<1> QED BY <1>6, <1>9

\* Whether a pair is found by its key or by nested loops, it matches or collides; and
\* a step delivers one such pair or none.
LEMMA StepRight ==
  ASSUME JoinInv, MatchInv, OnlyOwedFound, [Next]_vars
  PROVE  OnlyOwedFound' /\ [Abstract!JoinNext]_<<left, right, Colliding, output>>
<1>1. ASSUME NEW a \in active, ProbeRow(a) PROVE OnlyOwedFound' /\ UNCHANGED <<inputVars, output>>
  BY <1>1, ProbeRowRight DEF ProbeRow
<1>2. ASSUME NEW a \in active, ScanInner(a) PROVE OnlyOwedFound' /\ UNCHANGED <<inputVars, output>>
  BY <1>2, ScanInnerRight DEF ScanInner
<1>3. ASSUME ProbeInMemory PROVE OnlyOwedFound' /\ UNCHANGED <<inputVars, output>>
  BY <1>3, ProbeInMemoryRight DEF ProbeInMemory
<1>4. ASSUME UNCHANGED <<inputVars, output>>, output_buf' = output_buf
      PROVE  OnlyOwedFound' /\ UNCHANGED <<inputVars, output>>
  BY <1>4, OtherStepsRight
<1>5. ASSUME \/ BuildInMemory \/ StartPartitioned \/ EndInMemory \/ EndOfTasks \/ NextNone
             \/ \E task \in ToSet(pending_tasks) :
                  RepartitionTask(task) \/ StartHash(task) \/ StartNestedLoop(task)
             \/ \E a \in active : NextOuterBatch(a) \/ EndPartition(a)
             \/ UNCHANGED vars
      PROVE  UNCHANGED <<inputVars, output>> /\ output_buf' = output_buf
  BY <1>5 DEF BuildInMemory, StartPartitioned, PartitionInputs, EndInMemory, EndOfTasks, NextNone,
       RepartitionTask, StartHash, StartNestedLoop, NextOuterBatch, EndPartition, vars
<1>6. UNCHANGED <<inputVars, output>> => UNCHANGED <<left, right, Colliding, output>>
  BY OwedSame DEF inputVars
<1> QED BY <1>1, <1>2, <1>3, <1>4, <1>5, <1>6, PopOutputRight DEF Next

LEMMA InitRight == Init => OnlyOwedFound /\ Abstract!JoinInit
  BY EmptyElements DEF Init, OnlyOwedFound, FoundPairs, Abstract!JoinInit

LEMMA OnlyOwedIsFound == Spec => []OnlyOwedFound
<1>1. JoinInv /\ MatchInv /\ OnlyOwedFound /\ [Next]_vars => OnlyOwedFound'
  BY StepRight
<1> QED BY <1>1, InitRight, JoinInvariant, MatchInvariant, PTL DEF Spec

\* When the join has ended it has delivered every pair that matches, no pair twice, and
\* no other pair but those whose keys collide in a crowded partition.
THEOREM JoinResult ==
  Spec => [](state = "Done" =>
               /\ Abstract!AllDelivered /\ IsInjective(output)
               /\ ToSet(output) \subseteq Abstract!Joined \cup Colliding)
<1>1. ASSUME JoinInv, MatchInv, OnlyOwedFound, state = "Done"
      PROVE  /\ Abstract!AllDelivered /\ IsInjective(output)
             /\ ToSet(output) \subseteq Abstract!Joined \cup Colliding
  <2>1. /\ output_buf = << >> /\ pending_tasks = << >> /\ active = {} /\ build_map = << >>
    BY <1>1 DEF JoinInv, StageInv
  <2>2. \A p : ~ Waits(p)
    BY <2>1, WaitsInMemory, EmptyElements DEF InBuildMap
  <2>3. Abstract!Joined \subseteq ToSet(output)
    BY <1>1, <2>1, <2>2, EmptyElements DEF MatchInv, KeptInv, FoundPairs
  <2> QED BY <1>1, <2>3
          DEF MatchInv, OnceInv, OnlyOwedFound, Owed, FoundPairs,
              Abstract!AllDelivered, Abstract!ToSet, ToSet
<1> QED BY <1>1, JoinInvariant, MatchInvariant, OnlyOwedIsFound, PTL

\* Whichever way the inputs are joined, whatever the salted hashes, next delivers the
\* pairs that match and no pair twice, and no other pair but those whose keys collide
\* in a crowded partition.
THEOREM JoinImplementsStream == Spec => ImplementsJoinStream
<1>1. JoinInv /\ MatchInv /\ OnlyOwedFound /\ [Next]_vars =>
        [Abstract!JoinNext]_<<left, right, Colliding, output>>
  BY StepRight
<1> QED BY <1>1, InitRight, JoinInvariant, MatchInvariant, OnlyOwedIsFound,
           PTL DEF Spec, ImplementsJoinStream, Abstract!JoinSpec
-----------------------------------------------------------------------------
(***************************************************************************)
(* The join without an equality.  It has the inputs, the hints and the     *)
(* output of the hash join, and these of its own.                          *)
(***************************************************************************)

CONSTANTS Values, Predicate(_, _), RowBytes, OuterBatchBytes, NoFile

VARIABLES outer_rest, inner_file, outer_batch, inner_read

BlockJoin == INSTANCE BlockNestedLoopJoin

BlockRow == BlockJoin!InputRow
BlockPairs == BlockRow \X BlockRow

InnerOf(p) == IF BlockJoin!InnerIsLeft THEN p[1] ELSE p[2]
OuterOf(p) == IF BlockJoin!InnerIsLeft THEN p[2] ELSE p[1]

\* The pairs not tried yet: the outer row is still to come, or it is in the batch
\* and the inner row is still to be read for it.
Untried(p) ==
  \/ OuterOf(p) \in ToSet(outer_rest)
  \/ /\ OuterOf(p) \in ToSet(outer_batch)
     /\ InnerOf(p) \in ToSet(RowsAfter(BlockJoin!InnerInput, inner_read))

BlockFound == ToSet(output) \cup ToSet(output_buf)

BlockTypes ==
  /\ left \in Seq(BlockRow) /\ IsInjective(left)
  /\ right \in Seq(BlockRow) /\ IsInjective(right)
  /\ outer_rest \in Seq(BlockRow) /\ IsInjective(outer_rest)
  /\ outer_batch \in Seq(BlockRow) /\ IsInjective(outer_batch)
  /\ ToSet(outer_batch) \cap ToSet(outer_rest) = {}
  /\ ToSet(outer_batch) \cup ToSet(outer_rest) \subseteq ToSet(BlockJoin!OuterInput)
  /\ inner_read \in 0..Len(BlockJoin!InnerInput)
  /\ output_buf \in Seq(BlockPairs) /\ output \in Seq(BlockPairs)

BlockPhase ==
  /\ state \in {"NotStarted", "NeedOuterBatch", "ScanningInner", "Done"}
  /\ state \in {"NeedOuterBatch", "ScanningInner"} => inner_file = BlockJoin!InnerInput
  /\ state # "ScanningInner" => outer_batch = << >> /\ output_buf = << >>
  /\ state = "Done" => outer_rest = << >>

\* Every pair that matches is found or untried, never both, and is found once.
BlockMatches ==
  /\ IsInjective(output) /\ IsInjective(output_buf)
  /\ ToSet(output) \cap ToSet(output_buf) = {}
  /\ \A p \in BlockFound : p \in BlockJoin!Abstract!Joined /\ ~ Untried(p)
  /\ \A p \in BlockJoin!Abstract!Joined : p \in BlockFound \/ Untried(p)

BlockInv == BlockTypes /\ BlockPhase /\ BlockMatches

LEMMA BlockAmong == \A s, chosen : BlockJoin!Among(s, chosen) = Among(s, chosen)
  BY DEF BlockJoin!Among, Among

LEMMA BlockJoined ==
  \A p : p \in BlockJoin!Abstract!Joined <=>
    /\ p \in ToSet(left) \X ToSet(right)
    /\ Predicate(p[1], p[2])
  BY DEF BlockJoin!Abstract!Joined, BlockJoin!Abstract!ToSet, ToSet

\* The rows of a pair by their sides, and the pair of an inner and an outer row.
LEMMA BlockPairFacts ==
  /\ \A r, q \in BlockRow :
       /\ BlockJoin!Pair(r, q) \in BlockPairs
       /\ InnerOf(BlockJoin!Pair(r, q)) = r /\ OuterOf(BlockJoin!Pair(r, q)) = q
  /\ \A p \in BlockPairs :
       /\ InnerOf(p) \in BlockRow /\ OuterOf(p) \in BlockRow
       /\ p = BlockJoin!Pair(InnerOf(p), OuterOf(p))
<1>1. CASE BlockJoin!InnerIsLeft
  BY <1>1 DEF BlockJoin!Pair, InnerOf, OuterOf, BlockPairs
<1>2. CASE ~ BlockJoin!InnerIsLeft
  BY <1>2 DEF BlockJoin!Pair, InnerOf, OuterOf, BlockPairs
<1> QED BY <1>1, <1>2

\* A pair of input rows is one of an inner and an outer row.
LEMMA BlockSides ==
  ASSUME BlockTypes
  PROVE  /\ BlockJoin!InnerInput \in Seq(BlockRow) /\ IsInjective(BlockJoin!InnerInput)
         /\ BlockJoin!OuterInput \in Seq(BlockRow) /\ IsInjective(BlockJoin!OuterInput)
         /\ \A p \in BlockPairs : p \in ToSet(left) \X ToSet(right) <=>
              /\ InnerOf(p) \in ToSet(BlockJoin!InnerInput)
              /\ OuterOf(p) \in ToSet(BlockJoin!OuterInput)
         /\ BlockJoin!Abstract!Joined \subseteq BlockPairs
<1>1. ToSet(left) \X ToSet(right) \subseteq BlockPairs
  BY SequenceFacts DEF BlockTypes, BlockPairs
<1>2. BlockJoin!Abstract!Joined \subseteq BlockPairs
  BY <1>1, BlockJoined
<1>3. CASE BlockJoin!InnerIsLeft
  BY <1>2, <1>3 DEF BlockTypes, BlockJoin!InnerInput, BlockJoin!OuterInput, InnerOf, OuterOf, BlockPairs
<1>4. CASE ~ BlockJoin!InnerIsLeft
  BY <1>2, <1>4 DEF BlockTypes, BlockJoin!InnerInput, BlockJoin!OuterInput, InnerOf, OuterOf, BlockPairs
<1> QED BY <1>3, <1>4

\* An inner row finds the pairs with the rows of the batch that satisfy the
\* predicates, each once.
LEMMA BlockFoundElements ==
  ASSUME BlockTypes, NEW row \in BlockRow
  PROVE  /\ BlockJoin!Found(row) \in Seq(BlockPairs)
         /\ \A p \in BlockPairs : p \in ToSet(BlockJoin!Found(row)) <=>
              /\ OuterOf(p) \in ToSet(outer_batch) /\ InnerOf(p) = row
              /\ Predicate(p[1], p[2])
         /\ IsInjective(BlockJoin!Found(row))
<1> DEFINE hits == {r \in BlockRow : LET p == BlockJoin!Pair(row, r) IN Predicate(p[1], p[2])}
           back == Reverse(outer_batch)
           some == Among(back, hits)
           n    == Len(some)
           ps   == [i \in 1..n |-> BlockJoin!Pair(row, some[i])]
<1>1. BlockJoin!Found(row) = ps
  <2>1. BlockJoin!Reverse(outer_batch) = back
    BY DEF BlockJoin!Reverse, Reverse
  <2> QED BY <2>1, BlockAmong DEF BlockJoin!Found, BlockJoin!PairsWith, BlockRow
<1>2. back \in Seq(BlockRow) /\ ToSet(back) = ToSet(outer_batch) /\ IsInjective(back)
  BY ReverseElements DEF BlockTypes
<1>3. some \in Seq(BlockRow) /\ ToSet(some) = ToSet(outer_batch) \cap hits /\ IsInjective(some)
  <2> HIDE DEF hits, back
  <2> QED BY <1>2, AmongElements
<1> HIDE DEF some
<1>4. n \in Nat /\ DOMAIN some = 1..n /\ (\A i \in 1..n : some[i] \in BlockRow)
      /\ ToSet(some) = {some[i] : i \in 1..n}
  BY <1>3, SequenceFacts
<1> HIDE DEF n
<1>5. \A i \in 1..n : /\ ps[i] = BlockJoin!Pair(row, some[i]) /\ ps[i] \in BlockPairs
                      /\ InnerOf(ps[i]) = row /\ OuterOf(ps[i]) = some[i]
  BY <1>4, BlockPairFacts
<1>6. ps = [i \in 1..n |-> ps[i]]
  OBVIOUS
<1> HIDE DEF ps
<1>7. ps \in [1..n -> BlockPairs]
  BY <1>5, <1>6
<1>8. ps \in Seq(BlockPairs) /\ DOMAIN ps = 1..n /\ ToSet(ps) = {ps[i] : i \in 1..n}
  BY <1>4, <1>7, FunctionIsSequence, SequenceFacts
<1>9. ASSUME NEW p \in BlockPairs, InnerOf(p) = row
      PROVE  OuterOf(p) \in hits <=> Predicate(p[1], p[2])
  <2>1. p = BlockJoin!Pair(row, OuterOf(p)) /\ OuterOf(p) \in BlockRow
    BY <1>9, BlockPairFacts
  <2> QED BY <2>1
<1>10. ASSUME NEW p \in BlockPairs
       PROVE  p \in ToSet(ps) <=> OuterOf(p) \in ToSet(some) /\ InnerOf(p) = row
  <2>1. ASSUME NEW i \in 1..n, OuterOf(p) = some[i], InnerOf(p) = row PROVE p = ps[i]
    BY <1>5, <2>1, BlockPairFacts
  <2> QED BY <1>4, <1>5, <1>8, <2>1
<1>11. IsInjective(ps)
  <2>1. ASSUME NEW i \in 1..n, NEW j \in 1..n, ps[i] = ps[j] PROVE i = j
    <3>1. some[i] = some[j]
      BY <1>5, <2>1
    <3> QED BY <1>3, <1>4, <3>1 DEF IsInjective
  <2> QED BY <1>8, <2>1 DEF IsInjective
<1> HIDE DEF hits
<1> QED BY <1>1, <1>3, <1>8, <1>9, <1>10, <1>11

\* A batch has a row at least and no more than there are.
LEMMA BlockBatchSize ==
  ASSUME outer_rest \in Seq(BlockRow), outer_rest # << >>
  PROVE  BlockJoin!BatchSize \in 1..Len(outer_rest)
<1> DEFINE Reached(n) == BlockJoin!BytesOf(SubSeq(outer_rest, 1, n)) >= OuterBatchBytes
           T == {n \in 1..Len(outer_rest) : Reached(n)} \cup {Len(outer_rest)}
<1>1. BlockJoin!BatchSize = BlockJoin!Min(T)
  BY DEF BlockJoin!BatchSize
<1>2. Len(outer_rest) \in 1..Len(outer_rest)
  BY SequenceFacts
<1>3. T \in SUBSET (1..Len(outer_rest)) /\ T # {}
  <2> HIDE DEF Reached
  <2> QED BY <1>2
<1> HIDE DEF T
<1>4. T \in SUBSET Nat
  BY <1>3, SequenceFacts
<1>5. PICK m \in T : \A k \in T : m <= k
  BY <1>3, <1>4, LeastNatural
<1>6. BlockJoin!Min(T) \in T
  BY <1>5 DEF BlockJoin!Min
<1> QED BY <1>1, <1>3, <1>6

LEMMA BlockInputIsRows ==
  ASSUME NEW input \in BlockJoin!InputRows
  PROVE  input \in Seq(BlockRow) /\ IsInjective(input)
<1>1. PICK n \in 0..MaxInput : \E values \in [1..n -> Values] :
        input = [i \in 1..n |-> [value |-> values[i], id |-> i]]
  BY SMTT(20) DEF BlockJoin!InputRows
<1>2. PICK values \in [1..n -> Values] :
        input = [i \in 1..n |-> [value |-> values[i], id |-> i]]
  BY <1>1
<1>3. n \in Nat /\ n <= MaxInput /\ MaxInput \in Nat
  BY <1>1, JoinAssumption
<1>4. \A i \in 1..n : i \in 1..MaxInput
  BY <1>3
<1>5. \A i \in 1..n : /\ input[i] = [value |-> values[i], id |-> i]
                      /\ input[i] \in BlockRow
  BY <1>2, <1>4 DEF BlockRow, BlockJoin!InputRow
<1>6. input \in [1..n -> BlockRow]
  BY <1>2, <1>5
<1>7. input \in Seq(BlockRow) /\ DOMAIN input = 1..n
  BY <1>3, <1>6, FunctionIsSequence
<1>8. \A i \in 1..n : input[i].id = i
  BY <1>2
<1>9. IsInjective(input)
  BY <1>7, <1>8 DEF IsInjective
<1> QED BY <1>7, <1>9

\* Before the first batch no pair was tried.
LEMMA InitBlockInv == BlockJoin!Init => BlockInv /\ BlockJoin!Abstract!JoinInit
<1> SUFFICES ASSUME BlockJoin!Init PROVE BlockInv /\ BlockJoin!Abstract!JoinInit
  OBVIOUS
<1>1. /\ left \in Seq(BlockRow) /\ IsInjective(left)
      /\ right \in Seq(BlockRow) /\ IsInjective(right)
  BY BlockInputIsRows DEF BlockJoin!Init
<1>2. /\ state = "NotStarted" /\ outer_rest = BlockJoin!OuterInput /\ outer_batch = << >>
      /\ inner_read = 0 /\ output_buf = << >> /\ output = << >>
  BY DEF BlockJoin!Init
<1>3. /\ BlockJoin!InnerInput \in Seq(BlockRow)
      /\ BlockJoin!OuterInput \in Seq(BlockRow) /\ IsInjective(BlockJoin!OuterInput)
  BY <1>1 DEF BlockJoin!InnerInput, BlockJoin!OuterInput
<1>4. BlockTypes
  <2>1. 0 \in 0..Len(BlockJoin!InnerInput)
    BY <1>3, SequenceFacts
  <2> QED BY <1>1, <1>2, <1>3, <2>1, EmptyElements DEF BlockTypes
<1>5. BlockPhase
  BY <1>2 DEF BlockPhase
<1>6. BlockMatches
  <2>1. BlockFound = {}
    BY <1>2, EmptyElements DEF BlockFound
  <2>2. \A p \in BlockJoin!Abstract!Joined : Untried(p)
    BY <1>2, <1>4, BlockSides, BlockJoined DEF Untried
  <2> QED BY <1>2, <2>1, <2>2, EmptyElements DEF BlockMatches
<1> QED BY <1>2, <1>4, <1>5, <1>6 DEF BlockInv, BlockJoin!Abstract!JoinInit

LEMMA BlockInputsSame ==
  ASSUME UNCHANGED BlockJoin!inputVars
  PROVE  /\ left' = left /\ right' = right
         /\ BlockJoin!InnerInput' = BlockJoin!InnerInput
         /\ BlockJoin!OuterInput' = BlockJoin!OuterInput
         /\ BlockJoin!Abstract!Joined' = BlockJoin!Abstract!Joined
         /\ \A p : InnerOf(p)' = InnerOf(p) /\ OuterOf(p)' = OuterOf(p)
  BY DEF BlockJoin!inputVars, BlockJoin!InnerInput, BlockJoin!OuterInput, BlockJoin!InnerIsLeft,
         BlockJoin!Abstract!Joined, BlockJoin!Abstract!ToSet, InnerOf, OuterOf

\* A step that finds and delivers nothing keeps the matches when no pair that
\* matches becomes tried or untried.
LEMMA BlockMatchesKept ==
  ASSUME BlockMatches, UNCHANGED BlockJoin!inputVars, UNCHANGED <<output, output_buf>>,
         \A p \in BlockJoin!Abstract!Joined : Untried(p)' <=> Untried(p)
  PROVE  BlockMatches'
  BY BlockInputsSame DEF BlockMatches, BlockFound

LEMMA BlockSpillKeeps == ASSUME BlockInv, BlockJoin!SpillInner PROVE BlockInv'
<1>1. /\ UNCHANGED BlockJoin!inputVars
      /\ UNCHANGED <<outer_rest, outer_batch, inner_read, output_buf, output>>
      /\ state = "NotStarted" /\ state' = "NeedOuterBatch"
      /\ inner_file' = BlockJoin!InnerInput
  BY DEF BlockJoin!SpillInner
<1>2. BlockTypes'
  BY <1>1, BlockInputsSame DEF BlockInv, BlockTypes
<1>3. BlockPhase'
  BY <1>1, BlockInputsSame DEF BlockInv, BlockPhase
<1>4. \A p \in BlockJoin!Abstract!Joined : Untried(p)' <=> Untried(p)
  BY <1>1, BlockInputsSame DEF Untried
<1>5. BlockMatches'
  BY <1>1, <1>4, BlockMatchesKept DEF BlockInv
<1> QED BY <1>2, <1>3, <1>5 DEF BlockInv

\* A batch moves rows from those to come to those to be scanned for.
LEMMA BlockFillKeeps == ASSUME BlockInv, BlockJoin!FillOuterBatch PROVE BlockInv'
<1> DEFINE n == BlockJoin!BatchSize
<1>1. /\ UNCHANGED BlockJoin!inputVars /\ UNCHANGED <<inner_file, output_buf, output>>
      /\ state = "NeedOuterBatch" /\ state' = "ScanningInner" /\ outer_rest # << >>
      /\ outer_batch' = SubSeq(outer_rest, 1, n)
      /\ outer_rest' = SubSeq(outer_rest, n + 1, Len(outer_rest))
      /\ inner_read' = 0
  BY DEF BlockJoin!FillOuterBatch
<1>2. outer_rest \in Seq(BlockRow) /\ IsInjective(outer_rest)
  BY DEF BlockInv, BlockTypes
<1>3. n \in 0..Len(outer_rest)
  <2>1. n \in 1..Len(outer_rest) /\ Len(outer_rest) \in Nat
    BY <1>1, <1>2, BlockBatchSize, SequenceFacts
  <2> QED BY <2>1
<1> HIDE DEF n
<1>4. /\ outer_batch' \in Seq(BlockRow) /\ IsInjective(outer_batch')
      /\ outer_rest' \in Seq(BlockRow) /\ IsInjective(outer_rest')
      /\ ToSet(outer_batch') \cap ToSet(outer_rest') = {}
      /\ ToSet(outer_rest) = ToSet(outer_batch') \cup ToSet(outer_rest')
  BY <1>1, <1>2, <1>3, SplitElements
<1>5. BlockJoin!InnerInput \in Seq(BlockRow) /\ 0 \in 0..Len(BlockJoin!InnerInput)
  BY BlockSides, SequenceFacts DEF BlockInv
<1>6. outer_batch = << >> /\ ToSet(outer_batch) = {}
  BY <1>1, EmptyElements DEF BlockInv, BlockPhase
<1>7. BlockTypes'
  BY <1>1, <1>4, <1>5, BlockInputsSame DEF BlockInv, BlockTypes
<1>8. BlockPhase'
  BY <1>1, BlockInputsSame DEF BlockInv, BlockPhase
<1>9. ToSet(RowsAfter(BlockJoin!InnerInput, inner_read)') = ToSet(BlockJoin!InnerInput)
  <2>1. RowsAfter(BlockJoin!InnerInput, inner_read)' = RowsAfter(BlockJoin!InnerInput, 0)
    BY <1>1, BlockInputsSame DEF RowsAfter
  <2> QED BY <1>5, <2>1, AfterElements
<1>10. ASSUME NEW p \in BlockJoin!Abstract!Joined PROVE Untried(p)' <=> Untried(p)
  <2>1. InnerOf(p) \in ToSet(BlockJoin!InnerInput)
    BY BlockSides, BlockJoined DEF BlockInv
  <2> QED BY <1>1, <1>4, <1>6, <1>9, <2>1, BlockInputsSame DEF Untried
<1>11. BlockMatches'
  BY <1>1, <1>10, BlockMatchesKept DEF BlockInv
<1> QED BY <1>7, <1>8, <1>11 DEF BlockInv

LEMMA BlockEndOfOuterKeeps == ASSUME BlockInv, BlockJoin!EndOfOuter PROVE BlockInv'
<1>1. /\ UNCHANGED BlockJoin!inputVars
      /\ UNCHANGED <<outer_rest, inner_read, output_buf, output>>
      /\ state = "NeedOuterBatch" /\ state' = "Done"
      /\ outer_rest = << >> /\ outer_batch' = << >>
  BY DEF BlockJoin!EndOfOuter
<1>2. outer_batch = << >> /\ output_buf = << >>
  BY <1>1 DEF BlockInv, BlockPhase
<1>3. BlockTypes'
  BY <1>1, <1>2, BlockInputsSame DEF BlockInv, BlockTypes
<1>4. BlockPhase'
  BY <1>1, <1>2, BlockInputsSame DEF BlockPhase
<1>5. \A p \in BlockJoin!Abstract!Joined : Untried(p)' <=> Untried(p)
  BY <1>1, <1>2, BlockInputsSame DEF Untried
<1>6. BlockMatches'
  BY <1>1, <1>5, BlockMatchesKept DEF BlockInv
<1> QED BY <1>3, <1>4, <1>6 DEF BlockInv

\* When the file is read, the pairs with the rows of the batch are tried.
LEMMA BlockEndOfInnerKeeps == ASSUME BlockInv, BlockJoin!EndOfInner PROVE BlockInv'
<1>1. /\ UNCHANGED BlockJoin!inputVars
      /\ UNCHANGED <<outer_rest, inner_file, inner_read, output_buf, output>>
      /\ state = "ScanningInner" /\ state' = "NeedOuterBatch"
      /\ output_buf = << >> /\ outer_batch' = << >> /\ inner_read = Len(inner_file)
  BY DEF BlockJoin!EndOfInner
<1>2. inner_file = BlockJoin!InnerInput
  BY <1>1 DEF BlockInv, BlockPhase
<1>3. BlockTypes'
  BY <1>1, EmptyElements, BlockInputsSame DEF BlockInv, BlockTypes
<1>4. BlockPhase'
  BY <1>1, <1>2, BlockInputsSame DEF BlockPhase
<1>5. ToSet(RowsAfter(BlockJoin!InnerInput, inner_read)) = {}
  <2>1. BlockJoin!InnerInput \in Seq(BlockRow) /\ inner_read \in 0..Len(BlockJoin!InnerInput)
    BY BlockSides DEF BlockInv, BlockTypes
  <2>2. RowsAfter(BlockJoin!InnerInput, inner_read) = << >>
    BY <1>1, <1>2, <2>1, AfterElements
  <2> QED BY <2>2, EmptyElements
<1>6. \A p \in BlockJoin!Abstract!Joined : Untried(p)' <=> Untried(p)
  BY <1>1, <1>5, EmptyElements, BlockInputsSame DEF Untried
<1>7. BlockMatches'
  BY <1>1, <1>6, BlockMatchesKept DEF BlockInv
<1> QED BY <1>3, <1>4, <1>7 DEF BlockInv

\* The pairs that an inner row finds are those that cease to be untried and match.
LEMMA BlockScanKeeps == ASSUME BlockInv, BlockJoin!ScanInner PROVE BlockInv'
<1> DEFINE inner == BlockJoin!InnerInput
           row   == inner[inner_read + 1]
<1>1. /\ UNCHANGED BlockJoin!inputVars
      /\ UNCHANGED <<state, outer_rest, inner_file, outer_batch, output>>
      /\ state = "ScanningInner" /\ output_buf = << >>
      /\ inner_read < Len(inner_file) /\ inner_read' = inner_read + 1
      /\ output_buf' = BlockJoin!Found(inner_file[inner_read + 1])
  BY DEF BlockJoin!ScanInner
<1>2. inner_file = inner
  BY <1>1 DEF BlockInv, BlockPhase
<1>3. /\ inner \in Seq(BlockRow) /\ IsInjective(inner) /\ inner_read \in 0..Len(inner)
      /\ Len(inner) \in Nat
  BY BlockSides, SequenceFacts DEF BlockInv, BlockTypes
<1> HIDE DEF inner
<1>4. inner_read < Len(inner) /\ inner_read + 1 \in 1..Len(inner)
  BY <1>1, <1>2, <1>3
<1>5. row \in BlockRow
  BY <1>3, <1>4, SequenceFacts
<1>6. /\ inner_read + 1 \in 0..Len(inner)
      /\ ToSet(RowsAfter(inner, inner_read)) = {row} \cup ToSet(RowsAfter(inner, inner_read + 1))
      /\ row \notin ToSet(RowsAfter(inner, inner_read + 1))
  BY <1>3, <1>4, AfterElements
<1> HIDE DEF row
<1>7. output_buf' = BlockJoin!Found(row)
  BY <1>1, <1>2 DEF row
<1>8. /\ output_buf' \in Seq(BlockPairs) /\ IsInjective(output_buf')
      /\ \A p \in BlockPairs : p \in ToSet(output_buf') <=>
           /\ OuterOf(p) \in ToSet(outer_batch) /\ InnerOf(p) = row
           /\ Predicate(p[1], p[2])
  BY <1>5, <1>7, BlockFoundElements DEF BlockInv
<1>9. inner' = inner
  BY <1>1, BlockInputsSame DEF inner
<1>10. BlockTypes'
  BY <1>1, <1>6, <1>8, <1>9, BlockInputsSame DEF BlockInv, BlockTypes, inner
<1>11. BlockPhase'
  BY <1>1, <1>2, <1>9 DEF BlockInv, BlockPhase, inner
<1>12. ASSUME NEW p
       PROVE  Untried(p)' <=>
                Untried(p) /\ ~ (OuterOf(p) \in ToSet(outer_batch) /\ InnerOf(p) = row)
  <2>1. /\ Untried(p) <=> \/ OuterOf(p) \in ToSet(outer_rest)
                          \/ /\ OuterOf(p) \in ToSet(outer_batch)
                             /\ InnerOf(p) \in ToSet(RowsAfter(inner, inner_read))
        /\ Untried(p)' <=> \/ OuterOf(p) \in ToSet(outer_rest)
                           \/ /\ OuterOf(p) \in ToSet(outer_batch)
                              /\ InnerOf(p) \in ToSet(RowsAfter(inner, inner_read + 1))
    BY <1>1, <1>9, BlockInputsSame DEF Untried, RowsAfter, inner
  <2>2. ToSet(outer_batch) \cap ToSet(outer_rest) = {}
    BY DEF BlockInv, BlockTypes
  <2> QED BY <1>6, <2>1, <2>2
<1>13. \A p \in ToSet(output_buf') :
         /\ p \in BlockPairs /\ OuterOf(p) \in ToSet(outer_batch)
         /\ InnerOf(p) = row /\ Predicate(p[1], p[2])
  BY <1>8, SequenceFacts
<1>14. \A p \in ToSet(output_buf') : p \in BlockJoin!Abstract!Joined /\ Untried(p)
  <2>1. \A p \in ToSet(output_buf') :
          InnerOf(p) \in ToSet(inner) /\ OuterOf(p) \in ToSet(BlockJoin!OuterInput)
    <3>1. row \in ToSet(inner)
      <4>1. ToSet(inner) = {inner[i] : i \in 1..Len(inner)}
        BY <1>3, SequenceFacts
      <4> QED BY <1>4, <4>1 DEF row
    <3>2. ToSet(outer_batch) \subseteq ToSet(BlockJoin!OuterInput)
      BY DEF BlockInv, BlockTypes
    <3> QED BY <1>13, <3>1, <3>2
  <2>2. \A p \in ToSet(output_buf') : p \in ToSet(left) \X ToSet(right)
    BY <1>13, <2>1, BlockSides DEF BlockInv, inner
  <2> QED BY <1>6, <1>9, <1>13, <2>2, BlockJoined DEF Untried, inner
<1>15. /\ ToSet(output_buf) = {} /\ BlockFound = ToSet(output)
       /\ BlockFound' = ToSet(output) \cup ToSet(output_buf')
  BY <1>1, EmptyElements DEF BlockFound
<1>16. BlockMatches'
  <2>1. IsInjective(output') /\ IsInjective(output_buf')
    BY <1>1, <1>8 DEF BlockInv, BlockMatches
  <2>2. ToSet(output') \cap ToSet(output_buf') = {}
    BY <1>1, <1>14, <1>15 DEF BlockInv, BlockMatches
  <2>3. \A p \in BlockFound' : p \in BlockJoin!Abstract!Joined /\ ~ Untried(p)'
    BY <1>12, <1>13, <1>14, <1>15 DEF BlockInv, BlockMatches
  <2>4. \A p \in BlockJoin!Abstract!Joined : p \in BlockFound' \/ Untried(p)'
    <3>1. \A p \in BlockJoin!Abstract!Joined : p \in BlockPairs /\ Predicate(p[1], p[2])
      BY BlockSides, BlockJoined DEF BlockInv
    <3> QED BY <1>8, <1>12, <1>15, <3>1 DEF BlockInv, BlockMatches
  <2> QED BY <1>1, <2>1, <2>2, <2>3, <2>4, BlockInputsSame DEF BlockMatches
<1> QED BY <1>10, <1>11, <1>16 DEF BlockInv

\* A pair is delivered that matches and was not delivered.
LEMMA BlockPopDelivers ==
  ASSUME BlockInv, BlockJoin!PopOutput
  PROVE  BlockInv' /\ BlockJoin!Abstract!JoinNext
<1>1. /\ UNCHANGED BlockJoin!inputVars
      /\ UNCHANGED <<state, outer_rest, inner_file, outer_batch, inner_read>>
      /\ state = "ScanningInner" /\ output_buf # << >>
      /\ output' = Append(output, Last(output_buf)) /\ output_buf' = Front(output_buf)
  BY DEF BlockJoin!PopOutput, BlockJoin!Last, Last, BlockJoin!Front, Front
<1>2. output_buf \in Seq(BlockPairs) /\ output \in Seq(BlockPairs)
  BY DEF BlockInv, BlockTypes
<1>3. PICK e : e = Last(output_buf)
  OBVIOUS
<1>4. /\ e \in BlockPairs /\ output_buf' \in Seq(BlockPairs)
      /\ ToSet(output_buf) = ToSet(output_buf') \cup {e}
      /\ IsInjective(output_buf) => IsInjective(output_buf') /\ e \notin ToSet(output_buf')
  BY <1>1, <1>2, <1>3, PopElements
<1>5. /\ output' \in Seq(BlockPairs) /\ ToSet(output') = ToSet(output) \cup {e}
      /\ IsInjective(output') <=> IsInjective(output) /\ e \notin ToSet(output)
  BY <1>1, <1>2, <1>3, <1>4, AppendElements
<1>6. BlockTypes'
  BY <1>1, <1>4, <1>5, BlockInputsSame DEF BlockInv, BlockTypes
<1>7. BlockPhase'
  BY <1>1, BlockInputsSame DEF BlockInv, BlockPhase
<1>8. e \in BlockJoin!Abstract!Joined /\ e \notin ToSet(output)
  BY <1>4 DEF BlockInv, BlockMatches, BlockFound
<1>9. BlockMatches'
  <2>1. BlockFound' = BlockFound
    BY <1>4, <1>5 DEF BlockFound
  <2>2. \A p : Untried(p)' <=> Untried(p)
    BY <1>1, BlockInputsSame DEF Untried
  <2>3. /\ IsInjective(output') /\ IsInjective(output_buf')
        /\ ToSet(output') \cap ToSet(output_buf') = {}
    BY <1>4, <1>5, <1>8 DEF BlockInv, BlockMatches
  <2> QED BY <1>1, <2>1, <2>2, <2>3, BlockInputsSame DEF BlockInv, BlockMatches
<1>10. BlockJoin!Abstract!Deliver(e)
  BY <1>1, <1>3, <1>8
     DEF BlockJoin!Abstract!Deliver, BlockJoin!Abstract!ToSet, ToSet, BlockJoin!inputVars
<1> QED BY <1>6, <1>7, <1>8, <1>9, <1>10 DEF BlockInv, BlockJoin!Abstract!JoinNext

LEMMA BlockStep ==
  ASSUME BlockInv, [BlockJoin!Next]_BlockJoin!vars
  PROVE  BlockInv' /\ [BlockJoin!Abstract!JoinNext]_<<left, right, {}, output>>
<1>1. CASE BlockJoin!SpillInner
  BY <1>1, BlockSpillKeeps DEF BlockJoin!SpillInner, BlockJoin!inputVars
<1>2. CASE BlockJoin!FillOuterBatch
  BY <1>2, BlockFillKeeps DEF BlockJoin!FillOuterBatch, BlockJoin!inputVars
<1>3. CASE BlockJoin!EndOfOuter
  BY <1>3, BlockEndOfOuterKeeps DEF BlockJoin!EndOfOuter, BlockJoin!inputVars
<1>4. CASE BlockJoin!PopOutput
  BY <1>4, BlockPopDelivers
<1>5. CASE BlockJoin!ScanInner
  BY <1>5, BlockScanKeeps DEF BlockJoin!ScanInner, BlockJoin!inputVars
<1>6. CASE BlockJoin!EndOfInner
  BY <1>6, BlockEndOfInnerKeeps DEF BlockJoin!EndOfInner, BlockJoin!inputVars
<1>7. CASE BlockJoin!NextNone \/ UNCHANGED BlockJoin!vars
  <2>1. /\ UNCHANGED BlockJoin!inputVars
        /\ UNCHANGED <<state, outer_rest, inner_file, outer_batch, inner_read, output_buf, output>>
    BY <1>7 DEF BlockJoin!NextNone, BlockJoin!vars
  <2>2. BlockTypes'
    BY <2>1, BlockInputsSame DEF BlockInv, BlockTypes
  <2>3. BlockPhase'
    BY <2>1, BlockInputsSame DEF BlockInv, BlockPhase
  <2>4. \A p \in BlockJoin!Abstract!Joined : Untried(p)' <=> Untried(p)
    BY <2>1, BlockInputsSame DEF Untried
  <2>5. BlockMatches'
    BY <2>1, <2>4, BlockMatchesKept DEF BlockInv
  <2> QED BY <2>1, <2>2, <2>3, <2>5 DEF BlockInv, BlockJoin!inputVars
<1> QED BY <1>1, <1>2, <1>3, <1>4, <1>5, <1>6, <1>7 DEF BlockJoin!Next

\* Whatever batches the outer rows come in, every pair that matches is found or still
\* to be tried, and none is found twice.
THEOREM BlockJoinInvariant == BlockJoin!Spec => []BlockInv
<1>1. BlockInv /\ [BlockJoin!Next]_BlockJoin!vars => BlockInv'
  BY BlockStep
<1> QED BY <1>1, InitBlockInv, PTL DEF BlockJoin!Spec

\* The join without an equality has delivered every pair that matches when it ends.
THEOREM BlockJoinDeliversAll ==
  BlockJoin!Spec => [](state = "Done" => BlockJoin!Abstract!AllDelivered)
<1>1. BlockInv => (state = "Done" => BlockJoin!Abstract!AllDelivered)
  <2> SUFFICES ASSUME BlockInv, state = "Done"
               PROVE  BlockJoin!Abstract!Joined \subseteq ToSet(output)
    BY DEF BlockJoin!Abstract!AllDelivered, BlockJoin!Abstract!ToSet, ToSet
  <2>1. /\ ToSet(outer_rest) = {} /\ ToSet(outer_batch) = {} /\ ToSet(output_buf) = {}
    BY EmptyElements DEF BlockInv, BlockPhase
  <2>2. \A p : ~ Untried(p)
    BY <2>1 DEF Untried
  <2> QED BY <2>1, <2>2 DEF BlockInv, BlockMatches, BlockFound
<1> QED BY <1>1, BlockJoinInvariant, PTL

\* The join without an equality delivers the pairs that match and no pair twice.
THEOREM BlockJoinImplementsStream == BlockJoin!Spec => BlockJoin!ImplementsJoinStream
<1>1. BlockInv /\ [BlockJoin!Next]_BlockJoin!vars =>
        [BlockJoin!Abstract!JoinNext]_<<left, right, {}, output>>
  BY BlockStep
<1> QED BY <1>1, InitBlockInv, BlockJoinInvariant,
           PTL DEF BlockJoin!Spec, BlockJoin!ImplementsJoinStream, BlockJoin!Abstract!JoinSpec
=============================================================================
