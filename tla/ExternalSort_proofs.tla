------------------------ MODULE ExternalSort_proofs ------------------------
(***************************************************************************)
(* Proofs about the external sort, for every set of rows and sort keys,    *)
(* every budget and block size, and every input.                           *)
(***************************************************************************)
EXTENDS ExternalSort, SequenceLemmas

-----------------------------------------------------------------------------
(* The inductive invariant *)

Written == IF writer = NoRun THEN {} ELSE {writer}

\* The lists of runs have no run twice and none in common, and together they are
\* the live runs.
Filed ==
  /\ IsInjective(current) /\ IsInjective(next_runs) /\ IsInjective(group)
  /\ ToSet(current) \cap ToSet(next_runs) = {}
  /\ (ToSet(current) \cup ToSet(next_runs)) \cap ToSet(group) = {}
  /\ (ToSet(current) \cup ToSet(next_runs) \cup ToSet(group)) \cap Written = {}
  /\ DOMAIN runs = ToSet(current) \cup ToSet(next_runs) \cup ToSet(group) \cup Written

RunType == [rows : Seq(RowSet), open : BOOLEAN]

CursorType == [run : Nat, rest : Seq(RowSet), row : RowSet \cup {NoRow}]

StoreTyped ==
  /\ next_id \in Nat
  /\ \A f \in DOMAIN runs : runs[f] \in RunType
  /\ Opened \in Nat
  /\ \A i \in 1..Opened : cursors[i] \in CursorType

\* A merge to a temporary run has a writer, and the final merge takes all the runs.
Merging == pc \in {"open", "prime", "pop", "append", "close", "external"}

WriterPhase ==
  /\ pc \in {"pull", "pass", "group", "memory", "external"} => writer = NoRun
  /\ pc \in {"spill", "pop", "append", "close", "delete"} => writer # NoRun
  /\ \A f \in DOMAIN runs : runs[f].open <=> f = writer /\ pc # "delete"

ListPhase ==
  /\ pc \in {"pull", "spill", "pass", "memory"} => next_runs = << >>
  /\ pc \in {"pull", "spill", "pass", "group", "memory"} => group = << >>
  /\ pc = "memory" => current = << >>
  /\ Merging /\ writer = NoRun => current = << >> /\ next_runs = << >>

CursorPhase ==
  /\ ~Merging => Opened = 0
  /\ Opened <= Len(group) /\ (Merging => Len(group) <= FanIn)
  /\ \A i \in 1..Opened : cursors[i].run = group[i]
  /\ pc = "prime" => Opened > 0
  /\ pc \in {"pop", "append", "external"} => Opened = Len(group)

RowPhase ==
  /\ pc = "append" <=> out_row # NoRow
  /\ pc = "spill" => Spilled <= Len(rows)

SortInv ==
  TypeOK /\ StoreTyped /\ Filed /\ WriterPhase /\ ListPhase /\ CursorPhase /\ RowPhase


\* The ids given so far.
Ids == 0..next_id - 1

LEMMA ListTypes ==
  ASSUME TypeOK
  PROVE  /\ current \in Seq(Ids) /\ next_runs \in Seq(Ids)
         /\ group \in Seq(Ids)
         /\ source \in Seq(RowSet) /\ rows \in Seq(RowSet) /\ output \in Seq(RowSet)
         /\ Len(current) \in Nat /\ Len(next_runs) \in Nat /\ Len(group) \in Nat
         /\ Len(rows) \in Nat /\ Len(source) \in Nat /\ Len(output) \in Nat
         /\ pulled \in 0..Len(source)
  BY SequenceFacts DEF TypeOK, Ids

LEMMA MaxOfTwo ==
  ASSUME NEW a \in Int, NEW b \in Int
  PROVE  /\ Max({a, b}) = IF a <= b THEN b ELSE a
         /\ Min({a, b}) = IF a <= b THEN a ELSE b
<1>1. \E x \in {a, b} : \A y \in {a, b} : x >= y
  OBVIOUS
<1>2. \E x \in {a, b} : \A y \in {a, b} : x <= y
  OBVIOUS
<1>3. Max({a, b}) \in {a, b} /\ \A y \in {a, b} : Max({a, b}) >= y
  BY <1>1 DEF Max
<1>4. Min({a, b}) \in {a, b} /\ \A y \in {a, b} : Min({a, b}) <= y
  BY <1>2 DEF Min
<1> QED BY <1>3, <1>4

LEMMA DivType ==
  ASSUME NEW a \in Nat, NEW b \in Nat \ {0}
  PROVE  a \div b \in Nat /\ (a \div b) * b <= a
  OBVIOUS

LEMMA ClampType ==
  ASSUME NEW n \in Nat, NEW low \in Nat, NEW high \in Nat
  PROVE  Clamp(n, low, high) \in Nat /\ low <= Clamp(n, low, high)
<1> DEFINE m == Min({n, high})
<1>1. m \in Nat
  <2>1. m = IF n <= high THEN n ELSE high
    BY MaxOfTwo
  <2> QED BY <2>1
<1>2. Clamp(n, low, high) = Max({low, m})
  BY DEF Clamp
<1> HIDE DEF m
<1> QED BY <1>1, <1>2, MaxOfTwo

LEMMA BudgetTypes ==
  /\ ReaderBudget \in Nat /\ SpillBatchPages \in Nat /\ WriterReserve \in Nat
  /\ RowBudget \in Nat
  /\ FanIn \in Nat /\ FanIn >= 2
  /\ FanIn > 2 => FanIn * MinReaderPages * BlockSize <= ReaderBudget
<1>1. SortRunBytes \in Nat /\ BlockSize \in Nat \ {0} /\ 8 * BlockSize \in Nat \ {0}
  BY SortAssumption
<1>2. SortRunBytes \div 4 \in Nat /\ SortRunBytes \div (8 * BlockSize) \in Nat
  BY <1>1, DivType
<1>3. MaxTotalReaderPages * BlockSize \in Nat
  BY <1>1 DEF MaxTotalReaderPages
<1>4. ReaderBudget \in Nat
  BY <1>1, <1>2, <1>3, ClampType DEF ReaderBudget
<1>5. SpillBatchPages \in Nat
  <2> DEFINE pages == SortRunBytes \div (8 * BlockSize)
  <2>1. pages \in Nat /\ SpillBatchPages = Clamp(pages, 4, 2048)
    BY <1>2 DEF SpillBatchPages, MaxSpillBatchPages
  <2> HIDE DEF pages
  <2> QED BY <2>1, ClampType
<1>6. (SpillBatchPages + 1) * BlockSize \in Nat
  BY <1>1, <1>5
<1>7. WriterReserve \in Nat
  BY <1>6 DEF WriterReserve, MiscReserveBytes
<1>8. RowBudget \in Nat
  BY <1>1, <1>7, MaxOfTwo DEF RowBudget
<1> DEFINE pages == ReaderBudget \div BlockSize
           some  == Max({1, pages})
           each  == some \div MinReaderPages
<1>9. pages \in Nat /\ pages * BlockSize <= ReaderBudget
  BY <1>1, <1>4, DivType
<1>10. some \in Nat /\ (some = 1 \/ some = pages)
  <2> HIDE DEF pages
  <2> QED BY <1>9, MaxOfTwo
<1>11. each \in Nat /\ each * MinReaderPages <= some
  <2> HIDE DEF some
  <2> QED BY <1>10, DivType DEF MinReaderPages
<1>12. FanIn = IF 2 <= each THEN each ELSE 2
  <2>1. FanIn = Max({2, each})
    BY DEF FanIn
  <2> HIDE DEF each
  <2> QED BY <1>11, <2>1, MaxOfTwo
<1>13. ASSUME FanIn > 2 PROVE FanIn * MinReaderPages * BlockSize <= ReaderBudget
  <2> HIDE DEF pages, some, each
  <2>1. FanIn = each /\ each > 2 /\ some = pages /\ each * MinReaderPages <= pages
    BY <1>10, <1>11, <1>12, <1>13 DEF MinReaderPages
  <2>2. each * MinReaderPages * BlockSize <= pages * BlockSize
    <3>1. \A a, b, c \in Nat : a <= b => a * c <= b * c
      OBVIOUS
    <3>2. each * MinReaderPages \in Nat
      BY <1>11 DEF MinReaderPages
    <3> QED BY <1>1, <1>9, <2>1, <3>1, <3>2
  <2>3. each * MinReaderPages * BlockSize \in Nat /\ pages * BlockSize \in Nat
    BY <1>1, <1>9, <1>11 DEF MinReaderPages
  <2> QED BY <1>4, <1>9, <2>1, <2>2, <2>3
<1>14. FanIn \in Nat /\ FanIn >= 2
  <2> HIDE DEF each
  <2> QED BY <1>11, <1>12
<1> QED BY <1>4, <1>5, <1>7, <1>8, <1>13, <1>14

-----------------------------------------------------------------------------
(* Each step keeps the invariant *)

LEMMA InitEstablishes == Init => SortInv
<1> SUFFICES ASSUME Init PROVE SortInv
  OBVIOUS
<1>1. source \in Seq(RowSet) /\ Len(source) \in Nat
  <2>1. PICK n \in 0..MaxInput : source \in [1..n -> RowSet]
    BY DEF Init
  <2>2. n \in Nat
    BY <2>1, SortAssumption
  <2> QED BY <2>1, <2>2, FunctionIsSequence
<1>2. /\ runs = << >> /\ cursors = << >> /\ next_id = 0 /\ writer = NoRun /\ out_row = NoRow
      /\ current = << >> /\ next_runs = << >> /\ group = << >>
      /\ rows = << >> /\ output = << >> /\ pulled = 0 /\ pc = "pull"
  BY DEF Init, Runs!RunStoreInit
<1>3. DOMAIN runs = {} /\ DOMAIN cursors = {}
  BY <1>2
<1>4. Opened = 0 /\ 1..Opened = {}
  BY <1>3, FS_EmptySet DEF Opened
<1>5. TypeOK
  BY <1>1, <1>2, <1>3, <1>4, EmptyElements DEF TypeOK, Ids
<1>6. StoreTyped
  BY <1>2, <1>3, <1>4 DEF StoreTyped
<1>7. Filed
  BY <1>2, <1>3, EmptyElements DEF Filed, Written
<1>8. WriterPhase /\ ListPhase /\ RowPhase
  BY <1>2, <1>3 DEF WriterPhase, ListPhase, RowPhase, Merging
<1>9. CursorPhase
  BY <1>2, <1>4, EmptyElements DEF CursorPhase, Merging
<1> QED BY <1>5, <1>6, <1>7, <1>8, <1>9 DEF SortInv

LEMMA PushRowKeeps == SortInv /\ PushRow => SortInv'
<1> SUFFICES ASSUME SortInv, PushRow PROVE SortInv'
  OBVIOUS
<1> USE DEF SortInv, mergeVars, storeVars
<1>1. /\ pc' = pc /\ pc = "pull" /\ source' = source /\ pulled' = pulled + 1 /\ output' = output
      /\ pulled < Len(source) /\ rows' = Append(rows, source[pulled + 1])
      /\ UNCHANGED <<mergeVars, storeVars, runs, cursors>> /\ Opened' = Opened
  BY DEF PushRow, Opened
<1>2. pulled + 1 \in 1..Len(source) /\ source[pulled + 1] \in RowSet
  BY <1>1, ListTypes, SequenceFacts
<1>3. rows' \in Seq(RowSet)
  BY <1>1, <1>2, ListTypes, AppendElements
<1>4. TypeOK'
  BY <1>1, <1>2, <1>3 DEF TypeOK, Ids
<1>5. StoreTyped' /\ Filed' /\ WriterPhase' /\ ListPhase' /\ CursorPhase' /\ RowPhase'
  BY <1>1 DEF StoreTyped, Filed, Written, WriterPhase, ListPhase, CursorPhase, RowPhase, Merging
<1> QED BY <1>4, <1>5

LEMMA SortsAreSequences ==
  ASSUME NEW s \in Seq(RowSet), NEW t \in SortsOf(s)
  PROVE  t \in Seq(RowSet) /\ Len(t) = Len(s)
<1>1. Len(s) \in Nat /\ DOMAIN s = 1..Len(s) /\ ToSet(s) \subseteq RowSet
  BY SequenceFacts
<1>2. t \in [1..Len(s) -> RowSet]
  BY <1>1 DEF SortsOf
<1> QED BY <1>1, <1>2, FunctionIsSequence

\* A run is created under an id that no list has.
LEMMA CreateRunFiles ==
  ASSUME SortInv, CreateRun, writer = NoRun
  PROVE  /\ writer' = next_id /\ next_id' = next_id + 1 /\ next_id \in Nat
         /\ next_id \notin DOMAIN runs /\ DOMAIN runs' = DOMAIN runs \cup {next_id}
         /\ runs'[next_id] = [rows |-> << >>, open |-> TRUE]
         /\ \A f \in DOMAIN runs : runs'[f] = runs[f]
         /\ cursors' = cursors /\ Opened' = Opened
         /\ Seq(Ids) \subseteq Seq(Ids')
         /\ StoreTyped' /\ DOMAIN runs' \subseteq Ids'
         /\ Written = {} /\ Written' = {next_id}
<1>1. /\ writer' = next_id /\ next_id' = next_id + 1 /\ next_id \in Nat
      /\ next_id \notin DOMAIN runs /\ DOMAIN runs' = DOMAIN runs \cup {next_id}
      /\ runs'[next_id] = [rows |-> << >>, open |-> TRUE]
      /\ \A f \in DOMAIN runs : runs'[f] = runs[f]
      /\ cursors' = cursors
  BY DEF CreateRun, Runs!Create, SortInv, StoreTyped
<1>2. Opened' = Opened
  BY <1>1 DEF Opened
<1>3. [rows |-> << >>, open |-> TRUE] \in RunType
  BY EmptyElements DEF RunType
<1>4. StoreTyped'
  <2>1. StoreTyped
    BY DEF SortInv
  <2>2. ASSUME NEW f \in DOMAIN runs' PROVE runs'[f] \in RunType
    BY <1>1, <1>3, <2>1, <2>2 DEF StoreTyped
  <2> QED BY <1>1, <1>2, <2>1, <2>2 DEF StoreTyped
<1>5. Ids \subseteq Ids'
  BY <1>1 DEF Ids
<1>6. Seq(Ids) \subseteq Seq(Ids')
  BY <1>5, SeqMonotonic
<1>7. DOMAIN runs' \subseteq Ids'
  <2>1. DOMAIN runs \subseteq Ids
    BY DEF SortInv, TypeOK, Ids
  <2>2. next_id \in Ids'
    BY <1>1 DEF Ids
  <2> QED BY <1>1, <1>5, <2>1, <2>2
<1>8. Written = {} /\ Written' = {next_id}
  BY <1>1, SortAssumption DEF Written
<1> QED BY <1>1, <1>2, <1>4, <1>6, <1>7, <1>8

LEMMA BeginSpillKeeps == SortInv /\ BeginSpill => SortInv'
<1> SUFFICES ASSUME SortInv, BeginSpill PROVE SortInv'
  OBVIOUS
<1> USE DEF SortInv
<1>1. /\ pc = "pull" /\ pc' = "spill" /\ rows' \in SortsOf(rows) /\ CreateRun
      /\ UNCHANGED <<source, pulled, current, next_runs, group, out_row, output>>
      /\ writer = NoRun
  BY DEF BeginSpill, WriterPhase
<1>2. /\ writer' = next_id /\ next_id' = next_id + 1 /\ next_id \in Nat
      /\ next_id \notin DOMAIN runs /\ DOMAIN runs' = DOMAIN runs \cup {next_id}
      /\ runs'[next_id] = [rows |-> << >>, open |-> TRUE]
      /\ \A f \in DOMAIN runs : runs'[f] = runs[f]
      /\ cursors' = cursors /\ Opened' = Opened
      /\ Seq(Ids) \subseteq Seq(Ids')
      /\ StoreTyped' /\ DOMAIN runs' \subseteq Ids'
      /\ Written = {} /\ Written' = {next_id}
  BY <1>1, CreateRunFiles
<1>3. rows' \in Seq(RowSet) /\ Len(rows') = Len(rows) /\ Len(rows) \in Nat
  BY <1>1, ListTypes, SortsAreSequences
<1>4. TypeOK'
  BY <1>1, <1>2, <1>3 DEF TypeOK, Ids
<1>5. Filed'
  BY <1>1, <1>2 DEF Filed
<1>6. WriterPhase'
  BY <1>1, <1>2, SortAssumption DEF WriterPhase, Ids
<1>7. ListPhase' /\ CursorPhase'
  BY <1>1, <1>2 DEF ListPhase, CursorPhase, Merging
<1>8. RowPhase'
  BY <1>1, <1>2, <1>3, EmptyElements DEF RowPhase, Spilled
<1> QED BY <1>2, <1>4, <1>5, <1>6, <1>7, <1>8

\* What appending to a run and finishing it change.
LEMMA AppendRowFiles ==
  ASSUME SortInv, NEW f, NEW row \in RowSet, Runs!AppendRow(f, row)
  PROVE  /\ f \in DOMAIN runs /\ runs[f].open /\ DOMAIN runs' = DOMAIN runs
         /\ runs'[f].rows = Append(runs[f].rows, row)
         /\ Len(runs'[f].rows) = Len(runs[f].rows) + 1
         /\ \A g \in DOMAIN runs : runs'[g].open = runs[g].open
         /\ \A g \in DOMAIN runs \ {f} : runs'[g] = runs[g]
         /\ cursors' = cursors /\ Opened' = Opened
         /\ next_id' = next_id => StoreTyped'
<1>1. /\ f \in DOMAIN runs /\ runs[f].open /\ cursors' = cursors
      /\ runs' = [runs EXCEPT ![f].rows = Append(@, row)]
  BY DEF Runs!AppendRow
<1>2. StoreTyped /\ \A g \in DOMAIN runs : runs[g] \in RunType
  BY DEF SortInv, StoreTyped
<1>3. /\ DOMAIN runs' = DOMAIN runs
      /\ \A g \in DOMAIN runs \ {f} : runs'[g] = runs[g]
      /\ runs'[f] = [runs[f] EXCEPT !.rows = Append(runs[f].rows, row)]
  BY <1>1
<1>4. runs[f].rows \in Seq(RowSet) /\ runs[f].open \in BOOLEAN
  BY <1>1, <1>2 DEF RunType
<1>5. /\ Append(runs[f].rows, row) \in Seq(RowSet)
      /\ Len(Append(runs[f].rows, row)) = Len(runs[f].rows) + 1
  BY <1>4, AppendElements
<1>6. runs'[f].rows = Append(runs[f].rows, row) /\ runs'[f].open = runs[f].open
  BY <1>1, <1>2, <1>3 DEF RunType
<1>7. runs'[f] \in RunType
  BY <1>1, <1>2, <1>3, <1>5 DEF RunType
<1>8. Opened' = Opened
  BY <1>1 DEF Opened
<1>9. next_id' = next_id => StoreTyped'
  BY <1>1, <1>2, <1>3, <1>7, <1>8 DEF StoreTyped
<1> QED BY <1>1, <1>3, <1>5, <1>6, <1>8, <1>9

LEMMA FinishFiles ==
  ASSUME SortInv, NEW f, Runs!Finish(f)
  PROVE  /\ f \in DOMAIN runs /\ runs[f].open /\ DOMAIN runs' = DOMAIN runs
         /\ ~runs'[f].open
         /\ \A g \in DOMAIN runs : runs'[g].rows = runs[g].rows
         /\ \A g \in DOMAIN runs \ {f} : runs'[g] = runs[g]
         /\ cursors' = cursors /\ Opened' = Opened
         /\ next_id' = next_id => StoreTyped'
<1>1. /\ f \in DOMAIN runs /\ runs[f].open /\ cursors' = cursors
      /\ runs' = [runs EXCEPT ![f].open = FALSE]
  BY DEF Runs!Finish
<1>2. StoreTyped /\ \A g \in DOMAIN runs : runs[g] \in RunType
  BY DEF SortInv, StoreTyped
<1>3. /\ DOMAIN runs' = DOMAIN runs
      /\ \A g \in DOMAIN runs \ {f} : runs'[g] = runs[g]
      /\ runs'[f] = [runs[f] EXCEPT !.open = FALSE]
  BY <1>1
<1>4. runs'[f].rows = runs[f].rows /\ runs'[f].open = FALSE /\ runs'[f] \in RunType
  BY <1>1, <1>2, <1>3 DEF RunType
<1>5. Opened' = Opened
  BY <1>1 DEF Opened
<1>6. next_id' = next_id => StoreTyped'
  BY <1>1, <1>2, <1>3, <1>4, <1>5 DEF StoreTyped
<1> QED BY <1>1, <1>3, <1>4, <1>5, <1>6

LEMMA SpillRowKeeps == SortInv /\ SpillRow => SortInv'
<1> SUFFICES ASSUME SortInv, SpillRow PROVE SortInv'
  OBVIOUS
<1> USE DEF SortInv
<1>1. /\ pc = "spill" /\ pc' = "spill" /\ Spilled < Len(rows) /\ next_id' = next_id
      /\ Runs!AppendRow(writer, rows[Spilled + 1])
      /\ UNCHANGED <<source, pulled, rows, current, next_runs, group, writer, out_row, output>>
  BY DEF SpillRow, pullVars, mergeVars, Runs!AppendRow
<1>2. writer \in DOMAIN runs /\ runs[writer].rows \in Seq(RowSet) /\ Spilled \in Nat
  BY <1>1, SequenceFacts DEF Runs!AppendRow, StoreTyped, RunType, Spilled
<1>3. rows[Spilled + 1] \in RowSet
  BY <1>1, <1>2, ListTypes, SequenceFacts
<1>4. /\ DOMAIN runs' = DOMAIN runs /\ Spilled' = Spilled + 1
      /\ \A g \in DOMAIN runs : runs'[g].open = runs[g].open
      /\ cursors' = cursors /\ Opened' = Opened /\ StoreTyped'
  BY <1>1, <1>3, AppendRowFiles DEF Spilled
<1>5. TypeOK'
  BY <1>1, <1>4 DEF TypeOK, Ids
<1>6. Filed' /\ WriterPhase' /\ ListPhase' /\ CursorPhase'
  BY <1>1, <1>4 DEF Filed, Written, WriterPhase, ListPhase, CursorPhase, Merging
<1>7. RowPhase'
  BY <1>1, <1>2, <1>4, ListTypes DEF RowPhase
<1> QED BY <1>4, <1>5, <1>6, <1>7

LEMMA EndSpillKeeps == SortInv /\ EndSpill => SortInv'
<1> SUFFICES ASSUME SortInv, EndSpill PROVE SortInv'
  OBVIOUS
<1> USE DEF SortInv
<1>1. /\ pc = "spill" /\ pc' = "pull" /\ Runs!Finish(writer) /\ writer # NoRun
      /\ current' = Append(current, writer) /\ writer' = NoRun /\ rows' = << >>
      /\ UNCHANGED <<source, pulled, next_runs, group, out_row, output, next_id>>
  BY DEF EndSpill, WriterPhase
<1>2. /\ writer \in DOMAIN runs /\ DOMAIN runs' = DOMAIN runs /\ ~runs'[writer].open
      /\ \A g \in DOMAIN runs \ {writer} : runs'[g] = runs[g]
      /\ cursors' = cursors /\ Opened' = Opened /\ StoreTyped'
  BY <1>1, FinishFiles
<1>3. current \in Seq(Ids) /\ writer \in Ids
  BY <1>1, ListTypes DEF TypeOK, Ids
<1>4. /\ current' \in Seq(Ids) /\ ToSet(current') = ToSet(current) \cup {writer}
      /\ IsInjective(current') <=> IsInjective(current) /\ writer \notin ToSet(current)
  <2>1. /\ Append(current, writer) \in Seq(Ids)
        /\ ToSet(Append(current, writer)) = ToSet(current) \cup {writer}
        /\ IsInjective(Append(current, writer)) <=>
             IsInjective(current) /\ writer \notin ToSet(current)
    BY <1>3, AppendElements
  <2> QED BY <1>1, <2>1
<1>5. TypeOK'
  BY <1>1, <1>2, <1>4, EmptyElements DEF TypeOK, Ids
<1>6. Written = {writer} /\ Written' = {}
  BY <1>1 DEF Written
<1>7. Filed'
  BY <1>1, <1>2, <1>4, <1>6 DEF Filed
<1>8. WriterPhase'
  <2>1. ASSUME NEW f \in DOMAIN runs' PROVE ~runs'[f].open
    BY <1>1, <1>2, <2>1 DEF WriterPhase
  <2>2. NoRun \notin DOMAIN runs'
    BY <1>2, SortAssumption DEF TypeOK
  <2> QED BY <1>1, <2>1, <2>2 DEF WriterPhase
<1>9. ListPhase' /\ CursorPhase' /\ RowPhase'
  BY <1>1, <1>2 DEF ListPhase, CursorPhase, RowPhase, Merging
<1> QED BY <1>2, <1>5, <1>7, <1>8, <1>9

LEMMA SortInMemoryKeeps == SortInv /\ SortInMemory => SortInv'
<1> SUFFICES ASSUME SortInv, SortInMemory PROVE SortInv'
  OBVIOUS
<1> USE DEF SortInv
<1>1. /\ pc = "pull" /\ pc' = "memory" /\ current = << >> /\ rows' \in SortsOf(rows)
      /\ UNCHANGED <<source, pulled, current, next_runs, group, writer, out_row, output,
                     next_id, runs, cursors>> /\ Opened' = Opened
  BY DEF SortInMemory, mergeVars, storeVars, Opened
<1>2. rows' \in Seq(RowSet)
  BY <1>1, ListTypes, SortsAreSequences
<1>3. TypeOK'
  BY <1>1, <1>2 DEF TypeOK, Ids
<1>4. StoreTyped' /\ Filed' /\ WriterPhase' /\ ListPhase' /\ CursorPhase' /\ RowPhase'
  BY <1>1 DEF StoreTyped, Filed, Written, WriterPhase, ListPhase, CursorPhase, RowPhase, Merging
<1> QED BY <1>3, <1>4

\* The steps that only decide where to go on.
LEMMA TurnsKeep ==
  SortInv /\ (EndOfInput \/ BeginPass \/ AllOpened \/ EndOfRuns) => SortInv'
<1> SUFFICES ASSUME SortInv, EndOfInput \/ BeginPass \/ AllOpened \/ EndOfRuns PROVE SortInv'
  OBVIOUS
<1> USE DEF SortInv
<1>1. /\ UNCHANGED <<source, pulled, rows, current, next_runs, group, writer, out_row, output,
                     next_id, runs, cursors>> /\ Opened' = Opened
      /\ \/ pc = "pull" /\ pc' = "pass"
         \/ pc = "pass" /\ pc' = "group"
         \/ pc = "open" /\ Opened = Len(group) /\ writer = NoRun /\ pc' = "external"
         \/ pc = "open" /\ Opened = Len(group) /\ writer # NoRun /\ pc' = "pop"
         \/ pc = "pop" /\ pc' = "close"
  BY DEF EndOfInput, BeginPass, AllOpened, EndOfRuns, pullVars, mergeVars, storeVars, Opened
<1>2. TypeOK' /\ StoreTyped' /\ Filed'
  BY <1>1 DEF TypeOK, Ids, StoreTyped, Filed, Written
<1>3. WriterPhase'
  BY <1>1 DEF WriterPhase
<1>4. ListPhase' /\ CursorPhase' /\ RowPhase'
  BY <1>1 DEF ListPhase, CursorPhase, RowPhase, Merging
<1> QED BY <1>2, <1>3, <1>4

\* The chunk of a pass and the runs after it.
LEMMA ChunkSplits ==
  ASSUME SortInv
  PROVE  /\ Chunk \in Seq(Ids) /\ AfterChunk \in Seq(Ids)
         /\ Len(Chunk) \in Nat /\ Len(Chunk) <= FanIn
         /\ Len(current) <= FanIn => Chunk = current
         /\ ToSet(current) = ToSet(Chunk) \cup ToSet(AfterChunk)
         /\ IsInjective(current) <=> /\ IsInjective(Chunk) /\ IsInjective(AfterChunk)
                                     /\ ToSet(Chunk) \cap ToSet(AfterChunk) = {}
<1> DEFINE n == Min({FanIn, Len(current)})
<1>1. current \in Seq(Ids) /\ Len(current) \in Nat /\ FanIn \in Nat
  BY ListTypes, BudgetTypes DEF SortInv
<1>2. n = IF FanIn <= Len(current) THEN FanIn ELSE Len(current)
  <2> DEFINE m == Len(current)
  <2>1. m \in Int /\ FanIn \in Int
    BY <1>1
  <2> HIDE DEF m
  <2>2. Min({FanIn, m}) = IF FanIn <= m THEN FanIn ELSE m
    BY <2>1, MaxOfTwo
  <2> QED BY <2>2 DEF m
<1>3. n \in 0..Len(current) /\ n <= FanIn /\ (Len(current) <= FanIn => n = Len(current))
  BY <1>1, <1>2
<1>4. Chunk = SubSeq(current, 1, n)
  BY DEF Chunk
<1> HIDE DEF n
<1>5. Chunk \in Seq(Ids) /\ Len(Chunk) = n
  BY <1>1, <1>3, <1>4, SplitElements
<1>6. AfterChunk = SubSeq(current, n + 1, Len(current))
  BY <1>5 DEF AfterChunk
<1>7. /\ AfterChunk \in Seq(Ids)
      /\ ToSet(current) = ToSet(Chunk) \cup ToSet(AfterChunk)
      /\ IsInjective(current) <=> /\ IsInjective(Chunk) /\ IsInjective(AfterChunk)
                                  /\ ToSet(Chunk) \cap ToSet(AfterChunk) = {}
  BY <1>1, <1>3, <1>4, <1>6, SplitElements
<1>8. Len(current) <= FanIn => Chunk = current
  BY <1>1, <1>3, <1>4, SubSeqFull
<1> QED BY <1>1, <1>3, <1>5, <1>7, <1>8

LEMMA PassThroughKeeps == SortInv /\ PassThrough => SortInv'
<1> SUFFICES ASSUME SortInv, PassThrough PROVE SortInv'
  OBVIOUS
<1> USE DEF SortInv
<1>1. /\ pc = "group" /\ pc' = "group" /\ Len(Chunk) = 1
      /\ next_runs' = Append(next_runs, Chunk[1]) /\ current' = AfterChunk
      /\ UNCHANGED <<source, pulled, rows, group, writer, out_row, output,
                     next_id, runs, cursors>> /\ Opened' = Opened
  BY DEF PassThrough, pullVars, storeVars, Opened
<1>2. /\ Chunk \in Seq(Ids) /\ AfterChunk \in Seq(Ids)
      /\ ToSet(current) = ToSet(Chunk) \cup ToSet(AfterChunk)
      /\ IsInjective(current) <=> /\ IsInjective(Chunk) /\ IsInjective(AfterChunk)
                                  /\ ToSet(Chunk) \cap ToSet(AfterChunk) = {}
  BY ChunkSplits
<1>3. Chunk[1] \in Ids /\ ToSet(Chunk) = {Chunk[1]}
  <2>1. ToSet(Chunk) = {Chunk[i] : i \in 1..1} /\ 1 \in 1..1 /\ ToSet(Chunk) \subseteq Ids
    BY <1>1, <1>2, SequenceFacts, SMTT(30)
  <2>2. ToSet(Chunk) = {Chunk[1]}
    BY <2>1
  <2> QED BY <2>1, <2>2
<1>4. /\ next_runs' \in Seq(Ids)
      /\ ToSet(next_runs') = ToSet(next_runs) \cup {Chunk[1]}
      /\ IsInjective(next_runs') <=> IsInjective(next_runs) /\ Chunk[1] \notin ToSet(next_runs)
  <2> DEFINE e == Chunk[1]
  <2>1. next_runs \in Seq(Ids) /\ e \in Ids
    BY <1>3, ListTypes
  <2> HIDE DEF e
  <2>2. /\ Append(next_runs, e) \in Seq(Ids)
        /\ ToSet(Append(next_runs, e)) = ToSet(next_runs) \cup {e}
        /\ IsInjective(Append(next_runs, e)) <=> IsInjective(next_runs) /\ e \notin ToSet(next_runs)
    BY <2>1, AppendElements
  <2> QED BY <1>1, <2>2 DEF e
<1>5. TypeOK' /\ StoreTyped'
  BY <1>1, <1>2, <1>4 DEF TypeOK, Ids, StoreTyped
<1>6. Filed'
  BY <1>1, <1>2, <1>3, <1>4 DEF Filed, Written
<1>7. WriterPhase' /\ ListPhase' /\ CursorPhase' /\ RowPhase'
  BY <1>1 DEF WriterPhase, ListPhase, CursorPhase, RowPhase, Merging
<1> QED BY <1>5, <1>6, <1>7

LEMMA EndPassKeeps == SortInv /\ EndPass => SortInv'
<1> SUFFICES ASSUME SortInv, EndPass PROVE SortInv'
  OBVIOUS
<1> USE DEF SortInv
<1>1. /\ pc = "group" /\ pc' = "pass" /\ current = << >>
      /\ current' = next_runs /\ next_runs' = << >>
      /\ UNCHANGED <<source, pulled, rows, group, writer, out_row, output,
                     next_id, runs, cursors>> /\ Opened' = Opened
  BY DEF EndPass, pullVars, storeVars, Opened
<1>2. TypeOK' /\ StoreTyped'
  BY <1>1, EmptyElements DEF TypeOK, Ids, StoreTyped
<1>3. Filed'
  BY <1>1, EmptyElements DEF Filed, Written
<1>4. WriterPhase' /\ ListPhase' /\ CursorPhase' /\ RowPhase'
  BY <1>1 DEF WriterPhase, ListPhase, CursorPhase, RowPhase, Merging
<1> QED BY <1>2, <1>3, <1>4

LEMMA BeginFinalMergeKeeps == SortInv /\ BeginFinalMerge => SortInv'
<1> SUFFICES ASSUME SortInv, BeginFinalMerge PROVE SortInv'
  OBVIOUS
<1> USE DEF SortInv
<1>1. /\ pc = "pass" /\ pc' = "open" /\ Len(current) <= FanIn
      /\ current' = << >> /\ group' = current
      /\ UNCHANGED <<source, pulled, rows, next_runs, writer, out_row, output,
                     next_id, runs, cursors>> /\ Opened' = Opened
  BY DEF BeginFinalMerge, pullVars, storeVars, Opened
<1>2. group = << >> /\ next_runs = << >> /\ writer = NoRun /\ Opened = 0
  BY <1>1 DEF ListPhase, WriterPhase, CursorPhase, Merging
<1>3. TypeOK' /\ StoreTyped'
  BY <1>1, EmptyElements DEF TypeOK, Ids, StoreTyped
<1>4. Filed'
  BY <1>1, <1>2, EmptyElements DEF Filed, Written
<1>5. WriterPhase' /\ ListPhase' /\ RowPhase'
  BY <1>1, <1>2 DEF WriterPhase, ListPhase, RowPhase, Merging
<1>6. CursorPhase'
  BY <1>1, <1>2, ListTypes DEF CursorPhase, Merging
<1> QED BY <1>3, <1>4, <1>5, <1>6

LEMMA BeginMergeKeeps == SortInv /\ BeginMerge => SortInv'
<1> SUFFICES ASSUME SortInv, BeginMerge PROVE SortInv'
  OBVIOUS
<1> USE DEF SortInv
<1>1. /\ pc = "group" /\ pc' = "open" /\ CreateRun
      /\ group' = Chunk /\ current' = AfterChunk
      /\ UNCHANGED <<source, pulled, rows, next_runs, out_row, output>>
  BY DEF BeginMerge, pullVars
<1>2. group = << >> /\ writer = NoRun /\ Opened = 0
  BY <1>1 DEF ListPhase, WriterPhase, CursorPhase, Merging
<1>3. /\ writer' = next_id /\ next_id' = next_id + 1 /\ next_id \in Nat
      /\ next_id \notin DOMAIN runs /\ DOMAIN runs' = DOMAIN runs \cup {next_id}
      /\ runs'[next_id] = [rows |-> << >>, open |-> TRUE]
      /\ \A f \in DOMAIN runs : runs'[f] = runs[f]
      /\ cursors' = cursors /\ Opened' = Opened
      /\ Seq(Ids) \subseteq Seq(Ids')
      /\ StoreTyped' /\ DOMAIN runs' \subseteq Ids'
      /\ Written = {} /\ Written' = {next_id}
  BY <1>1, <1>2, CreateRunFiles
<1>4. /\ Chunk \in Seq(Ids) /\ AfterChunk \in Seq(Ids)
      /\ Len(Chunk) \in Nat /\ Len(Chunk) <= FanIn
      /\ ToSet(current) = ToSet(Chunk) \cup ToSet(AfterChunk)
      /\ IsInjective(current) <=> /\ IsInjective(Chunk) /\ IsInjective(AfterChunk)
                                  /\ ToSet(Chunk) \cap ToSet(AfterChunk) = {}
  BY ChunkSplits
<1>5. TypeOK'
  BY <1>1, <1>3, <1>4 DEF TypeOK, Ids
<1>6. Filed'
  BY <1>1, <1>2, <1>3, <1>4, EmptyElements DEF Filed
<1>7. WriterPhase'
  BY <1>1, <1>2, <1>3, SortAssumption DEF WriterPhase, Ids
<1>8. ListPhase' /\ RowPhase'
  BY <1>1, <1>3, SortAssumption DEF ListPhase, RowPhase, Merging
<1>9. CursorPhase'
  BY <1>1, <1>2, <1>3, <1>4 DEF CursorPhase, Merging
<1> QED BY <1>3, <1>5, <1>6, <1>7, <1>8, <1>9

\* What a cursor that moves changes: it is at its next row, or past its last.
LEMMA NextRowMoves ==
  ASSUME SortInv, NEW i, Runs!NextRow(i), next_id' = next_id
  PROVE  /\ i \in DOMAIN cursors /\ DOMAIN cursors' = DOMAIN cursors /\ Opened' = Opened
         /\ runs' = runs
         /\ \A j \in DOMAIN cursors \ {i} : cursors'[j] = cursors[j]
         /\ cursors'[i].run = cursors[i].run
         /\ IF cursors[i].rest = << >>
            THEN cursors'[i].rest = << >> /\ cursors'[i].row = NoRow
            ELSE /\ cursors'[i].rest = Tail(cursors[i].rest)
                 /\ cursors'[i].row = Head(cursors[i].rest)
         /\ StoreTyped'
<1> DEFINE c == cursors[i]
<1>1. /\ i \in DOMAIN cursors /\ runs' = runs
      /\ cursors' = IF c.rest = << >> THEN [cursors EXCEPT ![i].row = NoRow]
                    ELSE [cursors EXCEPT ![i].row = Head(c.rest), ![i].rest = Tail(c.rest)]
  BY DEF Runs!NextRow
<1>2. /\ StoreTyped /\ DOMAIN cursors = 1..Opened
      /\ c \in CursorType
  BY <1>1 DEF SortInv, StoreTyped, TypeOK
<1>3. DOMAIN cursors' = DOMAIN cursors /\ Opened' = Opened
  BY <1>1 DEF Opened
<1>4. \A j \in DOMAIN cursors \ {i} : cursors'[j] = cursors[j]
  BY <1>1
<1>5. ASSUME c.rest = << >>
      PROVE  cursors'[i] = [c EXCEPT !.row = NoRow]
  BY <1>1, <1>5
<1>6. ASSUME c.rest # << >>
      PROVE  cursors'[i] = [[c EXCEPT !.row = Head(c.rest)] EXCEPT !.rest = Tail(c.rest)]
  BY <1>1, <1>6
<1> DEFINE d == cursors'[i]
<1>7. /\ d.run = c.run
      /\ IF c.rest = << >> THEN d.rest = << >> /\ d.row = NoRow
                           ELSE d.rest = Tail(c.rest) /\ d.row = Head(c.rest)
  <2> HIDE DEF c, d
  <2>1. CASE c.rest = << >>
    <3>1. d = [c EXCEPT !.row = NoRow]
      BY <1>5, <2>1 DEF c, d
    <3> QED BY <1>2, <2>1, <3>1 DEF CursorType
  <2>2. CASE c.rest # << >>
    <3>1. d = [[c EXCEPT !.row = Head(c.rest)] EXCEPT !.rest = Tail(c.rest)]
      BY <1>6, <2>2 DEF c, d
    <3> QED BY <1>2, <2>2, <3>1 DEF CursorType
  <2> QED BY <2>1, <2>2
<1>8. d \in CursorType
  <2> HIDE DEF c, d
  <2>1. CASE c.rest = << >>
    <3>1. d = [c EXCEPT !.row = NoRow]
      BY <1>5, <2>1 DEF c, d
    <3> QED BY <1>2, <2>1, <3>1 DEF CursorType
  <2>2. CASE c.rest # << >>
    <3>1. d = [[c EXCEPT !.row = Head(c.rest)] EXCEPT !.rest = Tail(c.rest)]
      BY <1>6, <2>2 DEF c, d
    <3>2. c.rest \in Seq(RowSet)
      BY <1>2 DEF CursorType
    <3>3. Head(c.rest) \in RowSet /\ Tail(c.rest) \in Seq(RowSet)
      BY <2>2, <3>2, HeadElements
    <3> QED BY <1>2, <3>1, <3>3 DEF CursorType
  <2> QED BY <2>1, <2>2
<1>9. StoreTyped'
  <2>1. \A j \in 1..Opened : cursors'[j] \in CursorType
    BY <1>2, <1>4, <1>8 DEF StoreTyped
  <2> QED BY <1>1, <1>2, <1>3, <2>1 DEF StoreTyped
<1> QED BY <1>1, <1>3, <1>4, <1>7, <1>9

LEMMA OpenRunKeeps == SortInv /\ OpenRun => SortInv'
<1> SUFFICES ASSUME SortInv, OpenRun PROVE SortInv'
  OBVIOUS
<1> USE DEF SortInv
<1> DEFINE f == group[Opened + 1]
<1>1. /\ pc = "open" /\ pc' = "prime" /\ Opened < Len(group)
      /\ f \in DOMAIN runs /\ ~runs[f].open /\ runs' = runs /\ next_id' = next_id
      /\ cursors' = [q \in DOMAIN cursors \cup {Opened + 1} |->
                       IF q = Opened + 1 THEN [run |-> f, rest |-> runs[f].rows, row |-> NoRow]
                       ELSE cursors[q]]
      /\ UNCHANGED <<source, pulled, rows, current, next_runs, group, writer, out_row, output>>
  BY DEF OpenRun, pullVars, mergeVars, Runs!Open
<1>2. Opened \in Nat /\ DOMAIN cursors = 1..Opened /\ next_id \in Nat
  BY DEF StoreTyped, TypeOK
<1>3. DOMAIN cursors' = 1..Opened + 1
  BY <1>1, <1>2
<1>4. Opened' = Opened + 1
  BY <1>2, <1>3, FS_Interval DEF Opened
<1>5. f \in Nat /\ runs[f] \in RunType
  BY <1>1, <1>2 DEF TypeOK, StoreTyped
<1>6. cursors'[Opened + 1] = [run |-> f, rest |-> runs[f].rows, row |-> NoRow]
  BY <1>1
<1>7. \A i \in 1..Opened : cursors'[i] = cursors[i]
  BY <1>1, <1>2
<1>8. StoreTyped'
  <2>1. cursors'[Opened + 1] \in CursorType
    BY <1>5, <1>6 DEF CursorType, RunType
  <2>2. \A i \in 1..Opened' : cursors'[i] \in CursorType
    BY <1>2, <1>4, <1>7, <2>1 DEF StoreTyped
  <2>3. (\A g \in DOMAIN runs : runs[g] \in RunType) /\ Opened' \in Nat
    BY <1>2, <1>4 DEF StoreTyped
  <2> QED BY <1>1, <1>2, <2>2, <2>3 DEF StoreTyped
<1>9. TypeOK' /\ Filed'
  BY <1>1, <1>3, <1>4 DEF TypeOK, Filed, Written
<1>10. WriterPhase' /\ ListPhase' /\ RowPhase'
  BY <1>1 DEF WriterPhase, ListPhase, RowPhase, Merging
<1>11. CursorPhase'
  <2>1. \A i \in 1..Opened' : cursors'[i].run = group[i]
    BY <1>2, <1>4, <1>6, <1>7 DEF CursorPhase
  <2> QED BY <1>1, <1>2, <1>4, <2>1, ListTypes DEF CursorPhase, Merging
<1> QED BY <1>8, <1>9, <1>10, <1>11

LEMMA PrimeRunKeeps == SortInv /\ PrimeRun => SortInv'
<1> SUFFICES ASSUME SortInv, PrimeRun PROVE SortInv'
  OBVIOUS
<1> USE DEF SortInv
<1>1. /\ pc = "prime" /\ pc' = "open" /\ Runs!NextRow(Opened) /\ next_id' = next_id
      /\ UNCHANGED <<source, pulled, rows, current, next_runs, group, writer, out_row, output>>
  BY DEF PrimeRun, pullVars, mergeVars
<1>2. /\ DOMAIN cursors' = DOMAIN cursors /\ Opened' = Opened /\ runs' = runs
      /\ \A j \in DOMAIN cursors : cursors'[j].run = cursors[j].run
      /\ StoreTyped'
  BY <1>1, NextRowMoves
<1>3. TypeOK' /\ Filed'
  BY <1>1, <1>2 DEF TypeOK, Filed, Written
<1>4. WriterPhase' /\ ListPhase' /\ RowPhase'
  BY <1>1, <1>2 DEF WriterPhase, ListPhase, RowPhase, Merging
<1>5. CursorPhase'
  BY <1>1, <1>2 DEF CursorPhase, Merging, TypeOK
<1> QED BY <1>2, <1>3, <1>4, <1>5

LEMMA PopRowKeeps == SortInv /\ PopRow => SortInv'
<1> SUFFICES ASSUME SortInv, PopRow PROVE SortInv'
  OBVIOUS
<1> USE DEF SortInv
<1>1. PICK i \in Heap : out_row' = cursors[i].row /\ Runs!NextRow(i)
  BY DEF PopRow
<1>2. /\ pc = "pop" /\ pc' = "append" /\ next_id' = next_id
      /\ UNCHANGED <<source, pulled, rows, current, next_runs, group, writer, output>>
  BY DEF PopRow, pullVars
<1>3. /\ DOMAIN cursors' = DOMAIN cursors /\ Opened' = Opened /\ runs' = runs
      /\ \A j \in DOMAIN cursors : cursors'[j].run = cursors[j].run
      /\ StoreTyped'
  BY <1>1, <1>2, NextRowMoves
<1>4. out_row' \in RowSet /\ out_row' # NoRow
  BY <1>1, SortAssumption DEF Heap, StoreTyped, CursorType, TypeOK
<1>5. TypeOK' /\ Filed'
  BY <1>2, <1>3, <1>4 DEF TypeOK, Filed, Written
<1>6. WriterPhase' /\ ListPhase' /\ RowPhase'
  BY <1>2, <1>3, <1>4 DEF WriterPhase, ListPhase, RowPhase, Merging
<1>7. CursorPhase'
  BY <1>2, <1>3 DEF CursorPhase, Merging, TypeOK
<1> QED BY <1>3, <1>5, <1>6, <1>7

LEMMA AppendMergedKeeps == SortInv /\ AppendMerged => SortInv'
<1> SUFFICES ASSUME SortInv, AppendMerged PROVE SortInv'
  OBVIOUS
<1> USE DEF SortInv
<1>1. /\ pc = "append" /\ pc' = "pop" /\ next_id' = next_id /\ out_row' = NoRow
      /\ Runs!AppendRow(writer, out_row)
      /\ UNCHANGED <<source, pulled, rows, current, next_runs, group, writer, output>>
  BY DEF AppendMerged, pullVars
<1>2. out_row \in RowSet
  BY <1>1 DEF RowPhase, TypeOK
<1>3. /\ DOMAIN runs' = DOMAIN runs /\ \A g \in DOMAIN runs : runs'[g].open = runs[g].open
      /\ cursors' = cursors /\ Opened' = Opened /\ StoreTyped'
  BY <1>1, <1>2, AppendRowFiles
<1>4. TypeOK' /\ Filed'
  BY <1>1, <1>3 DEF TypeOK, Filed, Written
<1>5. WriterPhase' /\ ListPhase' /\ CursorPhase' /\ RowPhase'
  BY <1>1, <1>3 DEF WriterPhase, ListPhase, CursorPhase, RowPhase, Merging
<1> QED BY <1>3, <1>4, <1>5

LEMMA CloseReaderKeeps == SortInv /\ CloseReader => SortInv'
<1> SUFFICES ASSUME SortInv, CloseReader PROVE SortInv'
  OBVIOUS
<1> USE DEF SortInv
<1>1. /\ pc = "close" /\ pc' = "close" /\ Opened > 0 /\ next_id' = next_id /\ runs' = runs
      /\ cursors' = [q \in DOMAIN cursors \ {Opened} |-> cursors[q]]
      /\ UNCHANGED <<source, pulled, rows, current, next_runs, group, writer, out_row, output>>
  BY DEF CloseReader, Runs!Close, pullVars, mergeVars
<1>2. Opened \in Nat /\ DOMAIN cursors = 1..Opened
  BY DEF StoreTyped, TypeOK
<1>3. DOMAIN cursors' = 1..Opened - 1 /\ \A i \in 1..Opened - 1 : cursors'[i] = cursors[i]
  BY <1>1, <1>2
<1>4. Opened' = Opened - 1
  <2> DEFINE n == Opened - 1
  <2>1. n \in Nat
    BY <1>1, <1>2
  <2> HIDE DEF n
  <2>2. Cardinality(1..n) = n
    BY <2>1, FS_Interval
  <2> QED BY <1>3, <2>2 DEF Opened, n
<1>5. StoreTyped'
  <2>1. \A i \in 1..Opened' : cursors'[i] \in CursorType
    BY <1>2, <1>3, <1>4 DEF StoreTyped
  <2>2. (\A g \in DOMAIN runs : runs[g] \in RunType) /\ Opened' \in Nat /\ next_id \in Nat
    BY <1>1, <1>2, <1>4 DEF StoreTyped
  <2> QED BY <1>1, <2>1, <2>2 DEF StoreTyped
<1>6. TypeOK' /\ Filed'
  BY <1>1, <1>3, <1>4 DEF TypeOK, Filed, Written
<1>7. WriterPhase' /\ ListPhase' /\ RowPhase'
  BY <1>1 DEF WriterPhase, ListPhase, RowPhase, Merging
<1>8. CursorPhase'
  BY <1>1, <1>2, <1>3, <1>4, ListTypes DEF CursorPhase, Merging
<1> QED BY <1>5, <1>6, <1>7, <1>8

LEMMA FinishMergeKeeps == SortInv /\ FinishMerge => SortInv'
<1> SUFFICES ASSUME SortInv, FinishMerge PROVE SortInv'
  OBVIOUS
<1> USE DEF SortInv
<1>1. /\ pc = "close" /\ pc' = "delete" /\ Opened = 0 /\ next_id' = next_id
      /\ Runs!Finish(writer)
      /\ UNCHANGED <<source, pulled, rows, current, next_runs, group, writer, out_row, output>>
  BY DEF FinishMerge, pullVars, mergeVars
<1>2. /\ writer \in DOMAIN runs /\ DOMAIN runs' = DOMAIN runs /\ ~runs'[writer].open
      /\ \A g \in DOMAIN runs \ {writer} : runs'[g] = runs[g]
      /\ cursors' = cursors /\ Opened' = Opened /\ StoreTyped'
  BY <1>1, FinishFiles
<1>3. TypeOK' /\ Filed'
  BY <1>1, <1>2 DEF TypeOK, Filed, Written
<1>4. WriterPhase' /\ ListPhase' /\ RowPhase' /\ CursorPhase'
  BY <1>1, <1>2 DEF WriterPhase, ListPhase, RowPhase, CursorPhase, Merging
<1> QED BY <1>2, <1>3, <1>4

LEMMA DeleteInputKeeps == SortInv /\ DeleteInput => SortInv'
<1> SUFFICES ASSUME SortInv, DeleteInput PROVE SortInv'
  OBVIOUS
<1> USE DEF SortInv
<1>1. /\ pc = "delete" /\ pc' = "delete" /\ group # << >> /\ next_id' = next_id
      /\ Head(group) \in DOMAIN runs /\ runs' = [g \in DOMAIN runs \ {Head(group)} |-> runs[g]]
      /\ group' = Tail(group) /\ cursors' = cursors /\ Opened' = Opened
      /\ UNCHANGED <<source, pulled, rows, current, next_runs, writer, out_row, output>>
  BY DEF DeleteInput, pullVars, Runs!Delete, Opened
<1>2. group \in Seq(Ids) /\ Opened = 0
  BY <1>1, ListTypes DEF CursorPhase, Merging
<1>3. /\ Tail(group) \in Seq(Ids) /\ Len(Tail(group)) \in Nat
      /\ ToSet(group) = {Head(group)} \cup ToSet(Tail(group))
      /\ IsInjective(group) <=> IsInjective(Tail(group)) /\ Head(group) \notin ToSet(Tail(group))
  BY <1>1, <1>2, HeadElements, SequenceFacts
<1>4. /\ DOMAIN runs' = DOMAIN runs \ {Head(group)}
      /\ \A g \in DOMAIN runs' : runs'[g] = runs[g]
  BY <1>1
<1>5. StoreTyped'
  BY <1>1, <1>4 DEF StoreTyped
<1>6. TypeOK'
  BY <1>1, <1>3, <1>4 DEF TypeOK, Ids
<1>7. Filed'
  BY <1>1, <1>3, <1>4 DEF Filed, Written
<1>8. WriterPhase' /\ ListPhase' /\ RowPhase'
  BY <1>1, <1>4 DEF WriterPhase, ListPhase, RowPhase, Merging
<1>9. CursorPhase'
  BY <1>1, <1>2, <1>3 DEF CursorPhase, Merging
<1> QED BY <1>5, <1>6, <1>7, <1>8, <1>9

LEMMA EndMergeKeeps == SortInv /\ EndMerge => SortInv'
<1> SUFFICES ASSUME SortInv, EndMerge PROVE SortInv'
  OBVIOUS
<1> USE DEF SortInv
<1>1. /\ pc = "delete" /\ pc' = "group" /\ group = << >> /\ writer # NoRun
      /\ next_runs' = Append(next_runs, writer) /\ writer' = NoRun
      /\ UNCHANGED <<source, pulled, rows, current, group, out_row, output,
                     next_id, runs, cursors>> /\ Opened' = Opened
  BY DEF EndMerge, pullVars, storeVars, WriterPhase, Opened
<1>2. next_runs \in Seq(Ids) /\ writer \in Ids
  BY <1>1, ListTypes DEF TypeOK, Ids
<1>3. /\ Append(next_runs, writer) \in Seq(Ids)
      /\ ToSet(Append(next_runs, writer)) = ToSet(next_runs) \cup {writer}
      /\ IsInjective(Append(next_runs, writer)) <=>
           IsInjective(next_runs) /\ writer \notin ToSet(next_runs)
  BY <1>2, AppendElements
<1>4. TypeOK'
  BY <1>1, <1>3 DEF TypeOK, Ids
<1>5. Written = {writer} /\ Written' = {}
  BY <1>1 DEF Written
<1>6. Filed'
  BY <1>1, <1>3, <1>5 DEF Filed
<1>7. StoreTyped' /\ ListPhase' /\ RowPhase' /\ CursorPhase'
  BY <1>1 DEF StoreTyped, ListPhase, RowPhase, CursorPhase, Merging
<1>8. WriterPhase'
  <2>1. NoRun \notin DOMAIN runs
    BY SortAssumption DEF TypeOK
  <2> QED BY <1>1, <2>1 DEF WriterPhase
<1> QED BY <1>4, <1>6, <1>7, <1>8

LEMMA NextInMemoryKeeps == SortInv /\ NextInMemory => SortInv'
<1> SUFFICES ASSUME SortInv, NextInMemory PROVE SortInv'
  OBVIOUS
<1> USE DEF SortInv
<1>1. /\ pc = "memory" /\ pc' = "memory" /\ Len(output) < Len(rows)
      /\ output' = Append(output, rows[Len(output) + 1])
      /\ UNCHANGED <<source, pulled, rows, current, next_runs, group, writer, out_row,
                     next_id, runs, cursors>> /\ Opened' = Opened
  BY DEF NextInMemory, pullVars, mergeVars, storeVars, Opened
<1>2. rows[Len(output) + 1] \in RowSet
  BY <1>1, ListTypes, SequenceFacts
<1>3. output' \in Seq(RowSet)
  BY <1>1, <1>2, ListTypes, AppendElements
<1>4. TypeOK'
  BY <1>1, <1>3 DEF TypeOK
<1>5. StoreTyped' /\ Filed' /\ WriterPhase' /\ ListPhase' /\ RowPhase' /\ CursorPhase'
  BY <1>1 DEF StoreTyped, Filed, Written, WriterPhase, ListPhase, RowPhase, CursorPhase, Merging
<1> QED BY <1>4, <1>5

LEMMA NextExternalKeeps == SortInv /\ NextExternal => SortInv'
<1> SUFFICES ASSUME SortInv, NextExternal PROVE SortInv'
  OBVIOUS
<1> USE DEF SortInv
<1>1. PICK i \in Heap : output' = Append(output, cursors[i].row) /\ Runs!NextRow(i)
  BY DEF NextExternal
<1>2. /\ pc = "external" /\ pc' = "external" /\ next_id' = next_id
      /\ UNCHANGED <<source, pulled, rows, current, next_runs, group, writer, out_row>>
  BY DEF NextExternal, pullVars, mergeVars
<1>3. /\ DOMAIN cursors' = DOMAIN cursors /\ Opened' = Opened /\ runs' = runs
      /\ \A j \in DOMAIN cursors : cursors'[j].run = cursors[j].run
      /\ StoreTyped'
  BY <1>1, <1>2, NextRowMoves
<1>4. cursors[i].row \in RowSet
  BY <1>1 DEF Heap, StoreTyped, CursorType, TypeOK
<1>5. output' \in Seq(RowSet)
  BY <1>1, <1>4, ListTypes, AppendElements
<1>6. TypeOK' /\ Filed'
  BY <1>2, <1>3, <1>5 DEF TypeOK, Filed, Written
<1>7. WriterPhase' /\ ListPhase' /\ RowPhase'
  BY <1>2, <1>3 DEF WriterPhase, ListPhase, RowPhase, Merging
<1>8. CursorPhase'
  BY <1>2, <1>3 DEF CursorPhase, Merging, TypeOK
<1> QED BY <1>3, <1>6, <1>7, <1>8

LEMMA StepKeeps == SortInv /\ [Next]_vars => SortInv'
<1> SUFFICES ASSUME SortInv, [Next]_vars PROVE SortInv'
  OBVIOUS
<1>1. CASE UNCHANGED vars
  BY <1>1 DEF vars, pullVars, mergeVars, storeVars, SortInv, TypeOK, StoreTyped, Filed, Written,
              WriterPhase, ListPhase, RowPhase, CursorPhase, Merging, Opened, Spilled
<1>2. CASE NextNone
  BY <1>1, <1>2 DEF NextNone
<1>3. CASE Prepare
  BY <1>3, PushRowKeeps, BeginSpillKeeps, SpillRowKeeps, EndSpillKeeps, SortInMemoryKeeps,
     TurnsKeep, PassThroughKeeps, EndPassKeeps, BeginFinalMergeKeeps, BeginMergeKeeps,
     OpenRunKeeps, PrimeRunKeeps, PopRowKeeps, AppendMergedKeeps, CloseReaderKeeps,
     FinishMergeKeeps, DeleteInputKeeps, EndMergeKeeps DEF Prepare
<1> QED BY <1>1, <1>2, <1>3, NextInMemoryKeeps, NextExternalKeeps DEF Next

\* Every state the sort reaches satisfies the invariant.
THEOREM SortInvariant == Spec => []SortInv
<1> QED BY InitEstablishes, StepKeeps, PTL DEF Spec

\* The state of the sort is well typed.
THEOREM TypeCorrect == Spec => []TypeOK
<1>1. SortInv => TypeOK
  BY DEF SortInv
<1> QED BY <1>1, SortInvariant, PTL

LEMMA ListsAreTheRuns == SortInv => LiveRunsReferenced
<1> SUFFICES ASSUME SortInv PROVE LiveRunsReferenced
  OBVIOUS
<1> DEFINE last == IF writer = NoRun THEN << >> ELSE <<writer>>
<1>1. current \in Seq(Ids) /\ next_runs \in Seq(Ids) /\ group \in Seq(Ids)
  BY ListTypes DEF SortInv
<1>2. last \in Seq(Ids) /\ ToSet(last) = Written /\ IsInjective(last)
  <2>1. CASE writer = NoRun
    BY <2>1, EmptyElements DEF Written
  <2>2. CASE writer # NoRun
    <3>1. writer \in Ids
      BY <2>2 DEF SortInv, TypeOK, Ids
    <3> QED BY <2>2, <3>1, SingletonElements DEF Written
  <2> QED BY <2>1, <2>2
<1> HIDE DEF last
<1> DEFINE a == current \o next_runs
           b == a \o group
<1>3. /\ a \in Seq(Ids) /\ ToSet(a) = ToSet(current) \cup ToSet(next_runs)
      /\ IsInjective(a)
  BY <1>1, ConcatElements DEF SortInv, Filed
<1> HIDE DEF a
<1>4. /\ b \in Seq(Ids) /\ ToSet(b) = ToSet(a) \cup ToSet(group)
      /\ IsInjective(b)
  BY <1>1, <1>3, ConcatElements DEF SortInv, Filed
<1> HIDE DEF b
<1>5. /\ ToSet(b \o last) = ToSet(b) \cup Written
      /\ IsInjective(b \o last)
  BY <1>2, <1>3, <1>4, ConcatElements DEF SortInv, Filed
<1>6. ToSet(b \o last) = DOMAIN runs
  BY <1>3, <1>4, <1>5 DEF SortInv, Filed
<1> QED BY <1>5, <1>6 DEF LiveRunsReferenced, a, b, last

\* A merge leaks no temporary file, and never deletes or reads a run twice.
THEOREM NoRunLost == Spec => []LiveRunsReferenced
<1> QED BY SortInvariant, ListsAreTheRuns, PTL

-----------------------------------------------------------------------------
(* The memory of the sort *)

\* BytesUsed adds the sizes of the rows.
Sizes(s) == [i \in 1..Len(s) |-> RowBytes[s[i]]]

LEMMA BytesAreSummed ==
  ASSUME NEW s \in Seq(RowSet)
  PROVE  \E p : Sums(p, Len(s), Sizes(s)) /\ p[Len(s)] = BytesUsed(s)
<1> DEFINE D == SUBSET DOMAIN s
           IsFold(it) == it = [x \in D |-> IF x = {} THEN 0
                                           ELSE it[x \ {Max(x)}] + RowBytes[s[Max(x)]]]
           fold == CHOOSE it : IsFold(it)
           add == [p \in Nat \X RowSet |-> p[1] + RowBytes[p[2]]]
<1>1. BytesUsed(s) = fold[DOMAIN s]
  BY DEF BytesUsed, FoldLeft, MapThenFoldSet
<1>2. Len(s) \in Nat /\ DOMAIN s = 1..Len(s) /\ \A i \in DOMAIN s : s[i] \in RowSet
  BY SequenceFacts
<1>3. add \in [Nat \X RowSet -> Nat]
  BY SortAssumption
<1>4. ASSUME NEW x \in D, x # {} PROVE Max(x) \in DOMAIN s /\ x \ {Max(x)} \in D
  <2>1. Max(x) \in x
    BY <1>2, <1>4, MaxInSet
  <2> QED BY <2>1
<1>5. PICK it \in [D -> Nat] : Folds(it, add, 0, s)
  <2> HIDE DEF add
  <2> QED BY <1>3, FoldRecursion
<1>6. IsFold(it)
  <2> DEFINE r == [x \in D |-> IF x = {} THEN 0 ELSE it[x \ {Max(x)}] + RowBytes[s[Max(x)]]]
  <2>1. ASSUME NEW x \in D PROVE it[x] = r[x]
    <3>1. CASE x = {}
      BY <1>5, <3>1 DEF Folds
    <3>2. CASE x # {}
      <4>1. it[x \ {Max(x)}] \in Nat /\ s[Max(x)] \in RowSet
        BY <1>2, <1>4, <1>5, <3>2
      <4>2. it[x] = add[<<it[x \ {Max(x)}], s[Max(x)]>>]
        BY <1>5, <3>2 DEF Folds
      <4> QED BY <4>1, <4>2, <3>2
    <3> QED BY <3>1, <3>2
  <2>2. it \in [D -> Nat] /\ r = [x \in D |-> r[x]]
    OBVIOUS
  <2> HIDE DEF r, D
  <2>3. it = r
    BY <2>1, <2>2
  <2> QED BY <2>3 DEF r
<1>7. IsFold(fold)
  <2> HIDE DEF IsFold
  <2> QED BY <1>6
<1> HIDE DEF fold
<1>8. \A x \in D : fold[x] = IF x = {} THEN 0 ELSE fold[x \ {Max(x)}] + RowBytes[s[Max(x)]]
  BY <1>7
<1> DEFINE p == [k \in 0..Len(s) |-> fold[1..k]]
<1>9. p[0] = 0 /\ p[Len(s)] = fold[DOMAIN s]
  <2>1. 1..0 = {} /\ {} \in D
    OBVIOUS
  <2>2. p[0] = fold[{}]
    BY <1>2, <2>1
  <2>3. fold[{}] = 0
    BY <1>8, <2>1
  <2> QED BY <1>2, <2>2, <2>3
<1>10. ASSUME NEW k \in 0..Len(s) - 1 PROVE p[k + 1] = p[k] + RowBytes[s[k + 1]]
  <2>1. k \in Nat /\ k \in 0..Len(s) /\ k + 1 \in 0..Len(s) /\ 1..k + 1 \in D
    BY <1>2
  <2>2. 1..k + 1 # {} /\ Max(1..k + 1) = k + 1 /\ (1..k + 1) \ {k + 1} = 1..k
    BY <2>1, MaxOfPrefix
  <2>3. fold[1..k + 1] = fold[1..k] + RowBytes[s[k + 1]]
    BY <1>8, <2>1, <2>2
  <2> QED BY <2>1, <2>3
<1> HIDE DEF p
<1>11. \A k \in 0..Len(s) : p[k] \in Nat
  <2> DEFINE G == {k \in Nat : k <= Len(s) => p[k] \in Nat}
  <2>1. 0 \in G
    BY <1>9
  <2>2. ASSUME NEW k \in G PROVE k + 1 \in G
    <3>1. k \in Nat /\ k + 1 \in Nat
      BY <2>2
    <3>2. CASE k + 1 <= Len(s)
      <4>1. k \in 0..Len(s) - 1 /\ k + 1 \in 1..Len(s) /\ p[k] \in Nat
        BY <1>2, <2>2, <3>1, <3>2
      <4>2. RowBytes[s[k + 1]] \in Nat
        BY <1>2, <4>1, SortAssumption
      <4> QED BY <1>10, <3>1, <4>1, <4>2
    <3> QED BY <3>1, <3>2
  <2> HIDE DEF G
  <2>3. G = Nat
    <3>1. G \in SUBSET Nat
      BY DEF G
    <3> QED BY <2>1, <2>2, <3>1, SetInduction
  <2> QED BY <1>2, <2>3 DEF G
<1>12. p \in [0..Len(s) -> Nat]
  <2>1. p = [k \in 0..Len(s) |-> p[k]]
    BY DEF p
  <2> QED BY <1>11, <2>1
<1>13. \A k \in 0..Len(s) - 1 : Sizes(s)[k + 1] = RowBytes[s[k + 1]]
  BY <1>2 DEF Sizes
<1>14. Sums(p, Len(s), Sizes(s))
  BY <1>9, <1>10, <1>12, <1>13 DEF Sums
<1> HIDE DEF IsFold
<1> QED BY <1>1, <1>9, <1>14

LEMMA SizesTyped ==
  ASSUME NEW s \in Seq(RowSet)
  PROVE  Len(s) \in Nat /\ Sizes(s) \in [1..Len(s) -> Nat]
<1>1. Len(s) \in Nat /\ \A i \in 1..Len(s) : s[i] \in RowSet
  BY SequenceFacts
<1> QED BY <1>1, SortAssumption DEF Sizes

LEMMA BytesTyped ==
  ASSUME NEW s \in Seq(RowSet)
  PROVE  BytesUsed(s) \in Nat
<1>1. PICK p : Sums(p, Len(s), Sizes(s)) /\ p[Len(s)] = BytesUsed(s)
  BY BytesAreSummed
<1>2. Len(s) \in 0..Len(s)
  BY SizesTyped
<1> QED BY <1>1, <1>2 DEF Sums

\* One more row adds its size.
LEMMA BytesOfAppend ==
  ASSUME NEW s \in Seq(RowSet), NEW row \in RowSet
  PROVE  BytesUsed(Append(s, row)) = BytesUsed(s) + RowBytes[row]
<1> DEFINE t == Append(s, row)
           n == Len(s)
<1>1. t \in Seq(RowSet) /\ Len(t) = n + 1 /\ t[n + 1] = row /\ \A i \in 1..n : t[i] = s[i]
  BY AppendElements
<1>2. n \in Nat
  BY SizesTyped
<1> HIDE DEF t, n
<1>3. PICK p : Sums(p, n + 1, Sizes(t)) /\ p[n + 1] = BytesUsed(t)
  BY <1>1, BytesAreSummed
<1>4. PICK q : Sums(q, n, Sizes(s)) /\ q[n] = BytesUsed(s)
  BY BytesAreSummed DEF n
<1> DEFINE r == [k \in 0..n |-> p[k]]
<1>5. Sums(r, n, Sizes(s))
  <2>1. r \in [0..n -> Nat] /\ r[0] = 0
    BY <1>2, <1>3 DEF Sums
  <2>2. ASSUME NEW k \in 0..n - 1 PROVE r[k + 1] = r[k] + Sizes(s)[k + 1]
    <3>1. k \in 0..n + 1 - 1 /\ k \in 0..n /\ k + 1 \in 0..n /\ k + 1 \in 1..n /\ k + 1 \in 1..n + 1
      BY <1>2
    <3>2. p[k + 1] = p[k] + Sizes(t)[k + 1]
      <4>1. \A j \in 0..n + 1 - 1 : p[j + 1] = p[j] + Sizes(t)[j + 1]
        BY <1>2, <1>3 DEF Sums
      <4> QED BY <3>1, <4>1
    <3>3. Sizes(t)[k + 1] = Sizes(s)[k + 1]
      BY <1>1, <3>1 DEF Sizes, n
    <3> QED BY <3>1, <3>2, <3>3
  <2> HIDE DEF r
  <2> QED BY <2>1, <2>2 DEF Sums
<1>6. r[n] = q[n]
  <2> HIDE DEF r
  <2> QED BY <1>2, <1>4, <1>5, SumsUnique
<1>7. p[n + 1] = p[n] + Sizes(t)[n + 1]
  <2>1. n \in 0..n + 1 - 1
    BY <1>2
  <2> QED BY <1>3, <2>1 DEF Sums
<1>8. Sizes(t)[n + 1] = RowBytes[row] /\ r[n] = p[n]
  BY <1>1, <1>2 DEF Sizes
<1> QED BY <1>3, <1>4, <1>6, <1>7, <1>8 DEF t

\* Sorting the buffer does not change its size.
LEMMA BytesOfSort ==
  ASSUME NEW s \in Seq(RowSet), NEW t \in SortsOf(s)
  PROVE  BytesUsed(t) = BytesUsed(s)
<1> DEFINE n == Len(s)
<1>1. t \in Seq(RowSet) /\ Len(t) = n /\ n \in Nat /\ ToBag(t) = ToBag(s)
  BY SortsAreSequences, SizesTyped DEF SortsOf
<1>2. PICK pi : Permutation(pi, n) /\ \A i \in 1..n : t[i] = s[pi[i]]
  <2>1. /\ t \in Seq(RowSet) /\ ToBag(t) = ToBag(s) /\ Len(t) = Len(s)
    BY <1>1
  <2> QED BY <2>1, SameBagPermutes DEF Rearranges
<1>3. PICK p : Sums(p, n, Sizes(s)) /\ p[n] = BytesUsed(s)
  BY BytesAreSummed
<1>4. PICK q : Sums(q, n, Sizes(t)) /\ q[n] = BytesUsed(t)
  BY <1>1, BytesAreSummed
<1>5. Sizes(t) = [i \in 1..n |-> Sizes(s)[pi[i]]]
  <2>1. \A i \in 1..n : pi[i] \in 1..n
    BY <1>2 DEF Permutation
  <2> QED BY <1>1, <1>2, <2>1 DEF Sizes
<1>6. Sizes(s) \in [1..n -> Nat]
  BY SizesTyped
<1> HIDE DEF n
<1>7. p[n] = q[n]
  <2>1. \A h \in [1..n -> Nat] : \A b, c, d :
          Permutation(b, n) /\ Sums(c, n, h) /\ Sums(d, n, [i \in 1..n |-> h[b[i]]])
            => c[n] = d[n]
    BY <1>1, SumPermuted
  <2>2. PICK h \in [1..n -> Nat] : h = Sizes(s)
    BY <1>6
  <2>3. \A b, c, d :
          Permutation(b, n) /\ Sums(c, n, h) /\ Sums(d, n, [i \in 1..n |-> h[b[i]]])
            => c[n] = d[n]
    BY <2>1
  <2>4. Sums(p, n, h)
    BY <1>3, <2>2
  <2>5. Sums(q, n, [i \in 1..n |-> h[pi[i]]])
    BY <1>4, <1>5, <2>2
  <2>6. Permutation(pi, n)
    BY <1>2
  <2> QED BY <2>3, <2>4, <2>5, <2>6, Zenon
<1> QED BY <1>3, <1>4, <1>7

\* The capacity of a Vec is a number.
LEMMA CapacityTyped == \A n \in Nat : Capacity[n] \in Nat
<1> DEFINE Grown(n, cap) == IF n < cap THEN cap ELSE IF cap = 0 THEN 4 ELSE 2 * cap
           step == [x \in Nat \X Nat |-> Grown(x[2], x[1])]
           Eq(c) == c = [n \in Nat |-> IF n = 0 THEN 0 ELSE Grown(n - 1, c[n - 1])]
<1>1. step \in [Nat \X Nat -> Nat]
  OBVIOUS
<1>2. PICK f \in [Nat -> Nat] : Iterates(f, 0, step)
  <2> HIDE DEF step
  <2> QED BY <1>1, NaturalRecursion
<1>3. Eq(f)
  <2> DEFINE r == [n \in Nat |-> IF n = 0 THEN 0 ELSE Grown(n - 1, f[n - 1])]
  <2>1. ASSUME NEW n \in Nat PROVE f[n] = r[n]
    <3>1. CASE n = 0
      BY <1>2, <3>1 DEF Iterates
    <3>2. CASE n # 0
      <4>1. n - 1 \in Nat /\ n - 1 + 1 = n
        BY <3>2
      <4>2. f[n] = step[<<f[n - 1], n - 1>>]
        BY <1>2, <4>1 DEF Iterates
      <4>3. f[n - 1] \in Nat
        BY <4>1
      <4>4. step[<<f[n - 1], n - 1>>] = Grown(n - 1, f[n - 1])
        BY <4>1, <4>3
      <4> HIDE DEF step, Grown
      <4> QED BY <3>2, <4>2, <4>4
    <3> QED BY <3>1, <3>2
  <2>2. f \in [Nat -> Nat] /\ r = [n \in Nat |-> r[n]]
    OBVIOUS
  <2> HIDE DEF r
  <2>3. f = r
    BY <2>1, <2>2
  <2> QED BY <2>3 DEF r
<1>4. Eq(Capacity)
  <2>1. Capacity = CHOOSE c : Eq(c)
    BY DEF Capacity
  <2> HIDE DEF Eq
  <2> QED BY <1>3, <2>1
<1> DEFINE G == {n \in Nat : Capacity[n] \in Nat}
<1>5. 0 \in G
  BY <1>4
<1>6. ASSUME NEW n \in G PROVE n + 1 \in G
  <2>1. n \in Nat /\ n + 1 \in Nat /\ n + 1 # 0 /\ n + 1 - 1 = n /\ Capacity[n] \in Nat
    BY <1>6
  <2>2. Capacity[n + 1] = Grown(n, Capacity[n])
    BY <1>4, <2>1
  <2>3. Grown(n, Capacity[n]) \in Nat
    BY <2>1
  <2> QED BY <2>1, <2>2, <2>3
<1> HIDE DEF G
<1>7. G = Nat
  <2>1. G \in SUBSET Nat
    BY DEF G
  <2> QED BY <1>5, <1>6, <2>1, SetInduction
<1> QED BY <1>7 DEF G

\* The rows buffered beside another one, with the Vec that holds them, are below
\* the budget of prepare.
RowsBelowBudget ==
  pc \in {"pull", "spill"} /\ Len(rows) > 1 =>
    BytesUsed(rows) + Capacity[Len(rows)] * RowSlotBytes < RowBudget

LEMMA RowsStayBelowBudget ==
  SortInv /\ RowsBelowBudget /\ [Next]_vars => RowsBelowBudget'
<1> SUFFICES ASSUME SortInv, RowsBelowBudget, [Next]_vars PROVE RowsBelowBudget'
  OBVIOUS
<1>1. rows \in Seq(RowSet) /\ Len(rows) \in Nat
  BY ListTypes DEF SortInv
<1>2. CASE PushRow
  <2> DEFINE row == source[pulled + 1]
  <2>1. /\ rows' = Append(rows, row) /\ pulled < Len(source)
        /\ rows = << >> \/ ~ (Projected(row) >= RowBudget)
    BY <1>2 DEF PushRow, BudgetReached
  <2>2. row \in RowSet
    <3>1. pulled + 1 \in 1..Len(source)
      BY <2>1, ListTypes DEF SortInv
    <3> QED BY <3>1, ListTypes, SequenceFacts DEF SortInv
  <2>3. /\ Len(rows') = Len(rows) + 1 /\ BytesUsed(rows') = BytesUsed(rows) + RowBytes[row]
    BY <1>1, <2>1, <2>2, AppendElements, BytesOfAppend
  <2>4. CASE rows = << >>
    <3>1. Len(rows') = 1
      BY <2>3, <2>4
    <3> QED BY <3>1 DEF RowsBelowBudget
  <2>5. CASE ~ (Projected(row) >= RowBudget)
    <3> DEFINE need == BytesUsed(rows) + RowBytes[row]
               slots == Capacity[Len(rows) + 1] * RowSlotBytes
    <3>1. need \in Nat /\ slots \in Nat /\ RowBudget \in Nat
      <4>1. Capacity[Len(rows) + 1] \in Nat
        BY <1>1, CapacityTyped
      <4>2. BytesUsed(rows) \in Nat /\ RowBytes[row] \in Nat
        BY <1>1, <2>2, BytesTyped, SortAssumption
      <4> QED BY <4>1, <4>2, BudgetTypes DEF RowSlotBytes
    <3>2. ~ (need + slots >= RowBudget)
      BY <2>5 DEF Projected
    <3> HIDE DEF need, slots
    <3>3. need + slots < RowBudget
      BY <3>1, <3>2
    <3>4. BytesUsed(rows') + Capacity[Len(rows')] * RowSlotBytes < RowBudget
      BY <2>3, <3>3 DEF need, slots
    <3> QED BY <3>4 DEF RowsBelowBudget
  <2> QED BY <2>1, <2>4, <2>5
<1>3. CASE BeginSpill
  <2>1. rows' \in SortsOf(rows) /\ pc = "pull"
    BY <1>3 DEF BeginSpill
  <2>2. Len(rows') = Len(rows) /\ BytesUsed(rows') = BytesUsed(rows)
    BY <1>1, <2>1, SortsAreSequences, BytesOfSort
  <2> QED BY <2>1, <2>2 DEF RowsBelowBudget
<1>4. CASE SpillRow \/ UNCHANGED vars
  BY <1>4 DEF SpillRow, RowsBelowBudget, vars, pullVars
<1>5. CASE EndSpill
  <2>1. Len(rows') = 0
    BY <1>5, EmptyElements DEF EndSpill
  <2> QED BY <2>1 DEF RowsBelowBudget
<1>6. CASE pc' \notin {"pull", "spill"}
  BY <1>6 DEF RowsBelowBudget
<1>7. [Next]_vars => \/ PushRow \/ BeginSpill \/ SpillRow \/ UNCHANGED vars \/ EndSpill
                     \/ pc' \notin {"pull", "spill"}
  BY DEF Next, Prepare, SortInMemory, EndOfInput, BeginPass, PassThrough, EndPass,
         BeginFinalMerge, BeginMerge, OpenRun, PrimeRun, AllOpened, PopRow, AppendMerged,
         EndOfRuns, CloseReader, FinishMerge, DeleteInput, EndMerge, NextInMemory,
         NextExternal, NextNone
<1> QED BY <1>2, <1>3, <1>4, <1>5, <1>6, <1>7

LEMMA ReaderPagesTyped ==
  ASSUME NEW n \in Nat
  PROVE  /\ ReaderPages(n) \in Nat
         /\ n > 0 => LET fit == ReaderBudget \div (n * BlockSize) IN
              /\ fit \in Nat /\ fit * (n * BlockSize) <= ReaderBudget
              /\ ReaderPages(n) <= IF fit = 0 THEN 1 ELSE fit
<1> DEFINE fit == ReaderBudget \div (n * BlockSize)
           atLeastOne == Max({1, fit})
<1>1. BlockSize \in Nat \ {0} /\ ReaderBudget \in Nat
  BY SortAssumption, BudgetTypes
<1>2. CASE n = 0
  BY <1>2 DEF ReaderPages
<1>3. CASE n > 0
  <2>1. n * BlockSize \in Nat \ {0}
    BY <1>1, <1>3
  <2>2. fit \in Nat /\ fit * (n * BlockSize) <= ReaderBudget
    BY <1>1, <2>1, DivType
  <2>3. ReaderPages(n) = Min({512, atLeastOne})
    BY <1>3 DEF ReaderPages, MaxReaderPages
  <2> HIDE DEF fit
  <2>4. atLeastOne = IF fit = 0 THEN 1 ELSE fit
    <3>1. 1 \in Int /\ fit \in Int
      BY <2>2
    <3>2. Max({1, fit}) = IF 1 <= fit THEN fit ELSE 1
      BY <3>1, MaxOfTwo
    <3> QED BY <2>2, <3>2
  <2>5. atLeastOne \in Nat
    BY <2>2, <2>4
  <2> HIDE DEF atLeastOne
  <2>6. ReaderPages(n) \in Nat /\ ReaderPages(n) <= atLeastOne
    <3>1. Min({512, atLeastOne}) = IF 512 <= atLeastOne THEN 512 ELSE atLeastOne
      <4>1. 512 \in Int /\ atLeastOne \in Int
        BY <2>5
      <4> QED BY <4>1, MaxOfTwo
    <3> QED BY <2>3, <2>5, <3>1
  <2> QED BY <2>2, <2>4, <2>6 DEF fit
<1> QED BY <1>2, <1>3

\* The batches of the readers of a merge fit in the reader budget.
LEMMA ReadersShareBudget ==
  ASSUME NEW n \in Nat, n <= FanIn, 2 * BlockSize <= ReaderBudget
  PROVE  /\ ReaderPages(n) \in Nat
         /\ ReaderPages(n) * BlockSize \in Nat
         /\ n * (ReaderPages(n) * BlockSize) <= ReaderBudget
<1>1. BlockSize \in Nat \ {0} /\ ReaderBudget \in Nat /\ FanIn \in Nat /\ FanIn >= 2
  BY SortAssumption, BudgetTypes
<1>2. PICK pages \in Nat : pages = ReaderPages(n)
  BY ReaderPagesTyped
<1>3. CASE n = 0
  <2>1. pages * BlockSize \in Nat
    BY <1>1
  <2>2. n * (pages * BlockSize) = 0
    BY <1>3, <2>1
  <2> QED BY <1>1, <1>2, <2>1, <2>2
<1>4. CASE n > 0
  <2>1. PICK fit \in Nat :
          /\ fit * (n * BlockSize) <= ReaderBudget
          /\ pages <= IF fit = 0 THEN 1 ELSE fit
    BY <1>2, <1>4, ReaderPagesTyped
  <2>2. n * BlockSize \in Nat /\ n * (pages * BlockSize) = pages * (n * BlockSize)
    BY <1>1
  <2>3. \A a, b, c \in Nat : a <= b => a * c <= b * c
    OBVIOUS
  <2>4. CASE fit # 0
    <3>1. pages <= fit
      BY <2>1, <2>4
    <3>2. pages * (n * BlockSize) <= fit * (n * BlockSize)
      BY <2>2, <2>3, <3>1
    <3>3. pages * (n * BlockSize) \in Nat /\ fit * (n * BlockSize) \in Nat
      BY <2>2
    <3> QED BY <1>1, <1>2, <2>1, <2>2, <3>2, <3>3
  <2>5. CASE fit = 0
    <3>1. pages <= 1
      BY <2>1, <2>5
    <3>2. pages * (n * BlockSize) <= n * BlockSize
      <4>1. pages * (n * BlockSize) <= 1 * (n * BlockSize)
        BY <2>2, <2>3, <3>1
      <4> QED BY <2>2, <4>1
    <3>3. n * BlockSize <= FanIn * BlockSize
      BY <1>1, <2>3
    <3>4. FanIn * BlockSize <= ReaderBudget
      <4>1. CASE FanIn > 2
        <5>1. FanIn * MinReaderPages * BlockSize <= ReaderBudget
          BY <4>1, BudgetTypes
        <5>2. FanIn * MinReaderPages * BlockSize = 8 * (FanIn * BlockSize)
          BY <1>1 DEF MinReaderPages
        <5>3. FanIn * BlockSize \in Nat
          BY <1>1
        <5> QED BY <1>1, <5>1, <5>2, <5>3
      <4>2. CASE FanIn = 2
        BY <1>1, <4>2
      <4> QED BY <1>1, <4>1, <4>2
    <3>5. pages * (n * BlockSize) \in Nat /\ FanIn * BlockSize \in Nat
      BY <1>1, <2>2
    <3> QED BY <1>1, <1>2, <2>2, <3>2, <3>3, <3>4, <3>5
  <2> QED BY <2>4, <2>5
<1> QED BY <1>3, <1>4

LEMMA BudgetsBoundMemory == SortInv /\ RowsBelowBudget => MemoryWithinBudget
<1> SUFFICES ASSUME SortInv, RowsBelowBudget PROVE MemoryWithinBudget
  OBVIOUS
<1>1. rows \in Seq(RowSet) /\ Len(rows) \in Nat /\ Len(group) \in Nat
  BY ListTypes DEF SortInv
<1>2. SortRunBytes \in Nat /\ BlockSize \in Nat \ {0} /\ SpillBatchPages \in Nat
  BY SortAssumption, BudgetTypes
<1> DEFINE writing == (SpillBatchPages + 1) * BlockSize
           used == BytesUsed(rows) + Capacity[Len(rows)] * RowSlotBytes
<1>3. writing \in Nat
  BY <1>2
<1>4. used \in Nat
  <2>1. Capacity[Len(rows)] \in Nat /\ BytesUsed(rows) \in Nat
    BY <1>1, CapacityTyped, BytesTyped
  <2> QED BY <2>1 DEF RowSlotBytes
<1>5. ASSUME Len(rows) > 1, pc \in {"pull", "spill"}, RowBudget > BlockSize
      PROVE  used + writing <= SortRunBytes - MiscReserveBytes
  <2>1. used < RowBudget
    BY <1>5 DEF RowsBelowBudget
  <2>2. RowBudget = SortRunBytes - WriterReserve
    <3> DEFINE left == IF SortRunBytes > WriterReserve THEN SortRunBytes - WriterReserve ELSE 0
    <3>1. left \in Nat
      BY <1>2, BudgetTypes
    <3>2. RowBudget = Max({BlockSize, left})
      BY DEF RowBudget
    <3>3. RowBudget = left
      <4> HIDE DEF left
      <4> QED BY <1>2, <1>5, <3>1, <3>2, MaxOfTwo
    <3> QED BY <1>2, <1>5, <3>3
  <2>3. WriterReserve = writing + MiscReserveBytes
    BY DEF WriterReserve
  <2> HIDE DEF used, writing
  <2> QED BY <1>2, <1>3, <1>4, <2>1, <2>2, <2>3 DEF MiscReserveBytes
<1>6. Opened \in Nat /\ Opened <= FanIn /\ FanIn \in Nat
  BY <1>1, BudgetTypes DEF SortInv, StoreTyped, CursorPhase
<1>7. ASSUME 2 * BlockSize <= ReaderBudget PROVE ReaderBytes <= ReaderBudget
  <2>1. CASE Merging
    <3>1. Opened <= Len(group) /\ Len(group) <= FanIn
      BY <2>1 DEF SortInv, CursorPhase
    <3> DEFINE each == ReaderPages(Len(group)) * BlockSize
    <3>2. each \in Nat /\ Len(group) * each <= ReaderBudget
      BY <1>1, <1>7, <3>1, ReadersShareBudget
    <3>3. ReaderBytes = Opened * each
      <4>1. ReaderPages(Len(group)) \in Nat
        BY <1>1, <1>7, <3>1, ReadersShareBudget
      <4> QED BY <1>2, <1>6, <4>1 DEF ReaderBytes
    <3> HIDE DEF each
    <3>4. Opened * each <= Len(group) * each /\ Opened * each \in Nat /\ Len(group) * each \in Nat
      BY <1>1, <1>6, <3>1, <3>2
    <3> QED BY <3>2, <3>3, <3>4, BudgetTypes
  <2>2. CASE ~Merging
    <3>1. Opened = 0 /\ Len(group) \in Nat /\ 0 <= FanIn
      BY <1>1, <1>6, <2>2 DEF SortInv, CursorPhase
    <3>2. ReaderBytes = 0
      BY <1>1, <1>2, <3>1, ReaderPagesTyped DEF ReaderBytes
    <3> QED BY <3>2, BudgetTypes
  <2> QED BY <2>1, <2>2
<1> QED BY <1>5, <1>6, <1>7 DEF MemoryWithinBudget

\* The rows that wait to be sorted, the Vec they are in and the pages of the writer
\* stay below sort_run_bytes, and the readers of a merge below theirs, whatever the
\* sizes of rows and blocks.
THEOREM MemoryBounded == Spec => []MemoryWithinBudget
<1>1. Init => RowsBelowBudget
  BY EmptyElements DEF Init, RowsBelowBudget
<1>2. Spec => []RowsBelowBudget
  <2>1. SortInv /\ SortInv' /\ RowsBelowBudget /\ [Next]_vars => RowsBelowBudget'
    BY RowsStayBelowBudget
  <2> QED BY <1>1, <2>1, SortInvariant, PTL DEF Spec
<1> QED BY <1>2, SortInvariant, BudgetsBoundMemory, PTL

-----------------------------------------------------------------------------
(* The order of the rows *)

LEMMA KeyValues ==
  /\ DOMAIN SortKeys = 1..Len(SortKeys) /\ Len(SortKeys) \in Nat
  /\ \A row \in RowSet, k \in 1..Len(SortKeys) : row[SortKeys[k].idx] \in Int
<1>1. SortKeys \in Seq([idx : Nat, ascending : BOOLEAN])
  BY SortAssumption
<1>2. DOMAIN SortKeys = 1..Len(SortKeys) /\ Len(SortKeys) \in Nat
  BY <1>1, SequenceFacts
<1> QED BY <1>2, SortAssumption

\* One key orders the rows by their values in its column.
LEMMA KeyOrder ==
  ASSUME NEW k \in 1..Len(SortKeys), NEW a \in RowSet, NEW b \in RowSet, NEW c \in RowSet
  PROVE  LET key == SortKeys[k]
             Same(x, y) == x[key.idx] = y[key.idx]
         IN /\ KeyLess(key, a, b) => ~ KeyLess(key, b, a)
            /\ Same(a, b) => ~ KeyLess(key, a, b)
            /\ Same(a, b) \/ KeyLess(key, a, b) \/ KeyLess(key, b, a)
            /\ KeyLess(key, a, b) /\ KeyLess(key, b, c) => KeyLess(key, a, c)
            /\ Same(a, b) => (KeyLess(key, a, c) <=> KeyLess(key, b, c))
            /\ Same(a, b) => (KeyLess(key, c, a) <=> KeyLess(key, c, b))
<1> DEFINE va == a[SortKeys[k].idx]
           vb == b[SortKeys[k].idx]
           vc == c[SortKeys[k].idx]
<1>1. va \in Int /\ vb \in Int /\ vc \in Int
  BY KeyValues
<1> QED BY <1>1 DEF KeyLess

\* RowLess is asymmetric.
LEMMA RowLessAsymmetric ==
  ASSUME NEW a \in RowSet, NEW b \in RowSet, RowLess(a, b)
  PROVE  ~ RowLess(b, a)
<1> SUFFICES ASSUME RowLess(b, a) PROVE FALSE
  OBVIOUS
<1>1. PICK k \in 1..Len(SortKeys) :
        /\ KeyLess(SortKeys[k], a, b)
        /\ \A j \in 1..k - 1 : a[SortKeys[j].idx] = b[SortKeys[j].idx]
  BY KeyValues DEF RowLess
<1>2. PICK m \in 1..Len(SortKeys) :
        /\ KeyLess(SortKeys[m], b, a)
        /\ \A j \in 1..m - 1 : b[SortKeys[j].idx] = a[SortKeys[j].idx]
  BY KeyValues DEF RowLess
<1>3. k \in Nat /\ m \in Nat
  BY KeyValues
<1>4. ~ (k < m)
  <2>1. k < m => k \in 1..m - 1
    BY <1>3
  <2> QED BY <1>1, <1>2, <2>1, KeyOrder
<1>5. ~ (m < k)
  <2>1. m < k => m \in 1..k - 1
    BY <1>3
  <2> QED BY <1>1, <1>2, <2>1, KeyOrder
<1>6. k = m
  BY <1>3, <1>4, <1>5
<1> QED BY <1>1, <1>2, <1>6, KeyOrder

\* A third row is on one side of two rows that differ: the order has no gaps.
LEMMA RowLessSplits ==
  ASSUME NEW a \in RowSet, NEW b \in RowSet, NEW c \in RowSet, RowLess(a, c)
  PROVE  RowLess(a, b) \/ RowLess(b, c)
<1> DEFINE Same(j, x, y) == x[SortKeys[j].idx] = y[SortKeys[j].idx]
<1>1. PICK k \in 1..Len(SortKeys) :
        /\ KeyLess(SortKeys[k], a, c)
        /\ \A j \in 1..k - 1 : Same(j, a, c)
  BY KeyValues DEF RowLess
<1>2. k \in Nat
  BY KeyValues
<1> DEFINE T == {j \in 1..k - 1 : ~ Same(j, a, b)}
<1>3. CASE T = {}
  <2>1. \A j \in 1..k - 1 : Same(j, a, b)
    BY <1>3
  <2>2. \A j \in 1..k - 1 : Same(j, b, c)
    BY <1>1, <2>1
  <2>3. KeyLess(SortKeys[k], a, b) \/ KeyLess(SortKeys[k], b, c)
    <3>1. Same(k, a, b) \/ KeyLess(SortKeys[k], a, b) \/ KeyLess(SortKeys[k], b, a)
      BY KeyOrder
    <3>2. Same(k, a, b) => KeyLess(SortKeys[k], b, c)
      BY <1>1, KeyOrder
    <3>3. KeyLess(SortKeys[k], b, a) => KeyLess(SortKeys[k], b, c)
      BY <1>1, KeyOrder
    <3> QED BY <3>1, <3>2, <3>3
  <2> QED BY <2>1, <2>2, <2>3, KeyValues DEF RowLess
<1>4. CASE T # {}
  <2>1. T \in SUBSET Nat
    BY <1>2
  <2>2. PICK m \in T : \A j \in T : m <= j
    <3> HIDE DEF T
    <3> QED BY <1>4, <2>1, LeastNatural
  <2>3. m \in 1..k - 1 /\ ~ Same(m, a, b) /\ Same(m, a, c) /\ m \in 1..Len(SortKeys)
    BY <1>1, <1>2, KeyValues
  <2>4. \A j \in 1..m - 1 : Same(j, a, b) /\ Same(j, b, c)
    <3>1. ASSUME NEW j \in 1..m - 1 PROVE Same(j, a, b) /\ Same(j, b, c)
      <4>1. j \in 1..k - 1 /\ ~ (m <= j)
        BY <1>2, <2>3
      <4>2. Same(j, a, b)
        BY <2>2, <4>1
      <4> QED BY <1>1, <4>1, <4>2
    <3> QED BY <3>1
  <2>5. KeyLess(SortKeys[m], a, b) \/ KeyLess(SortKeys[m], b, c)
    <3>1. KeyLess(SortKeys[m], a, b) \/ KeyLess(SortKeys[m], b, a)
      BY <2>3, KeyOrder
    <3>2. KeyLess(SortKeys[m], b, a) => KeyLess(SortKeys[m], b, c)
      BY <2>3, KeyOrder
    <3> QED BY <3>1, <3>2
  <2> HIDE DEF T
  <2> QED BY <2>3, <2>4, <2>5, KeyValues DEF RowLess
<1> QED BY <1>3, <1>4

LEMMA InOrderTransitive ==
  ASSUME NEW a \in RowSet, NEW b \in RowSet, NEW c \in RowSet, InOrder(a, b), InOrder(b, c)
  PROVE  InOrder(a, c)
  BY RowLessSplits DEF InOrder

LEMMA OnTopInOrder ==
  ASSUME SortInv, NEW i, OnTop(i), NEW j \in Heap
  PROVE  InOrder(cursors[i].row, cursors[j].row)
<1>1. \A k \in Heap : cursors[k].row \in RowSet
  BY DEF Heap, SortInv, StoreTyped, CursorType, TypeOK
<1>2. i \in Heap
  BY DEF OnTop
<1>3. CASE j = i
  BY <1>1, <1>2, <1>3, RowLessAsymmetric DEF InOrder
<1>4. CASE j # i
  <2>1. \/ RowLess(cursors[i].row, cursors[j].row)
        \/ ~ RowLess(cursors[j].row, cursors[i].row)
    BY <1>4 DEF OnTop
  <2> QED BY <1>1, <1>2, <2>1, RowLessAsymmetric DEF InOrder
<1> QED BY <1>3, <1>4

-----------------------------------------------------------------------------
(* Where the rows pulled from the source are *)

Sorted(s) == \A i, j \in 1..Len(s) : i < j => InOrder(s[i], s[j])

\* The rows cursor i has not delivered, with the one in the heap.
Remains(i) ==
  IF cursors[i].row = NoRow THEN Len(cursors[i].rest) ELSE Len(cursors[i].rest) + 1

\* The k-th row buffered is in no run and has not been delivered.
InBuffer(k) ==
  /\ k \in 1..Len(rows)
  /\ pc = "spill" => k > Spilled
  /\ pc = "memory" => k > Len(output)

\* The k-th row of run f has not been taken by a merge.
InRun(f, k) ==
  /\ f \in DOMAIN runs /\ k \in 1..Len(runs[f].rows)
  /\ ~ (f \in ToSet(group) /\ pc \in {"close", "delete"})
  /\ \A i \in 1..Opened : group[i] = f => k > Len(runs[f].rows) - Remains(i)

Kinds == {"buffer", "run", "out", "output"}

Holds(kind, f, k) ==
  \/ kind = "buffer" /\ f = 0 /\ InBuffer(k)
  \/ kind = "run" /\ InRun(f, k)
  \/ kind = "out" /\ f = 0 /\ k = 0 /\ out_row # NoRow
  \/ kind = "output" /\ f = 0 /\ k \in 1..Len(output)

Value(kind, f, k) ==
  IF kind = "buffer" THEN rows[k]
  ELSE IF kind = "run" THEN runs[f].rows[k]
  ELSE IF kind = "out" THEN out_row ELSE output[k]

Places == {p \in Kinds \X Nat \X Nat : Holds(p[1], p[2], p[3])}

Held == [p \in Places |-> Value(p[1], p[2], p[3])]

\* Every row pulled is in one place: none is lost and none is there twice.
RowsTraced == Traced(Places, Held, source, pulled)

LEMMA PlaceFacts ==
  /\ \A x \in Kinds, f \in Nat, k \in Nat :
       /\ <<x, f, k>> \in Places <=> Holds(x, f, k)
       /\ <<x, f, k>> \in Places => Held[<<x, f, k>>] = Value(x, f, k)
  /\ \A p \in Places : \E x \in Kinds, f \in Nat, k \in Nat : p = <<x, f, k>>
  BY DEF Places, Held

\* The places of the next state, when they hold what they held.
LEMMA RowsStay ==
  ASSUME RowsTraced, source' = source, pulled' = pulled,
         \A x \in Kinds, f \in Nat, k \in Nat :
           /\ Holds(x, f, k)' <=> Holds(x, f, k)
           /\ Holds(x, f, k) => Value(x, f, k)' = Value(x, f, k)
  PROVE  RowsTraced'
<1>1. Places' = Places
  BY DEF Places
<1>2. Held' = Held
  <2>1. \A p \in Places : Value(p[1], p[2], p[3])' = Value(p[1], p[2], p[3])
    BY DEF Places
  <2> QED BY <1>1, <2>1 DEF Held
<1> QED BY <1>1, <1>2 DEF RowsTraced

\* One row moves from a place to another.
Moved(xa, fa, ka, xb, fb, kb) ==
  /\ xa \in Kinds /\ fa \in Nat /\ ka \in Nat /\ Holds(xa, fa, ka)
  /\ xb \in Kinds /\ fb \in Nat /\ kb \in Nat /\ ~ Holds(xb, fb, kb)
  /\ \A x \in Kinds, f \in Nat, k \in Nat :
       /\ Holds(x, f, k)' <=> \/ Holds(x, f, k) /\ ~ (x = xa /\ f = fa /\ k = ka)
                              \/ x = xb /\ f = fb /\ k = kb
       /\ Holds(x, f, k) /\ Holds(x, f, k)' => Value(x, f, k)' = Value(x, f, k)
  /\ Value(xb, fb, kb)' = Value(xa, fa, ka)

LEMMA RowMoves ==
  ASSUME RowsTraced, source' = source, pulled' = pulled,
         NEW xa, NEW fa, NEW ka, NEW xb, NEW fb, NEW kb, Moved(xa, fa, ka, xb, fb, kb)
  PROVE  RowsTraced'
<1> USE DEF Moved
<1> DEFINE a == <<xa, fa, ka>>
           b == <<xb, fb, kb>>
<1>1. a \in Places /\ b \notin Places
  BY PlaceFacts
<1>2. Places' = (Places \ {a}) \cup {b}
  <2>1. ASSUME NEW p \in Kinds \X Nat \X Nat
        PROVE  p \in Places' <=> (p \in Places /\ p # a) \/ p = b
    <3>1. p = <<p[1], p[2], p[3]>> /\ p[1] \in Kinds /\ p[2] \in Nat /\ p[3] \in Nat
      OBVIOUS
    <3>2. /\ p = a <=> p[1] = xa /\ p[2] = fa /\ p[3] = ka
          /\ p = b <=> p[1] = xb /\ p[2] = fb /\ p[3] = kb
      BY <3>1
    <3>3. (p \in Places <=> Holds(p[1], p[2], p[3])) /\ (p \in Places' <=> Holds(p[1], p[2], p[3])')
      BY DEF Places
    <3> HIDE DEF a, b
    <3> QED BY <3>1, <3>2, <3>3
  <2>2. Places \subseteq Kinds \X Nat \X Nat /\ Places' \subseteq Kinds \X Nat \X Nat
    BY DEF Places
  <2>3. b \in Kinds \X Nat \X Nat
    OBVIOUS
  <2> HIDE DEF b, a
  <2> QED BY <2>1, <2>2, <2>3
<1>3. Held'[b] = Held[a]
  <2>1. b \in Places'
    BY <1>2
  <2>2. Held'[b] = Value(xb, fb, kb)'
    BY <2>1 DEF Held
  <2>3. Held[a] = Value(xa, fa, ka)
    BY <1>1, PlaceFacts
  <2> QED BY <2>2, <2>3
<1>4. \A p \in Places \ {a} : Held'[p] = Held[p]
  <2>1. ASSUME NEW p \in Places \ {a} PROVE Held'[p] = Held[p]
    <3>1. p \in Places' /\ p \in Places
      BY <1>2
    <3>2. /\ p[1] \in Kinds /\ p[2] \in Nat /\ p[3] \in Nat
          /\ Holds(p[1], p[2], p[3]) /\ Holds(p[1], p[2], p[3])'
      BY <3>1 DEF Places
    <3>3. Held'[p] = Value(p[1], p[2], p[3])' /\ Held[p] = Value(p[1], p[2], p[3])
      BY <3>1 DEF Held
    <3> QED BY <3>2, <3>3
  <2> QED BY <2>1
<1> DEFINE P2 == Places'
           at2 == Held'
<1>5. P2 = (Places \ {a}) \cup {b} /\ at2[b] = Held[a] /\ \A p \in Places \ {a} : at2[p] = Held[p]
  BY <1>2, <1>3, <1>4
<1> HIDE DEF a, b, P2, at2
<1>6. Traced(P2, at2, source, pulled)
  BY <1>1, <1>5, TraceMoved DEF RowsTraced
<1> QED BY <1>6 DEF RowsTraced, P2, at2

\* One more row of the source is buffered.
LEMMA RowAdded ==
  ASSUME RowsTraced, source' = source, pulled \in Nat, pulled' = pulled + 1,
         NEW kb \in Nat, ~ Holds("buffer", 0, kb),
         \A x \in Kinds, f \in Nat, k \in Nat :
           /\ Holds(x, f, k)' <=> Holds(x, f, k) \/ (x = "buffer" /\ f = 0 /\ k = kb)
           /\ Holds(x, f, k) => Value(x, f, k)' = Value(x, f, k),
         Value("buffer", 0, kb)' = source[pulled + 1]
  PROVE  RowsTraced'
<1> DEFINE b == <<"buffer", 0, kb>>
<1>1. b \notin Places /\ b \in Kinds \X Nat \X Nat
  BY PlaceFacts DEF Kinds
<1>2. Places' = Places \cup {b}
  <2>1. ASSUME NEW p \in Kinds \X Nat \X Nat
        PROVE  p \in Places' <=> p \in Places \/ p = b
    <3>1. p = <<p[1], p[2], p[3]>> /\ p[1] \in Kinds /\ p[2] \in Nat /\ p[3] \in Nat
      OBVIOUS
    <3>2. p = b <=> p[1] = "buffer" /\ p[2] = 0 /\ p[3] = kb
      BY <3>1
    <3>3. (p \in Places <=> Holds(p[1], p[2], p[3])) /\ (p \in Places' <=> Holds(p[1], p[2], p[3])')
      BY DEF Places
    <3> HIDE DEF b
    <3> QED BY <3>1, <3>2, <3>3
  <2>2. Places \subseteq Kinds \X Nat \X Nat /\ Places' \subseteq Kinds \X Nat \X Nat
    BY DEF Places
  <2> HIDE DEF b
  <2> QED BY <1>1, <2>1, <2>2
<1>3. Held'[b] = source[pulled + 1]
  <2>1. b \in Places'
    BY <1>2
  <2>2. Held'[b] = Value("buffer", 0, kb)'
    BY <2>1 DEF Held
  <2> QED BY <2>2
<1>4. \A p \in Places : Held'[p] = Held[p]
  <2>1. ASSUME NEW p \in Places PROVE Held'[p] = Held[p]
    <3>1. p \in Places'
      BY <1>2
    <3>2. p[1] \in Kinds /\ p[2] \in Nat /\ p[3] \in Nat /\ Holds(p[1], p[2], p[3])
      BY DEF Places
    <3>3. Held'[p] = Value(p[1], p[2], p[3])' /\ Held[p] = Value(p[1], p[2], p[3])
      BY <3>1 DEF Held
    <3> QED BY <3>2, <3>3
  <2> QED BY <2>1
<1> DEFINE P2 == Places'
           at2 == Held'
<1>5. P2 = Places \cup {b} /\ at2[b] = source[pulled + 1] /\ \A p \in Places : at2[p] = Held[p]
  BY <1>2, <1>3, <1>4
<1> HIDE DEF b, P2, at2
<1>6. Traced(P2, at2, source, pulled + 1)
  BY <1>1, <1>5, TraceAdded DEF RowsTraced
<1> QED BY <1>6 DEF RowsTraced, P2, at2

\* The rows buffered are put in another order.
LEMMA BufferPermuted ==
  ASSUME RowsTraced, source' = source, pulled' = pulled,
         NEW n \in Nat, NEW pi, Permutation(pi, n),
         \A x \in Kinds, f \in Nat, k \in Nat :
           /\ Holds(x, f, k)' <=> Holds(x, f, k)
           /\ x # "buffer" /\ Holds(x, f, k) => Value(x, f, k)' = Value(x, f, k),
         \A f \in Nat, k \in Nat :
           /\ Holds("buffer", f, k) <=> f = 0 /\ k \in 1..n
           /\ k \in 1..n => Value("buffer", 0, k)' = Value("buffer", 0, pi[k])
  PROVE  RowsTraced'
<1> DEFINE h == [p \in Places |-> IF p[1] = "buffer" THEN <<"buffer", 0, pi[p[3]]>> ELSE p]
<1>1. Places' = Places
  BY DEF Places
<1>2. \A p \in Places : /\ p = <<p[1], p[2], p[3]>> /\ p[1] \in Kinds /\ p[2] \in Nat /\ p[3] \in Nat
                        /\ Holds(p[1], p[2], p[3])
                        /\ p[1] = "buffer" => p[2] = 0 /\ p[3] \in 1..n
  BY DEF Places
<1>3. \A k \in 1..n : <<"buffer", 0, k>> \in Places /\ pi[k] \in 1..n
  <2>1. \A k \in 1..n : k \in Nat /\ Holds("buffer", 0, k) /\ "buffer" \in Kinds
    BY DEF Kinds
  <2> QED BY <2>1, PlaceFacts DEF Permutation
<1>4. h \in [Places -> Places]
  BY <1>2, <1>3
<1>5. ASSUME NEW p \in Places, NEW q \in Places, h[p] = h[q] PROVE p = q
  <2>1. CASE p[1] = "buffer" /\ q[1] = "buffer"
    <3>1. pi[p[3]] = pi[q[3]]
      BY <1>5, <2>1
    <3>2. p[3] = q[3]
      BY <1>2, <2>1, <3>1 DEF Permutation
    <3> QED BY <1>2, <2>1, <3>2
  <2>2. CASE p[1] # "buffer" /\ q[1] # "buffer"
    BY <1>5, <2>2
  <2>3. CASE p[1] = "buffer" /\ q[1] # "buffer"
    BY <1>5, <2>3
  <2>4. CASE p[1] # "buffer" /\ q[1] = "buffer"
    BY <1>5, <2>4
  <2> QED BY <2>1, <2>2, <2>3, <2>4
<1>6. ASSUME NEW p \in Places PROVE \E q \in Places : h[q] = p
  <2>1. CASE p[1] # "buffer"
    BY <2>1
  <2>2. CASE p[1] = "buffer"
    <3>1. PICK k \in 1..n : pi[k] = p[3]
      BY <1>2, <2>2 DEF Permutation
    <3>2. <<"buffer", 0, k>> \in Places
      BY <1>3
    <3>3. h[<<"buffer", 0, k>>] = <<"buffer", 0, p[3]>>
      BY <3>1, <3>2
    <3> QED BY <1>2, <2>2, <3>2, <3>3
  <2> QED BY <2>1, <2>2
<1>7. ASSUME NEW p \in Places PROVE Held'[p] = Held[h[p]]
  <2>1. Held'[p] = Value(p[1], p[2], p[3])'
    BY <1>1 DEF Held
  <2>2. CASE p[1] # "buffer"
    <3>1. Held[p] = Value(p[1], p[2], p[3]) /\ h[p] = p
      BY <2>2 DEF Held
    <3> QED BY <1>2, <2>1, <2>2, <3>1
  <2>3. CASE p[1] = "buffer"
    <3>1. p[2] = 0 /\ p[3] \in 1..n /\ p[3] \in Nat
      BY <1>2, <2>3
    <3>2. h[p] = <<"buffer", 0, pi[p[3]]>> /\ h[p] \in Places
      BY <1>3, <2>3, <3>1
    <3>3. Held[h[p]] = Value("buffer", 0, pi[p[3]])
      BY <3>2 DEF Held
    <3> QED BY <2>1, <2>3, <3>1, <3>3
  <2> QED BY <2>2, <2>3
<1> DEFINE at2 == Held'
<1>8. \A p \in Places : at2[p] = Held[h[p]]
  BY <1>7
<1> HIDE DEF h, at2
<1>9. Traced(Places, at2, source, pulled)
  BY <1>4, <1>5, <1>6, <1>8, TraceRenamed DEF RowsTraced
<1> QED BY <1>1, <1>9 DEF RowsTraced, at2

-----------------------------------------------------------------------------
(* The order of the rows in buffers, runs and merges *)

\* When the source is used up, and where rows can be at which stage.
Stages ==
  /\ pc \notin {"pull", "spill"} => pulled = Len(source)
  /\ pc \notin {"memory", "external"} => output = << >>
  /\ pc \notin {"pull", "spill", "memory"} => rows = << >>
  /\ pc = "memory" => Len(output) <= Len(rows)

\* A cursor is at a position of its run: the row before it is in the heap.
CursorAt(all, rest, row) ==
  /\ Len(rest) <= Len(all)
  /\ \A j \in 1..Len(rest) : rest[j] = all[Len(all) - Len(rest) + j]
  /\ row # NoRow => Len(rest) < Len(all) /\ row = all[Len(all) - Len(rest)]

CursorRows ==
  \A i \in 1..Opened :
    /\ CursorAt(runs[group[i]].rows, cursors[i].rest, cursors[i].row)
    /\ pc = "prime" /\ i = Opened => cursors[i].row = NoRow
    /\ ~ (pc = "prime" /\ i = Opened) /\ cursors[i].row = NoRow => cursors[i].rest = << >>
    /\ pc = "close" => cursors[i].row = NoRow

RunsInOrder == \A f \in DOMAIN runs : Sorted(runs[f].rows)

BufferInOrder ==
  /\ pc \in {"spill", "memory"} => Sorted(rows)
  /\ pc = "spill" => \A k \in 1..Spilled : runs[writer].rows[k] = rows[k]

\* The rows merged so far come before the rows still in the runs of the merge.
MergeInOrder ==
  /\ pc \in {"open", "prime"} /\ writer # NoRun => runs[writer].rows = << >>
  /\ pc \in {"pop", "append"} =>
       \A k \in 1..Len(runs[writer].rows), f \in ToSet(group), j \in Nat :
         InRun(f, j) => InOrder(runs[writer].rows[k], runs[f].rows[j])
  /\ pc = "append" =>
       /\ \A k \in 1..Len(runs[writer].rows) : InOrder(runs[writer].rows[k], out_row)
       /\ \A f \in ToSet(group), j \in Nat :
            InRun(f, j) => InOrder(out_row, runs[f].rows[j])

DataInv ==
  RowsTraced /\ Stages /\ CursorRows /\ RunsInOrder /\ BufferInOrder /\ MergeInOrder

\* Steps that change neither a buffer, nor a run, nor a cursor.
LEMMA ListStepsData ==
  SortInv /\ DataInv /\ (EndOfInput \/ BeginPass \/ AllOpened \/ PassThrough \/ EndPass)
    => DataInv'
<1> SUFFICES ASSUME SortInv, DataInv,
                    EndOfInput \/ BeginPass \/ AllOpened \/ PassThrough \/ EndPass
             PROVE  DataInv'
  OBVIOUS
<1> USE DEF DataInv
<1>1. /\ UNCHANGED <<source, pulled, rows, output, out_row, group, writer, runs, cursors>>
      /\ Opened' = Opened /\ ToSet(group)' = ToSet(group)
      /\ \/ pc = "pull" /\ pc' = "pass" /\ pulled = Len(source) /\ rows = << >>
         \/ pc = "pass" /\ pc' = "group"
         \/ pc = "open" /\ pc' = "pop" /\ writer # NoRun
         \/ pc = "open" /\ pc' = "external"
         \/ pc = "group" /\ pc' = "group"
         \/ pc = "group" /\ pc' = "pass"
  BY DEF EndOfInput, BeginPass, AllOpened, PassThrough, EndPass, pullVars, mergeVars, storeVars, Opened
<1>2. \A f, k : InRun(f, k)' <=> InRun(f, k)
  BY <1>1 DEF InRun, Remains
<1>3. \A k : InBuffer(k)' <=> InBuffer(k)
  BY <1>1 DEF InBuffer
<1>4. \A x, f, k : (Holds(x, f, k)' <=> Holds(x, f, k)) /\ Value(x, f, k)' = Value(x, f, k)
  BY <1>1, <1>2, <1>3 DEF Holds, Value
<1>5. RowsTraced'
  BY <1>1, <1>4, RowsStay
<1>6. Stages' /\ RunsInOrder' /\ BufferInOrder'
  BY <1>1 DEF Stages, RunsInOrder, BufferInOrder
<1>7. CursorRows'
  BY <1>1 DEF CursorRows
<1>8. MergeInOrder'
  <2>1. CASE pc' = "pop"
    <3>1. Len(runs[writer].rows) = 0
      BY <1>1, <2>1, EmptyElements DEF MergeInOrder
    <3> QED BY <1>1, <2>1, <3>1 DEF MergeInOrder
  <2>2. CASE pc' # "pop"
    BY <1>1, <2>2 DEF MergeInOrder
  <2> QED BY <2>1, <2>2
<1> QED BY <1>5, <1>6, <1>7, <1>8

LEMMA BeginFinalMergeData == SortInv /\ DataInv /\ BeginFinalMerge => DataInv'
<1> SUFFICES ASSUME SortInv, DataInv, BeginFinalMerge PROVE DataInv'
  OBVIOUS
<1> USE DEF DataInv
<1>1. /\ UNCHANGED <<source, pulled, rows, output, out_row, writer, runs, cursors>>
      /\ Opened' = Opened /\ pc = "pass" /\ pc' = "open"
  BY DEF BeginFinalMerge, pullVars, storeVars, Opened
<1>2. Opened = 0 /\ writer = NoRun
  BY <1>1 DEF SortInv, CursorPhase, WriterPhase, Merging
<1>3. \A f, k : InRun(f, k)' <=> InRun(f, k)
  BY <1>1, <1>2 DEF InRun
<1>4. \A k : InBuffer(k)' <=> InBuffer(k)
  BY <1>1 DEF InBuffer
<1>5. \A x, f, k : (Holds(x, f, k)' <=> Holds(x, f, k)) /\ Value(x, f, k)' = Value(x, f, k)
  BY <1>1, <1>3, <1>4 DEF Holds, Value
<1>6. RowsTraced'
  BY <1>1, <1>5, RowsStay
<1>7. Stages' /\ RunsInOrder' /\ BufferInOrder' /\ MergeInOrder'
  BY <1>1, <1>2 DEF Stages, RunsInOrder, BufferInOrder, MergeInOrder
<1>8. CursorRows'
  BY <1>1, <1>2 DEF CursorRows
<1> QED BY <1>6, <1>7, <1>8

LEMMA EndOfRunsData == SortInv /\ DataInv /\ EndOfRuns => DataInv'
<1> SUFFICES ASSUME SortInv, DataInv, EndOfRuns PROVE DataInv'
  OBVIOUS
<1> USE DEF DataInv
<1>1. /\ UNCHANGED <<source, pulled, rows, output, out_row, group, writer, runs, cursors>>
      /\ Opened' = Opened /\ ToSet(group)' = ToSet(group)
      /\ pc = "pop" /\ pc' = "close" /\ Heap = {}
  BY DEF EndOfRuns, pullVars, mergeVars, storeVars, Opened
<1>2. \A i \in 1..Opened : cursors[i].row = NoRow /\ cursors[i].rest = << >> /\ Remains(i) = 0
  <2>1. \A i \in 1..Opened : cursors[i].row = NoRow
    BY <1>1 DEF Heap, SortInv, TypeOK
  <2>2. \A i \in 1..Opened : cursors[i].rest = << >>
    BY <1>1, <2>1 DEF CursorRows
  <2>3. ASSUME NEW i \in 1..Opened PROVE Remains(i) = 0
    <3>1. Len(cursors[i].rest) = 0
      BY <2>2, EmptyElements
    <3> QED BY <2>1, <3>1 DEF Remains
  <2> QED BY <2>1, <2>2, <2>3
<1>3. ASSUME NEW f \in ToSet(group), NEW k PROVE ~ InRun(f, k)
  <2>1. PICK i \in 1..Len(group) : group[i] = f
    BY ListTypes, SequenceFacts DEF SortInv
  <2>2. i \in 1..Opened
    BY <1>1 DEF SortInv, CursorPhase
  <2>3. f \in DOMAIN runs => Len(runs[f].rows) \in Nat
    BY DEF SortInv, StoreTyped, RunType
  <2> QED BY <1>2, <2>1, <2>2, <2>3 DEF InRun
<1>4. \A f, k : InRun(f, k)' <=> InRun(f, k)
  <2>1. \A f, k : InRun(f, k)' <=> InRun(f, k) /\ f \notin ToSet(group)
    BY <1>1 DEF InRun, Remains
  <2> QED BY <1>3, <2>1
<1>5. \A k : InBuffer(k)' <=> InBuffer(k)
  BY <1>1 DEF InBuffer
<1>6. \A x, f, k : (Holds(x, f, k)' <=> Holds(x, f, k)) /\ Value(x, f, k)' = Value(x, f, k)
  BY <1>1, <1>4, <1>5 DEF Holds, Value
<1>7. RowsTraced'
  BY <1>1, <1>6, RowsStay
<1>8. Stages' /\ RunsInOrder' /\ BufferInOrder' /\ MergeInOrder'
  BY <1>1 DEF Stages, RunsInOrder, BufferInOrder, MergeInOrder
<1>9. CursorRows'
  BY <1>1, <1>2 DEF CursorRows
<1> QED BY <1>7, <1>8, <1>9

LEMMA EndMergeData == SortInv /\ DataInv /\ EndMerge => DataInv'
<1> SUFFICES ASSUME SortInv, DataInv, EndMerge PROVE DataInv'
  OBVIOUS
<1> USE DEF DataInv
<1>1. /\ UNCHANGED <<source, pulled, rows, output, out_row, group, runs, cursors>>
      /\ Opened' = Opened /\ ToSet(group)' = ToSet(group)
      /\ pc = "delete" /\ pc' = "group" /\ group = << >>
  BY DEF EndMerge, pullVars, storeVars, Opened
<1>2. ToSet(group) = {}
  BY <1>1, EmptyElements
<1>3. \A f, k : InRun(f, k)' <=> InRun(f, k)
  BY <1>1, <1>2 DEF InRun, Remains
<1>4. \A k : InBuffer(k)' <=> InBuffer(k)
  BY <1>1 DEF InBuffer
<1>5. \A x, f, k : (Holds(x, f, k)' <=> Holds(x, f, k)) /\ Value(x, f, k)' = Value(x, f, k)
  BY <1>1, <1>3, <1>4 DEF Holds, Value
<1>6. RowsTraced'
  BY <1>1, <1>5, RowsStay
<1>7. Stages' /\ RunsInOrder' /\ BufferInOrder' /\ MergeInOrder'
  BY <1>1 DEF Stages, RunsInOrder, BufferInOrder, MergeInOrder
<1>8. CursorRows'
  BY <1>1 DEF CursorRows
<1> QED BY <1>6, <1>7, <1>8

LEMMA EndSpillData == SortInv /\ DataInv /\ EndSpill => DataInv'
<1> SUFFICES ASSUME SortInv, DataInv, EndSpill PROVE DataInv'
  OBVIOUS
<1> USE DEF DataInv
<1>1. /\ UNCHANGED <<source, pulled, output, out_row, group>> /\ rows' = << >>
      /\ pc = "spill" /\ pc' = "pull" /\ Spilled = Len(rows) /\ Runs!Finish(writer)
      /\ next_id' = next_id /\ group = << >> /\ Opened = 0
  BY DEF EndSpill, SortInv, ListPhase, CursorPhase, Merging
<1>2. /\ DOMAIN runs' = DOMAIN runs /\ \A g \in DOMAIN runs : runs'[g].rows = runs[g].rows
      /\ Opened' = Opened
  BY <1>1, FinishFiles
<1>3. ToSet(group) = {} /\ ToSet(group)' = {} /\ Len(<< >>) = 0
  BY <1>1, EmptyElements
<1>4. \A f, k : InRun(f, k)' <=> InRun(f, k)
  BY <1>1, <1>2, <1>3 DEF InRun
<1>5. \A k : ~ InBuffer(k) /\ ~ InBuffer(k)'
  <2>1. Len(rows) \in Nat
    BY ListTypes DEF SortInv
  <2> QED BY <1>1, <1>3, <2>1 DEF InBuffer
<1>6. \A x, f, k : Holds(x, f, k)' <=> Holds(x, f, k)
  BY <1>1, <1>4, <1>5 DEF Holds
<1>7. \A x, f, k : Holds(x, f, k) => Value(x, f, k)' = Value(x, f, k)
  BY <1>1, <1>2, <1>5 DEF Holds, InRun, Value
<1>8. RowsTraced'
  BY <1>1, <1>6, <1>7, RowsStay
<1>9. Stages' /\ BufferInOrder' /\ MergeInOrder' /\ CursorRows'
  BY <1>1, <1>2 DEF Stages, BufferInOrder, MergeInOrder, CursorRows
<1>10. RunsInOrder'
  BY <1>2 DEF RunsInOrder
<1> QED BY <1>8, <1>9, <1>10

LEMMA BeginMergeData == SortInv /\ DataInv /\ BeginMerge => DataInv'
<1> SUFFICES ASSUME SortInv, DataInv, BeginMerge PROVE DataInv'
  OBVIOUS
<1> USE DEF DataInv
<1>1. /\ UNCHANGED <<source, pulled, rows, output, out_row>>
      /\ pc = "group" /\ pc' = "open" /\ CreateRun /\ writer = NoRun /\ Opened = 0
  BY DEF BeginMerge, pullVars, SortInv, WriterPhase, CursorPhase, Merging
<1>2. /\ writer' = next_id /\ next_id \notin DOMAIN runs /\ next_id \in Nat
      /\ DOMAIN runs' = DOMAIN runs \cup {next_id} /\ runs'[next_id].rows = << >>
      /\ \A f \in DOMAIN runs : runs'[f] = runs[f]
      /\ Opened' = 0
  BY <1>1, CreateRunFiles
<1>3. Len(<< >>) = 0
  BY EmptyElements
<1>4. \A f, k : InRun(f, k)' <=> InRun(f, k)
  BY <1>1, <1>2, <1>3 DEF InRun
<1>5. \A k : InBuffer(k)' <=> InBuffer(k)
  BY <1>1 DEF InBuffer
<1>6. \A x, f, k : Holds(x, f, k)' <=> Holds(x, f, k)
  BY <1>1, <1>4, <1>5 DEF Holds
<1>7. \A x, f, k : Holds(x, f, k) => Value(x, f, k)' = Value(x, f, k)
  BY <1>1, <1>2 DEF Holds, InRun, Value
<1>8. RowsTraced'
  BY <1>1, <1>6, <1>7, RowsStay
<1>9. Stages' /\ BufferInOrder' /\ MergeInOrder' /\ CursorRows'
  BY <1>1, <1>2 DEF Stages, BufferInOrder, MergeInOrder, CursorRows
<1>10. RunsInOrder'
  BY <1>2, <1>3 DEF RunsInOrder, Sorted
<1> QED BY <1>8, <1>9, <1>10

LEMMA FinishMergeData == SortInv /\ DataInv /\ FinishMerge => DataInv'
<1> SUFFICES ASSUME SortInv, DataInv, FinishMerge PROVE DataInv'
  OBVIOUS
<1> USE DEF DataInv
<1>1. /\ UNCHANGED <<source, pulled, rows, output, out_row, group>>
      /\ pc = "close" /\ pc' = "delete" /\ Opened = 0 /\ Runs!Finish(writer) /\ next_id' = next_id
      /\ ToSet(group)' = ToSet(group)
  BY DEF FinishMerge, pullVars, mergeVars
<1>2. /\ DOMAIN runs' = DOMAIN runs /\ \A g \in DOMAIN runs : runs'[g].rows = runs[g].rows
      /\ Opened' = Opened
  BY <1>1, FinishFiles
<1>3. \A f, k : InRun(f, k)' <=> InRun(f, k)
  BY <1>1, <1>2 DEF InRun
<1>4. \A k : InBuffer(k)' <=> InBuffer(k)
  BY <1>1 DEF InBuffer
<1>5. \A x, f, k : Holds(x, f, k)' <=> Holds(x, f, k)
  BY <1>1, <1>3, <1>4 DEF Holds
<1>6. \A x, f, k : Holds(x, f, k) => Value(x, f, k)' = Value(x, f, k)
  BY <1>1, <1>2 DEF Holds, InRun, Value
<1>7. RowsTraced'
  BY <1>1, <1>5, <1>6, RowsStay
<1>8. Stages' /\ BufferInOrder' /\ MergeInOrder' /\ CursorRows'
  BY <1>1, <1>2 DEF Stages, BufferInOrder, MergeInOrder, CursorRows
<1>9. RunsInOrder'
  BY <1>2 DEF RunsInOrder
<1> QED BY <1>7, <1>8, <1>9

LEMMA DeleteInputData == SortInv /\ DataInv /\ DeleteInput => DataInv'
<1> SUFFICES ASSUME SortInv, DataInv, DeleteInput PROVE DataInv'
  OBVIOUS
<1> USE DEF DataInv
<1>1. /\ UNCHANGED <<source, pulled, rows, output, out_row>> /\ group # << >>
      /\ pc = "delete" /\ pc' = "delete" /\ group' = Tail(group)
      /\ runs' = [g \in DOMAIN runs \ {Head(group)} |-> runs[g]] /\ Opened' = Opened /\ Opened = 0
  BY DEF DeleteInput, pullVars, Runs!Delete, Opened, SortInv, CursorPhase, Merging
<1>2. ToSet(group) = {Head(group)} \cup ToSet(group')
  <2>1. group \in Seq(Ids)
    BY ListTypes DEF SortInv
  <2> QED BY <1>1, <2>1, HeadElements
<1>3. /\ DOMAIN runs' = DOMAIN runs \ {Head(group)}
      /\ \A g \in DOMAIN runs' : runs'[g] = runs[g]
  BY <1>1
<1>4. \A f, k : InRun(f, k)' <=> InRun(f, k)
  <2>1. \A f, k : InRun(f, k)' <=> /\ f \in DOMAIN runs' /\ k \in 1..Len(runs'[f].rows)
                                   /\ f \notin ToSet(group')
    BY <1>1 DEF InRun
  <2>2. \A f, k : InRun(f, k) <=> /\ f \in DOMAIN runs /\ k \in 1..Len(runs[f].rows)
                                  /\ f \notin ToSet(group)
    BY <1>1 DEF InRun
  <2>3. \A f : /\ f \in DOMAIN runs' /\ f \notin ToSet(group') <=>
                    f \in DOMAIN runs /\ f \notin ToSet(group)
               /\ f \in DOMAIN runs' => runs'[f] = runs[f]
    <3>1. Head(group) \notin ToSet(group')
      <4>1. group \in Seq(Ids) /\ IsInjective(group)
        BY ListTypes DEF SortInv, Filed
      <4> QED BY <1>1, <4>1, HeadElements
    <3> QED BY <1>2, <1>3, <3>1
  <2> QED BY <2>1, <2>2, <2>3
<1>5. \A k : InBuffer(k)' <=> InBuffer(k)
  BY <1>1 DEF InBuffer
<1>6. \A x, f, k : Holds(x, f, k)' <=> Holds(x, f, k)
  BY <1>1, <1>4, <1>5 DEF Holds
<1>7. \A x, f, k : Holds(x, f, k) => Value(x, f, k)' = Value(x, f, k)
  <2>1. \A f, k : InRun(f, k) => runs'[f] = runs[f]
    BY <1>3, <1>4 DEF InRun
  <2>2. ASSUME NEW x, NEW f, NEW k, Holds(x, f, k) PROVE Value(x, f, k)' = Value(x, f, k)
    <3>1. CASE x = "run"
      BY <2>1, <2>2, <3>1 DEF Holds, Value
    <3>2. CASE x # "run"
      BY <1>1, <3>2 DEF Value
    <3> QED BY <3>1, <3>2
  <2> QED BY <2>2
<1>8. RowsTraced'
  BY <1>1, <1>6, <1>7, RowsStay
<1>9. Stages' /\ BufferInOrder' /\ MergeInOrder' /\ CursorRows'
  BY <1>1 DEF Stages, BufferInOrder, MergeInOrder, CursorRows
<1>10. RunsInOrder'
  BY <1>3 DEF RunsInOrder
<1> QED BY <1>8, <1>9, <1>10

LEMMA GroupRuns ==
  ASSUME SortInv
  PROVE  /\ Opened \in Nat /\ Len(group) \in Nat /\ Opened <= Len(group)
         /\ \A i \in 1..Len(group) :
              /\ group[i] \in ToSet(group) /\ group[i] \in DOMAIN runs /\ group[i] # writer
              /\ runs[group[i]].rows \in Seq(RowSet) /\ Len(runs[group[i]].rows) \in Nat
         /\ \A i, j \in 1..Len(group) : group[i] = group[j] => i = j
         /\ \A f \in ToSet(group) : \E i \in 1..Len(group) : group[i] = f
         /\ \A i \in 1..Opened :
              /\ i \in 1..Len(group) /\ i \in DOMAIN cursors
              /\ cursors[i].rest \in Seq(RowSet) /\ Len(cursors[i].rest) \in Nat
              /\ cursors[i].row \in RowSet \cup {NoRow} /\ Remains(i) \in Nat
         /\ DOMAIN cursors = 1..Opened
<1>1. group \in Seq(Ids) /\ Len(group) \in Nat
  BY ListTypes DEF SortInv
<1>2. DOMAIN group = 1..Len(group) /\ ToSet(group) = {group[i] : i \in 1..Len(group)}
  BY <1>1, SequenceFacts
<1>3. Opened \in Nat /\ Opened <= Len(group) /\ DOMAIN cursors = 1..Opened
  BY DEF SortInv, StoreTyped, CursorPhase, TypeOK
<1>4. ToSet(group) \subseteq DOMAIN runs /\ ToSet(group) \cap Written = {}
  BY DEF SortInv, Filed
<1>5. NoRun \notin DOMAIN runs
  BY SortAssumption DEF SortInv, TypeOK
<1>6. \A i \in 1..Len(group) : group[i] \in ToSet(group) /\ group[i] \in DOMAIN runs
  BY <1>2, <1>4
<1>7. \A i \in 1..Len(group) : group[i] # writer
  BY <1>4, <1>5, <1>6 DEF Written
<1>8. ASSUME NEW i \in 1..Len(group)
      PROVE  runs[group[i]].rows \in Seq(RowSet) /\ Len(runs[group[i]].rows) \in Nat
  <2>1. runs[group[i]].rows \in Seq(RowSet)
    BY <1>6 DEF SortInv, StoreTyped, RunType
  <2> QED BY <2>1, SequenceFacts
<1>9. \A i, j \in 1..Len(group) : group[i] = group[j] => i = j
  BY <1>2 DEF SortInv, Filed, IsInjective
<1>10. ASSUME NEW i \in 1..Opened
       PROVE  /\ i \in 1..Len(group) /\ i \in DOMAIN cursors
              /\ cursors[i].rest \in Seq(RowSet) /\ Len(cursors[i].rest) \in Nat
              /\ cursors[i].row \in RowSet \cup {NoRow} /\ Remains(i) \in Nat
  <2>1. cursors[i] \in CursorType
    BY DEF SortInv, StoreTyped
  <2>2. cursors[i].rest \in Seq(RowSet) /\ cursors[i].row \in RowSet \cup {NoRow}
    BY <2>1 DEF CursorType
  <2>3. Len(cursors[i].rest) \in Nat
    BY <2>2, SequenceFacts
  <2> QED BY <1>1, <1>3, <2>2, <2>3 DEF Remains
<1> QED BY <1>1, <1>2, <1>3, <1>6, <1>7, <1>8, <1>9, <1>10

\* A cursor that moves to the next row of its run.
LEMMA CursorAdvances ==
  ASSUME NEW all \in Seq(RowSet), NEW rest \in Seq(RowSet), NEW row, CursorAt(all, rest, row),
         rest # << >>
  PROVE  CursorAt(all, Tail(rest), Head(rest)) /\ Len(Tail(rest)) = Len(rest) - 1 /\ Head(rest) \in RowSet
<1>1. /\ Head(rest) = rest[1] /\ Len(rest) > 0 /\ Len(Tail(rest)) = Len(rest) - 1
      /\ \A i \in 1..Len(rest) - 1 : Tail(rest)[i] = rest[i + 1]
      /\ Head(rest) \in RowSet
  BY HeadElements
<1>2. Len(all) \in Nat /\ Len(rest) \in Nat
  BY SequenceFacts
<1>3. Len(rest) <= Len(all) /\ \A j \in 1..Len(rest) : rest[j] = all[Len(all) - Len(rest) + j]
  BY DEF CursorAt
<1>4. ASSUME NEW j \in 1..Len(rest) - 1
      PROVE  Tail(rest)[j] = all[Len(all) - (Len(rest) - 1) + j]
  <2>1. j + 1 \in 1..Len(rest)
    BY <1>2
  <2>2. Len(all) - Len(rest) + (j + 1) = Len(all) - (Len(rest) - 1) + j
    BY <1>2
  <2> QED BY <1>1, <1>3, <2>1, <2>2
<1>5. Head(rest) = all[Len(all) - (Len(rest) - 1)]
  <2>1. 1 \in 1..Len(rest) /\ Len(all) - Len(rest) + 1 = Len(all) - (Len(rest) - 1)
    BY <1>1, <1>2
  <2> QED BY <1>1, <1>3, <2>1
<1> QED BY <1>1, <1>2, <1>3, <1>4, <1>5 DEF CursorAt

LEMMA OpenRunData == SortInv /\ SortInv' /\ DataInv /\ OpenRun => DataInv'
<1> SUFFICES ASSUME SortInv, SortInv', DataInv, OpenRun PROVE DataInv'
  OBVIOUS
<1> USE DEF DataInv
<1>0. PICK n : n = Opened + 1
  OBVIOUS
<1>1. /\ UNCHANGED <<source, pulled, rows, output, out_row, group, writer, runs>>
      /\ pc = "open" /\ pc' = "prime" /\ Opened < Len(group)
      /\ cursors' = [q \in DOMAIN cursors \cup {n} |->
                       IF q = n THEN [run |-> group[n], rest |-> runs[group[n]].rows, row |-> NoRow]
                       ELSE cursors[q]]
      /\ ToSet(group)' = ToSet(group)
  BY <1>0 DEF OpenRun, pullVars, mergeVars, Runs!Open
<1>2. Opened \in Nat /\ DOMAIN cursors = 1..Opened /\ n \in 1..Len(group)
  BY <1>0, <1>1, GroupRuns
<1>3. DOMAIN cursors' = 1..n
  BY <1>0, <1>1, <1>2
<1>4. Opened' = n
  BY <1>0, <1>2, <1>3, FS_Interval DEF Opened
<1>5. /\ cursors'[n].rest = runs[group[n]].rows /\ cursors'[n].row = NoRow
      /\ \A i \in 1..Opened : cursors'[i] = cursors[i]
  BY <1>0, <1>1, <1>2
<1>6. Len(runs[group[n]].rows) \in Nat
  BY <1>2, GroupRuns
<1>7. \A i \in 1..Opened : Remains(i)' = Remains(i)
  BY <1>5 DEF Remains
<1>8. Remains(n)' = Len(runs[group[n]].rows)
  BY <1>5, <1>6 DEF Remains
<1>9. \A f, k : InRun(f, k)' <=> InRun(f, k)
  <2>1. ASSUME NEW f \in DOMAIN runs, NEW k \in 1..Len(runs[f].rows), group[n] = f
        PROVE  k > Len(runs[f].rows) - Remains(n)'
    BY <1>6, <1>8, <2>1
  <2>2. \A i : i \in 1..n <=> i \in 1..Opened \/ i = n
    BY <1>0, <1>2
  <2> QED BY <1>1, <1>4, <1>7, <2>1, <2>2 DEF InRun
<1>10. \A k : InBuffer(k)' <=> InBuffer(k)
  BY <1>1 DEF InBuffer
<1>11. \A x, f, k : (Holds(x, f, k)' <=> Holds(x, f, k)) /\ Value(x, f, k)' = Value(x, f, k)
  BY <1>1, <1>9, <1>10 DEF Holds, Value
<1>12. RowsTraced'
  BY <1>1, <1>11, RowsStay
<1>13. Stages' /\ RunsInOrder' /\ BufferInOrder' /\ MergeInOrder'
  BY <1>1 DEF Stages, RunsInOrder, BufferInOrder, MergeInOrder
<1>14. CursorRows'
  <2>1. CursorAt(runs[group[n]].rows, runs[group[n]].rows, NoRow)
    BY <1>6 DEF CursorAt
  <2>2. \A i \in 1..Opened : i # n
    BY <1>0, <1>2
  <2>3. \A i : i \in 1..n <=> i \in 1..Opened \/ i = n
    BY <1>0, <1>2
  <2> QED BY <1>1, <1>4, <1>5, <2>1, <2>2, <2>3 DEF CursorRows
<1> QED BY <1>12, <1>13, <1>14

LEMMA PrimeRunData == SortInv /\ SortInv' /\ DataInv /\ PrimeRun => DataInv'
<1> SUFFICES ASSUME SortInv, SortInv', DataInv, PrimeRun PROVE DataInv'
  OBVIOUS
<1> USE DEF DataInv
<1>0. PICK n : n = Opened
  OBVIOUS
<1>1. /\ UNCHANGED <<source, pulled, rows, output, out_row, group, writer>>
      /\ pc = "prime" /\ pc' = "open" /\ Runs!NextRow(n) /\ next_id' = next_id
      /\ ToSet(group)' = ToSet(group)
  BY <1>0 DEF PrimeRun, pullVars, mergeVars
<1>2. /\ n \in DOMAIN cursors /\ Opened' = n /\ runs' = runs
      /\ \A j \in DOMAIN cursors \ {n} : cursors'[j] = cursors[j]
      /\ IF cursors[n].rest = << >>
         THEN cursors'[n].rest = << >> /\ cursors'[n].row = NoRow
         ELSE cursors'[n].rest = Tail(cursors[n].rest) /\ cursors'[n].row = Head(cursors[n].rest)
  BY <1>0, <1>1, NextRowMoves
<1>3. /\ n \in 1..Opened /\ DOMAIN cursors = 1..Opened
      /\ cursors[n].rest \in Seq(RowSet) /\ Len(cursors[n].rest) \in Nat
      /\ runs[group[n]].rows \in Seq(RowSet)
  BY <1>0, <1>2, GroupRuns
<1>4. CursorAt(runs[group[n]].rows, cursors[n].rest, cursors[n].row) /\ cursors[n].row = NoRow
  BY <1>0, <1>1, <1>3 DEF CursorRows
<1>5. /\ CursorAt(runs[group[n]].rows, cursors'[n].rest, cursors'[n].row)
      /\ cursors'[n].row = NoRow => cursors'[n].rest = << >>
      /\ Remains(n)' = Remains(n)
  <2>1. CASE cursors[n].rest = << >>
    BY <1>2, <1>4, <2>1 DEF Remains
  <2>2. CASE cursors[n].rest # << >>
    <3>1. /\ CursorAt(runs[group[n]].rows, Tail(cursors[n].rest), Head(cursors[n].rest))
          /\ Len(Tail(cursors[n].rest)) = Len(cursors[n].rest) - 1
          /\ Head(cursors[n].rest) # NoRow
      BY <1>3, <1>4, <2>2, CursorAdvances, SortAssumption
    <3>2. cursors'[n].rest = Tail(cursors[n].rest) /\ cursors'[n].row = Head(cursors[n].rest)
      BY <1>2, <2>2
    <3>3. Remains(n)' = Len(cursors[n].rest) - 1 + 1
      BY <3>1, <3>2 DEF Remains
    <3>4. Remains(n) = Len(cursors[n].rest)
      BY <1>4 DEF Remains
    <3> QED BY <1>3, <3>1, <3>2, <3>3, <3>4
  <2> QED BY <2>1, <2>2
<1>6. \A i \in 1..Opened : Remains(i)' = Remains(i)
  BY <1>0, <1>2, <1>3, <1>5 DEF Remains
<1>7. \A f, k : InRun(f, k)' <=> InRun(f, k)
  BY <1>0, <1>1, <1>2, <1>6 DEF InRun
<1>8. \A k : InBuffer(k)' <=> InBuffer(k)
  BY <1>1 DEF InBuffer
<1>9. \A x, f, k : (Holds(x, f, k)' <=> Holds(x, f, k)) /\ Value(x, f, k)' = Value(x, f, k)
  BY <1>1, <1>2, <1>7, <1>8 DEF Holds, Value
<1>10. RowsTraced'
  BY <1>1, <1>9, RowsStay
<1>11. Stages' /\ RunsInOrder' /\ BufferInOrder' /\ MergeInOrder'
  BY <1>0, <1>1, <1>2 DEF Stages, RunsInOrder, BufferInOrder, MergeInOrder
<1>12. CursorRows'
  BY <1>0, <1>1, <1>2, <1>3, <1>5 DEF CursorRows
<1> QED BY <1>10, <1>11, <1>12

LEMMA CloseReaderData == SortInv /\ SortInv' /\ DataInv /\ CloseReader => DataInv'
<1> SUFFICES ASSUME SortInv, SortInv', DataInv, CloseReader PROVE DataInv'
  OBVIOUS
<1> USE DEF DataInv
<1>1. /\ UNCHANGED <<source, pulled, rows, output, out_row, group, writer, runs>>
      /\ pc = "close" /\ pc' = "close" /\ Opened > 0
      /\ cursors' = [q \in DOMAIN cursors \ {Opened} |-> cursors[q]]
      /\ ToSet(group)' = ToSet(group)
  BY DEF CloseReader, pullVars, mergeVars, Runs!Close
<1>2. Opened \in Nat /\ DOMAIN cursors = 1..Opened /\ Opened' \in Nat /\ DOMAIN cursors' = 1..Opened'
  <2>1. DOMAIN cursors' = 1..Opened'
    BY DEF SortInv, TypeOK
  <2> QED BY <2>1, GroupRuns DEF SortInv, StoreTyped
<1>3. \A i \in 1..Opened' : i \in 1..Opened /\ cursors'[i] = cursors[i]
  BY <1>1, <1>2
<1>4. \A f, k : InRun(f, k)' <=> InRun(f, k)
  <2>1. ASSUME NEW f, NEW k, f \notin ToSet(group) PROVE InRun(f, k)' <=> InRun(f, k)
    <3>1. (\A i \in 1..Opened : group[i] # f) /\ (\A i \in 1..Opened' : group[i] # f)
      BY <1>3, <2>1, GroupRuns
    <3> QED BY <1>1, <3>1 DEF InRun
  <2>2. ASSUME NEW f, NEW k, f \in ToSet(group) PROVE ~ InRun(f, k)' /\ ~ InRun(f, k)
    BY <1>1, <2>2 DEF InRun
  <2> QED BY <2>1, <2>2
<1>5. \A k : InBuffer(k)' <=> InBuffer(k)
  BY <1>1 DEF InBuffer
<1>6. \A x, f, k : (Holds(x, f, k)' <=> Holds(x, f, k)) /\ Value(x, f, k)' = Value(x, f, k)
  BY <1>1, <1>4, <1>5 DEF Holds, Value
<1>7. RowsTraced'
  BY <1>1, <1>6, RowsStay
<1>8. Stages' /\ RunsInOrder' /\ BufferInOrder' /\ MergeInOrder'
  BY <1>1 DEF Stages, RunsInOrder, BufferInOrder, MergeInOrder
<1>9. CursorRows'
  BY <1>1, <1>3 DEF CursorRows
<1> QED BY <1>7, <1>8, <1>9

LEMMA PushRowData == SortInv /\ DataInv /\ PushRow => DataInv'
<1> SUFFICES ASSUME SortInv, DataInv, PushRow PROVE DataInv'
  OBVIOUS
<1> USE DEF DataInv
<1>0. PICK n : n = Len(rows) + 1
  OBVIOUS
<1>1. /\ UNCHANGED <<source, output, out_row, group, writer, runs, cursors>>
      /\ pc = "pull" /\ pc' = "pull" /\ pulled < Len(source) /\ pulled' = pulled + 1
      /\ rows' = Append(rows, source[pulled + 1])
      /\ Opened' = Opened /\ ToSet(group)' = ToSet(group)
  BY DEF PushRow, mergeVars, storeVars, Opened
<1>2. /\ rows \in Seq(RowSet) /\ Len(rows) \in Nat /\ pulled \in Nat
      /\ source[pulled + 1] \in RowSet
  BY <1>1, ListTypes, SequenceFacts DEF SortInv
<1>3. /\ Len(rows') = n /\ rows'[n] = source[pulled + 1]
      /\ \A k \in 1..Len(rows) : rows'[k] = rows[k]
  BY <1>0, <1>1, <1>2, AppendElements
<1>4. \A f, k : InRun(f, k)' <=> InRun(f, k)
  BY <1>1 DEF InRun, Remains
<1>5. /\ \A k : InBuffer(k) <=> k \in 1..Len(rows)
      /\ \A k : InBuffer(k)' <=> k \in 1..n
  BY <1>1, <1>3 DEF InBuffer
<1>6. \A k : (k \in 1..n <=> k \in 1..Len(rows) \/ k = n) /\ n \notin 1..Len(rows) /\ n \in Nat
  BY <1>0, <1>2
<1>7. \A x, f, k : Holds(x, f, k)' <=> Holds(x, f, k) \/ (x = "buffer" /\ f = 0 /\ k = n)
  BY <1>1, <1>4, <1>5, <1>6 DEF Holds
<1>8. \A x, f, k : Holds(x, f, k) => Value(x, f, k)' = Value(x, f, k)
  BY <1>1, <1>3, <1>5 DEF Holds, Value
<1>9. ~ Holds("buffer", 0, n) /\ Value("buffer", 0, n)' = source[pulled + 1]
  BY <1>3, <1>5, <1>6 DEF Holds, Value
<1>10. RowsTraced'
  BY <1>1, <1>2, <1>6, <1>7, <1>8, <1>9, RowAdded
<1>11. Stages' /\ RunsInOrder' /\ BufferInOrder' /\ MergeInOrder'
  BY <1>1 DEF Stages, RunsInOrder, BufferInOrder, MergeInOrder
<1>12. CursorRows'
  BY <1>1 DEF CursorRows
<1> QED BY <1>10, <1>11, <1>12

\* Sorting puts the rows in order and each of them in another place.
LEMMA SortsRearrange ==
  ASSUME NEW s \in Seq(RowSet), NEW t \in SortsOf(s)
  PROVE  /\ t \in Seq(RowSet) /\ Len(t) = Len(s) /\ Sorted(t)
         /\ \E pi : Rearranges(pi, s, t)
<1>1. t \in Seq(RowSet) /\ Len(t) = Len(s)
  BY SortsAreSequences
<1>2. ToBag(t) = ToBag(s) /\ Sorted(t)
  BY DEF SortsOf, IsSorted, Sorted
<1> QED BY <1>1, <1>2, SameBagPermutes

LEMMA BeginSpillData == SortInv /\ DataInv /\ BeginSpill => DataInv'
<1> SUFFICES ASSUME SortInv, DataInv, BeginSpill PROVE DataInv'
  OBVIOUS
<1> USE DEF DataInv
<1>0. PICK n : n = Len(rows)
  OBVIOUS
<1>1. /\ UNCHANGED <<source, pulled, output, out_row, group>> /\ rows' \in SortsOf(rows)
      /\ pc = "pull" /\ pc' = "spill" /\ CreateRun /\ writer = NoRun /\ Opened = 0
      /\ group = << >>
  BY DEF BeginSpill, SortInv, WriterPhase, CursorPhase, ListPhase, Merging
<1>2. /\ writer' = next_id /\ next_id \notin DOMAIN runs /\ next_id \in Nat
      /\ DOMAIN runs' = DOMAIN runs \cup {next_id} /\ runs'[next_id].rows = << >>
      /\ \A f \in DOMAIN runs : runs'[f] = runs[f]
      /\ Opened' = 0
  BY <1>1, CreateRunFiles
<1>3. Len(<< >>) = 0 /\ ToSet(<< >>) = {}
  BY EmptyElements
<1>4. rows \in Seq(RowSet) /\ n \in Nat
  BY <1>0, ListTypes DEF SortInv
<1>5. /\ rows' \in Seq(RowSet) /\ Len(rows') = n /\ Sorted(rows')
      /\ \E pi : Rearranges(pi, rows, rows')
  BY <1>0, <1>1, <1>4, SortsRearrange
<1>6. PICK pi : Permutation(pi, n) /\ \A k \in 1..n : rows'[k] = rows[pi[k]]
  BY <1>0, <1>5 DEF Rearranges
<1>7. \A f, k : InRun(f, k)' <=> InRun(f, k)
  BY <1>1, <1>2, <1>3 DEF InRun
<1>8. /\ \A k : InBuffer(k) <=> k \in 1..n
      /\ \A k : InBuffer(k)' <=> k \in 1..n
  BY <1>0, <1>1, <1>2, <1>3, <1>4, <1>5 DEF InBuffer, Spilled
<1>9. \A x, f, k : /\ Holds(x, f, k)' <=> Holds(x, f, k)
                   /\ x # "buffer" /\ Holds(x, f, k) => Value(x, f, k)' = Value(x, f, k)
  BY <1>1, <1>2, <1>7, <1>8 DEF Holds, InRun, Value
<1>10. \A f, k : /\ Holds("buffer", f, k) <=> f = 0 /\ k \in 1..n
                 /\ k \in 1..n => Value("buffer", 0, k)' = Value("buffer", 0, pi[k])
  BY <1>6, <1>8 DEF Holds, Value
<1>11. RowsTraced'
  <2>1. source' = source /\ pulled' = pulled
    BY <1>1
  <2> QED BY <2>1, <1>4, <1>6, <1>9, <1>10, BufferPermuted
<1>12. Stages' /\ MergeInOrder' /\ CursorRows'
  BY <1>1, <1>2 DEF Stages, MergeInOrder, CursorRows
<1>13. RunsInOrder'
  BY <1>2, <1>3 DEF RunsInOrder, Sorted
<1>14. BufferInOrder'
  BY <1>1, <1>2, <1>3, <1>5 DEF BufferInOrder, Spilled
<1> QED BY <1>11, <1>12, <1>13, <1>14

LEMMA SortInMemoryData == SortInv /\ DataInv /\ SortInMemory => DataInv'
<1> SUFFICES ASSUME SortInv, DataInv, SortInMemory PROVE DataInv'
  OBVIOUS
<1> USE DEF DataInv
<1>0. PICK n : n = Len(rows)
  OBVIOUS
<1>1. /\ UNCHANGED <<source, pulled, output, out_row, group, writer, runs, cursors>>
      /\ rows' \in SortsOf(rows) /\ pulled = Len(source)
      /\ pc = "pull" /\ pc' = "memory" /\ Opened' = Opened /\ ToSet(group)' = ToSet(group)
  BY DEF SortInMemory, mergeVars, storeVars, Opened
<1>2. rows \in Seq(RowSet) /\ n \in Nat
  BY <1>0, ListTypes DEF SortInv
<1>3. /\ rows' \in Seq(RowSet) /\ Len(rows') = n /\ Sorted(rows')
      /\ \E pi : Rearranges(pi, rows, rows')
  BY <1>0, <1>1, <1>2, SortsRearrange
<1>4. PICK pi : Permutation(pi, n) /\ \A k \in 1..n : rows'[k] = rows[pi[k]]
  BY <1>0, <1>3 DEF Rearranges
<1>5. output = << >> /\ Len(output) = 0
  BY <1>1, EmptyElements DEF Stages
<1>6. \A f, k : InRun(f, k)' <=> InRun(f, k)
  BY <1>1 DEF InRun, Remains
<1>7. /\ \A k : InBuffer(k) <=> k \in 1..n
      /\ \A k : InBuffer(k)' <=> k \in 1..n
  BY <1>0, <1>1, <1>2, <1>3, <1>5 DEF InBuffer
<1>8. \A x, f, k : /\ Holds(x, f, k)' <=> Holds(x, f, k)
                   /\ x # "buffer" /\ Holds(x, f, k) => Value(x, f, k)' = Value(x, f, k)
  BY <1>1, <1>6, <1>7 DEF Holds, Value
<1>9. \A f, k : /\ Holds("buffer", f, k) <=> f = 0 /\ k \in 1..n
                /\ k \in 1..n => Value("buffer", 0, k)' = Value("buffer", 0, pi[k])
  BY <1>4, <1>7 DEF Holds, Value
<1>10. RowsTraced'
  <2>1. source' = source /\ pulled' = pulled
    BY <1>1
  <2> QED BY <2>1, <1>2, <1>4, <1>8, <1>9, BufferPermuted
<1>11. Stages' /\ MergeInOrder' /\ RunsInOrder' /\ BufferInOrder'
  BY <1>1, <1>2, <1>3, <1>5 DEF Stages, MergeInOrder, RunsInOrder, BufferInOrder
<1>12. CursorRows'
  BY <1>1 DEF CursorRows
<1> QED BY <1>10, <1>11, <1>12

LEMMA SpillRowData == SortInv /\ DataInv /\ SpillRow => DataInv'
<1> SUFFICES ASSUME SortInv, DataInv, SpillRow PROVE DataInv'
  OBVIOUS
<1> USE DEF DataInv
<1>0. PICK n, w : n = Spilled + 1 /\ w = writer
  OBVIOUS
<1>1. /\ UNCHANGED <<source, pulled, rows, output, out_row, group, writer>>
      /\ pc = "spill" /\ pc' = "spill" /\ Spilled < Len(rows) /\ next_id' = next_id
      /\ Runs!AppendRow(w, rows[n]) /\ group = << >> /\ Opened = 0 /\ out_row = NoRow
  BY <1>0 DEF SpillRow, pullVars, mergeVars, Runs!AppendRow, SortInv, ListPhase, CursorPhase, Merging,
     RowPhase
<1>2. /\ w \in DOMAIN runs /\ w \in Nat /\ runs[w].rows \in Seq(RowSet)
      /\ Spilled = Len(runs[w].rows) /\ Spilled \in Nat
  <2>1. w \in DOMAIN runs
    BY <1>1 DEF Runs!AppendRow
  <2>2. runs[w].rows \in Seq(RowSet) /\ w \in Nat
    BY <2>1 DEF SortInv, StoreTyped, RunType, TypeOK
  <2> QED BY <1>0, <2>1, <2>2, SequenceFacts DEF Spilled
<1>3. n \in 1..Len(rows) /\ rows[n] \in RowSet /\ n \in Nat /\ Len(rows) \in Nat
  <2>1. Len(rows) \in Nat
    BY ListTypes DEF SortInv
  <2>2. n \in 1..Len(rows)
    BY <1>0, <1>1, <1>2, <2>1
  <2> QED BY <2>1, <2>2, ListTypes, SequenceFacts DEF SortInv
<1>4. /\ DOMAIN runs' = DOMAIN runs
      /\ \A g \in DOMAIN runs \ {w} : runs'[g] = runs[g]
      /\ runs'[w].rows = Append(runs[w].rows, rows[n]) /\ Opened' = 0
  BY <1>1, <1>3, AppendRowFiles
<1>5. /\ Len(runs'[w].rows) = n /\ runs'[w].rows[n] = rows[n]
      /\ \A k \in 1..Spilled : runs'[w].rows[k] = runs[w].rows[k]
  BY <1>0, <1>2, <1>3, <1>4, AppendElements
<1>6. Spilled' = n
  BY <1>0, <1>1, <1>5 DEF Spilled
<1>7. \A k : (k \in 1..n <=> k \in 1..Spilled \/ k = n) /\ n \notin 1..Spilled
  BY <1>0, <1>2
<1>8. ToSet(group) = {} /\ ToSet(group)' = {}
  BY <1>1, EmptyElements
<1>9. /\ \A f, k : InRun(f, k) <=> f \in DOMAIN runs /\ k \in 1..Len(runs[f].rows)
      /\ \A f, k : InRun(f, k)' <=> f \in DOMAIN runs /\ k \in 1..Len(runs'[f].rows)
  BY <1>1, <1>4, <1>8 DEF InRun
<1>10. \A f, k : /\ InRun(f, k)' <=> InRun(f, k) \/ (f = w /\ k = n)
                 /\ InRun(f, k) => ~ (f = w /\ k = n)
                 /\ InRun(f, k) => runs'[f].rows[k] = runs[f].rows[k]
  BY <1>2, <1>4, <1>5, <1>7, <1>9
<1>11. \A k : /\ InBuffer(k)' <=> InBuffer(k) /\ k # n
              /\ InBuffer(n)
  <2>1. \A k : /\ InBuffer(k)' <=> k \in 1..Len(rows) /\ k > n
               /\ InBuffer(k) <=> k \in 1..Len(rows) /\ k > Spilled
    BY <1>1, <1>6 DEF InBuffer
  <2>2. \A k \in 1..Len(rows) : k > n <=> k > Spilled /\ k # n
    BY <1>0, <1>2, <1>3
  <2>3. n > Spilled
    BY <1>0, <1>2
  <2> QED BY <1>3, <2>1, <2>2, <2>3
<1>12. \A x, f, k : Holds(x, f, k)' <=> \/ Holds(x, f, k) /\ ~ (x = "buffer" /\ f = 0 /\ k = n)
                                        \/ x = "run" /\ f = w /\ k = n
  BY <1>1, <1>10, <1>11 DEF Holds
<1>13. \A x, f, k : Holds(x, f, k) => Value(x, f, k)' = Value(x, f, k)
  BY <1>1, <1>10 DEF Holds, Value
<1>14. /\ Holds("buffer", 0, n) /\ ~ Holds("run", w, n)
       /\ Value("run", w, n)' = Value("buffer", 0, n)
  BY <1>5, <1>10, <1>11 DEF Holds, Value
<1>15. RowsTraced'
  <2>1. source' = source /\ pulled' = pulled /\ "buffer" \in Kinds /\ "run" \in Kinds
    BY <1>1 DEF Kinds
  <2>2. Moved("buffer", 0, n, "run", w, n)
    BY <2>1, <1>2, <1>3, <1>12, <1>13, <1>14 DEF Moved
  <2> QED BY <2>1, <2>2, RowMoves
<1>16. Stages' /\ MergeInOrder' /\ CursorRows'
  BY <1>1, <1>4 DEF Stages, MergeInOrder, CursorRows
<1>17. BufferInOrder'
  BY <1>0, <1>1, <1>5, <1>6, <1>7 DEF BufferInOrder
<1>18. RunsInOrder'
  <2>1. Sorted(runs'[w].rows)
    <3>1. \A k \in 1..n : runs'[w].rows[k] = rows[k] /\ k \in 1..Len(rows)
      BY <1>0, <1>1, <1>3, <1>5, <1>7 DEF BufferInOrder
    <3>2. Sorted(rows)
      BY <1>1 DEF BufferInOrder
    <3> QED BY <1>5, <3>1, <3>2 DEF Sorted
  <2> QED BY <1>4, <2>1 DEF RunsInOrder
<1> QED BY <1>15, <1>16, <1>17, <1>18

\* The merge takes the row on top of the heap: it is the next one of its run, and
\* comes before every row still in the runs of the merge.
LEMMA TopTaken ==
  ASSUME SortInv, DataInv, pc \in {"pop", "external"}, pc' \in {"append", "external"},
         NEW i, OnTop(i), Runs!NextRow(i), next_id' = next_id, group' = group
  PROVE  /\ runs' = runs /\ group[i] \in ToSet(group) /\ group[i] \in Nat
         /\ cursors[i].row \in RowSet /\ cursors[i].row # NoRow
         /\ CursorRows'
         /\ \A g, j : g \in ToSet(group) /\ InRun(g, j) => InOrder(cursors[i].row, runs[g].rows[j])
         /\ \E k \in Nat : /\ InRun(group[i], k) /\ runs[group[i]].rows[k] = cursors[i].row
                           /\ \A g, j : InRun(g, j)' <=> InRun(g, j) /\ ~ (g = group[i] /\ j = k)
<1> USE DEF DataInv
<1>1. /\ i \in 1..Opened /\ i \in DOMAIN cursors /\ cursors[i].row # NoRow /\ i \in Heap
      /\ Opened = Len(group)
  BY GroupRuns DEF OnTop, Heap, SortInv, CursorPhase
<1>2. PICK f, r, all, n, k :
        /\ f = group[i] /\ r = Len(cursors[i].rest) /\ all = runs[f].rows /\ n = Len(all)
        /\ k = n - r
  OBVIOUS
<1>3. /\ f \in ToSet(group) /\ f \in DOMAIN runs /\ all \in Seq(RowSet) /\ n \in Nat
      /\ cursors[i].rest \in Seq(RowSet) /\ r \in Nat /\ cursors[i].row \in RowSet
      /\ i \in 1..Len(group)
  BY <1>1, <1>2, GroupRuns
<1>4. f \in Nat
  BY <1>3 DEF SortInv, TypeOK, StoreTyped
<1>5. CursorAt(all, cursors[i].rest, cursors[i].row) /\ Remains(i) = r + 1
  BY <1>1, <1>2 DEF CursorRows, Remains
<1>6. r < n /\ k \in 1..n /\ all[k] = cursors[i].row
  <2>1. r < n /\ cursors[i].row = all[n - r]
    BY <1>1, <1>2, <1>5 DEF CursorAt
  <2>2. k \in 1..n
    <3>1. n - r \in 1..n
      BY <1>3, <2>1
    <3> QED BY <1>2, <3>1
  <2> QED BY <1>2, <2>1, <2>2
<1>7. /\ Opened' = Opened /\ runs' = runs
      /\ \A j \in DOMAIN cursors \ {i} : cursors'[j] = cursors[j]
      /\ IF cursors[i].rest = << >>
         THEN cursors'[i].rest = << >> /\ cursors'[i].row = NoRow
         ELSE cursors'[i].rest = Tail(cursors[i].rest) /\ cursors'[i].row = Head(cursors[i].rest)
  BY NextRowMoves
<1>8. /\ CursorAt(all, cursors'[i].rest, cursors'[i].row)
      /\ cursors'[i].row = NoRow => cursors'[i].rest = << >>
      /\ Len(cursors'[i].rest) = (IF cursors'[i].row = NoRow THEN r ELSE r - 1)
  <2>1. CASE cursors[i].rest = << >>
    <3>1. r = 0 /\ Len(<< >>) = 0
      BY <1>2, <2>1, EmptyElements
    <3>2. cursors'[i].rest = << >> /\ cursors'[i].row = NoRow
      BY <1>7, <2>1
    <3> QED BY <1>3, <3>1, <3>2 DEF CursorAt
  <2>2. CASE cursors[i].rest # << >>
    <3>1. /\ CursorAt(all, Tail(cursors[i].rest), Head(cursors[i].rest))
          /\ Len(Tail(cursors[i].rest)) = r - 1
          /\ Head(cursors[i].rest) # NoRow
      BY <1>2, <1>3, <1>5, <2>2, CursorAdvances, SortAssumption
    <3>2. cursors'[i].rest = Tail(cursors[i].rest) /\ cursors'[i].row = Head(cursors[i].rest)
      BY <1>7, <2>2
    <3> QED BY <3>1, <3>2
  <2> QED BY <2>1, <2>2
<1>9. Remains(i)' = r
  <2>1. CASE cursors'[i].row = NoRow
    BY <1>3, <1>8, <2>1 DEF Remains
  <2>2. CASE cursors'[i].row # NoRow
    BY <1>3, <1>8, <2>2 DEF Remains
  <2> QED BY <2>1, <2>2
<1>10. \A m \in 1..Opened : m # i => Remains(m)' = Remains(m)
  BY <1>7, GroupRuns DEF Remains
<1>11. \A m \in 1..Opened : group[m] = f <=> m = i
  BY <1>1, <1>2, GroupRuns
<1>12. \A g, j : InRun(g, j)' <=> InRun(g, j) /\ ~ (g = f /\ j = k)
  <2>1. \A g, j :
          /\ InRun(g, j)' <=> /\ g \in DOMAIN runs /\ j \in 1..Len(runs[g].rows)
                              /\ \A m \in 1..Opened : group[m] = g => j > Len(runs[g].rows) - Remains(m)'
          /\ InRun(g, j) <=> /\ g \in DOMAIN runs /\ j \in 1..Len(runs[g].rows)
                             /\ \A m \in 1..Opened : group[m] = g => j > Len(runs[g].rows) - Remains(m)
    BY <1>7 DEF InRun
  <2>2. ASSUME NEW g, NEW j, g # f PROVE InRun(g, j)' <=> InRun(g, j)
    BY <1>2, <1>10, <2>1, <2>2
  <2>3. ASSUME NEW j \in 1..n PROVE InRun(f, j)' <=> InRun(f, j) /\ j # k
    <3>1. InRun(f, j)' <=> j > n - r
      BY <1>1, <1>2, <1>3, <1>9, <1>11, <2>1
    <3>2. InRun(f, j) <=> j > n - (r + 1)
      BY <1>1, <1>2, <1>3, <1>5, <1>11, <2>1
    <3>3. j > n - r <=> j > n - (r + 1) /\ j # n - r
      BY <1>3
    <3> QED BY <1>2, <3>1, <3>2, <3>3
  <2>4. \A j : InRun(f, j) \/ InRun(f, j)' => j \in 1..n
    BY <1>2, <2>1
  <2> QED BY <2>2, <2>3, <2>4
<1>13. InRun(f, k)
  <2>1. k > n - Remains(i)
    <3>1. n - r > n - (r + 1)
      BY <1>3
    <3> QED BY <1>2, <1>5, <3>1
  <2> QED BY <1>2, <1>3, <1>6, <1>11, <2>1 DEF InRun
<1>14. CursorRows'
  <2>1. \A m \in 1..Opened : m # i => /\ cursors'[m] = cursors[m]
                                      /\ CursorAt(runs[group[m]].rows, cursors[m].rest, cursors[m].row)
                                      /\ cursors[m].row = NoRow => cursors[m].rest = << >>
    BY <1>7, GroupRuns DEF CursorRows
  <2>2. pc' # "prime" /\ pc' # "close"
    OBVIOUS
  <2> QED BY <1>2, <1>7, <1>8, <2>1, <2>2 DEF CursorRows
<1>15. ASSUME NEW g \in ToSet(group), NEW j, InRun(g, j)
       PROVE  InOrder(cursors[i].row, runs[g].rows[j])
  <2>1. PICK m \in 1..Len(group) : group[m] = g
    BY GroupRuns
  <2>2. PICK s, rm, l : s = runs[g].rows /\ rm = Len(cursors[m].rest) /\ l = Len(s)
    OBVIOUS
  <2>3. /\ m \in 1..Opened /\ m \in DOMAIN cursors /\ rm \in Nat /\ g \in DOMAIN runs
        /\ s \in Seq(RowSet) /\ l \in Nat /\ cursors[m].row \in RowSet \cup {NoRow}
    BY <1>1, <2>1, <2>2, GroupRuns
  <2>4. j \in 1..l /\ j > l - Remains(m)
    BY <1>15, <2>1, <2>2, <2>3 DEF InRun
  <2>5. CursorAt(s, cursors[m].rest, cursors[m].row)
    BY <2>1, <2>2, <2>3 DEF CursorRows
  <2>6. cursors[m].row # NoRow
    <3>1. SUFFICES ASSUME cursors[m].row = NoRow PROVE FALSE
      OBVIOUS
    <3>2. cursors[m].rest = << >>
      BY <2>3, <3>1 DEF CursorRows
    <3>3. Remains(m) = 0
      BY <3>1, <3>2, EmptyElements DEF Remains
    <3> QED BY <2>3, <2>4, <3>3
  <2>7. Remains(m) = rm + 1 /\ m \in Heap
    BY <2>2, <2>3, <2>6 DEF Remains, Heap
  <2>8. PICK h : h = l - rm
    OBVIOUS
  <2>9. h \in 1..l /\ s[h] = cursors[m].row /\ h <= j
    <3>1. rm < l /\ cursors[m].row = s[l - rm]
      BY <2>2, <2>5, <2>6 DEF CursorAt
    <3>2. l - rm \in 1..l
      BY <2>3, <3>1
    <3>3. j > l - (rm + 1)
      BY <2>4, <2>7
    <3>4. l - rm <= j
      BY <2>3, <2>4, <3>3
    <3> QED BY <2>8, <3>1, <3>2, <3>4
  <2>10. InOrder(cursors[i].row, cursors[m].row)
    BY <2>7, OnTopInOrder
  <2>11. h # j => InOrder(s[h], s[j])
    <3>1. h < j <=> h # j
      BY <2>3, <2>4, <2>9
    <3> QED BY <2>2, <2>3, <2>4, <2>9, <3>1 DEF RunsInOrder, Sorted
  <2>12. s[j] \in RowSet /\ s[h] \in RowSet
    <3>1. \A q \in 1..l : s[q] \in RowSet
      BY <2>2, <2>3, SequenceFacts
    <3> QED BY <2>4, <2>9, <3>1
  <2> QED BY <1>3, <2>2, <2>9, <2>10, <2>11, <2>12, InOrderTransitive
<1>16. \E q \in Nat : /\ InRun(group[i], q) /\ runs[group[i]].rows[q] = cursors[i].row
                     /\ \A g, j : InRun(g, j)' <=> InRun(g, j) /\ ~ (g = group[i] /\ j = q)
  <2>1. k \in Nat
    BY <1>3, <1>6
  <2> QED BY <1>2, <1>6, <1>12, <1>13, <2>1
<1> QED BY <1>1, <1>2, <1>3, <1>4, <1>7, <1>14, <1>15, <1>16

LEMMA PopRowData == SortInv /\ DataInv /\ PopRow => DataInv'
<1> SUFFICES ASSUME SortInv, DataInv, PopRow PROVE DataInv'
  OBVIOUS
<1> USE DEF DataInv
<1>1. /\ UNCHANGED <<source, pulled, rows, output, group, writer>>
      /\ pc = "pop" /\ pc' = "append" /\ next_id' = next_id /\ out_row = NoRow
      /\ ToSet(group)' = ToSet(group) /\ writer # NoRun
  BY DEF PopRow, pullVars, SortInv, RowPhase, WriterPhase
<1>2. PICK i : OnTop(i) /\ out_row' = cursors[i].row /\ Runs!NextRow(i)
  BY DEF PopRow
<1>3. PICK f : f = group[i]
  OBVIOUS
<1>4. /\ runs' = runs /\ f \in ToSet(group) /\ f \in Nat
      /\ out_row' \in RowSet /\ out_row' # NoRow /\ CursorRows'
      /\ \A g, j : g \in ToSet(group) /\ InRun(g, j) => InOrder(out_row', runs[g].rows[j])
      /\ \E k \in Nat : /\ InRun(f, k) /\ runs[f].rows[k] = out_row'
                        /\ \A g, j : InRun(g, j)' <=> InRun(g, j) /\ ~ (g = f /\ j = k)
  BY <1>1, <1>2, <1>3, TopTaken
<1>5. PICK k \in Nat : /\ InRun(f, k) /\ runs[f].rows[k] = out_row'
                       /\ \A g, j : InRun(g, j)' <=> InRun(g, j) /\ ~ (g = f /\ j = k)
  BY <1>4
<1>6. \A j : InBuffer(j)' <=> InBuffer(j)
  BY <1>1 DEF InBuffer
<1>7. \A x, g, j : Holds(x, g, j)' <=> \/ Holds(x, g, j) /\ ~ (x = "run" /\ g = f /\ j = k)
                                       \/ x = "out" /\ g = 0 /\ j = 0
  BY <1>1, <1>4, <1>5, <1>6 DEF Holds
<1>8. \A x, g, j : Holds(x, g, j) => Value(x, g, j)' = Value(x, g, j)
  BY <1>1, <1>4 DEF Holds, Value
<1>9. /\ Holds("run", f, k) /\ ~ Holds("out", 0, 0)
      /\ Value("out", 0, 0)' = Value("run", f, k)
  BY <1>1, <1>5 DEF Holds, Value
<1>10. RowsTraced'
  <2>1. source' = source /\ pulled' = pulled /\ "out" \in Kinds /\ "run" \in Kinds
    BY <1>1 DEF Kinds
  <2>2. Moved("run", f, k, "out", 0, 0)
    BY <2>1, <1>4, <1>7, <1>8, <1>9 DEF Moved
  <2> QED BY <2>1, <2>2, RowMoves
<1>11. Stages' /\ BufferInOrder' /\ RunsInOrder'
  BY <1>1, <1>4 DEF Stages, BufferInOrder, RunsInOrder
<1>12. MergeInOrder'
  <2>1. \A q \in 1..Len(runs[writer].rows) : InOrder(runs[writer].rows[q], out_row')
    BY <1>1, <1>4, <1>5 DEF MergeInOrder
  <2>2. \A g, j : InRun(g, j)' => InRun(g, j)
    BY <1>5
  <2> QED BY <1>1, <1>4, <2>1, <2>2 DEF MergeInOrder
<1> QED BY <1>4, <1>10, <1>11, <1>12

LEMMA AppendMergedData == SortInv /\ DataInv /\ AppendMerged => DataInv'
<1> SUFFICES ASSUME SortInv, DataInv, AppendMerged PROVE DataInv'
  OBVIOUS
<1> USE DEF DataInv
<1>0. PICK w, n, row : w = writer /\ n = Len(runs[w].rows) + 1 /\ row = out_row
  OBVIOUS
<1>1. /\ UNCHANGED <<source, pulled, rows, output, group, writer>>
      /\ pc = "append" /\ pc' = "pop" /\ next_id' = next_id /\ out_row' = NoRow /\ row # NoRow
      /\ ToSet(group)' = ToSet(group) /\ Runs!AppendRow(w, row) /\ w # NoRun
  BY <1>0 DEF AppendMerged, pullVars, SortInv, RowPhase, WriterPhase
<1>2. /\ w \in DOMAIN runs /\ w \in Nat /\ runs[w].rows \in Seq(RowSet)
      /\ Len(runs[w].rows) \in Nat /\ n \in Nat /\ row \in RowSet
  <2>1. w \in DOMAIN runs /\ row \in RowSet
    BY <1>0, <1>1 DEF Runs!AppendRow, SortInv, TypeOK
  <2>2. runs[w].rows \in Seq(RowSet) /\ w \in Nat
    BY <2>1 DEF SortInv, StoreTyped, RunType, TypeOK
  <2>3. Len(runs[w].rows) \in Nat
    BY <2>2, SequenceFacts
  <2> QED BY <1>0, <2>1, <2>2, <2>3
<1>3. /\ DOMAIN runs' = DOMAIN runs
      /\ \A g \in DOMAIN runs \ {w} : runs'[g] = runs[g]
      /\ runs'[w].rows = Append(runs[w].rows, row) /\ Opened' = Opened /\ cursors' = cursors
  BY <1>1, <1>2, AppendRowFiles
<1>4. /\ Len(runs'[w].rows) = n /\ runs'[w].rows[n] = row
      /\ \A k \in 1..n - 1 : runs'[w].rows[k] = runs[w].rows[k]
      /\ n - 1 = Len(runs[w].rows)
  <2>1. n - 1 = Len(runs[w].rows)
    BY <1>0, <1>2
  <2> QED BY <1>0, <1>2, <1>3, <2>1, AppendElements
<1>5. \A k : (k \in 1..n <=> k \in 1..n - 1 \/ k = n) /\ n \notin 1..n - 1
  BY <1>0, <1>2
<1>6. w \notin ToSet(group)
  BY <1>0, <1>1 DEF SortInv, Filed, Written
<1>7. \A i \in 1..Opened : group[i] # w /\ Remains(i)' = Remains(i)
  BY <1>0, <1>3, GroupRuns DEF Remains
<1>8. \A f, k : /\ InRun(f, k)' <=> InRun(f, k) \/ (f = w /\ k = n)
                /\ InRun(f, k) => ~ (f = w /\ k = n)
                /\ InRun(f, k) => runs'[f].rows[k] = runs[f].rows[k]
  <2>1. ASSUME NEW f, NEW k, f # w
        PROVE  (InRun(f, k)' <=> InRun(f, k)) /\ (InRun(f, k) => runs'[f] = runs[f])
    BY <1>1, <1>3, <1>7, <2>1 DEF InRun
  <2>2. \A k : (InRun(w, k) <=> k \in 1..n - 1) /\ (InRun(w, k)' <=> k \in 1..n)
    BY <1>1, <1>2, <1>3, <1>4, <1>6, <1>7 DEF InRun
  <2> QED BY <1>4, <1>5, <2>1, <2>2
<1>9. \A k : InBuffer(k)' <=> InBuffer(k)
  BY <1>1 DEF InBuffer
<1>10. \A x, f, k : Holds(x, f, k)' <=> \/ Holds(x, f, k) /\ ~ (x = "out" /\ f = 0 /\ k = 0)
                                        \/ x = "run" /\ f = w /\ k = n
  BY <1>1, <1>8, <1>9 DEF Holds
<1>11. \A x, f, k : Holds(x, f, k) /\ Holds(x, f, k)' => Value(x, f, k)' = Value(x, f, k)
  BY <1>1, <1>8 DEF Holds, Value
<1>12. /\ Holds("out", 0, 0) /\ ~ Holds("run", w, n)
       /\ Value("run", w, n)' = Value("out", 0, 0)
  BY <1>0, <1>1, <1>4, <1>8 DEF Holds, Value
<1>13. RowsTraced'
  <2>1. source' = source /\ pulled' = pulled /\ "out" \in Kinds /\ "run" \in Kinds
    BY <1>1 DEF Kinds
  <2>2. Moved("out", 0, 0, "run", w, n)
    BY <2>1, <1>2, <1>10, <1>11, <1>12 DEF Moved
  <2> QED BY <2>1, <2>2, RowMoves
<1>14. Stages' /\ BufferInOrder'
  BY <1>1 DEF Stages, BufferInOrder
<1>15. CursorRows'
  <2>1. \A i \in 1..Opened : group[i] \in DOMAIN runs \ {w}
    BY <1>7, GroupRuns
  <2> QED BY <1>1, <1>3, <2>1 DEF CursorRows
<1>16. RunsInOrder'
  <2>1. Sorted(runs[w].rows) /\ \A k \in 1..n - 1 : InOrder(runs[w].rows[k], row)
    BY <1>0, <1>1, <1>2, <1>4 DEF RunsInOrder, MergeInOrder
  <2>2. \A k \in 1..n, j \in 1..n : k < j => k \in 1..n - 1
    BY <1>2
  <2>3. Sorted(runs'[w].rows)
    BY <1>4, <1>5, <2>1, <2>2 DEF Sorted
  <2> QED BY <1>3, <2>3 DEF RunsInOrder
<1>17. MergeInOrder'
  <2>1. ASSUME NEW k \in 1..n, NEW f \in ToSet(group), NEW j \in Nat, InRun(f, j)'
        PROVE  InOrder(runs'[w].rows[k], runs'[f].rows[j])
    <3>1. f # w /\ InRun(f, j) /\ runs'[f].rows[j] = runs[f].rows[j]
      BY <1>6, <1>8, <2>1
    <3>2. CASE k = n
      BY <1>0, <1>1, <1>4, <3>1, <3>2 DEF MergeInOrder
    <3>3. CASE k # n
      BY <1>0, <1>1, <1>4, <1>5, <3>1, <3>3, SMTT(30) DEF MergeInOrder
    <3> QED BY <3>2, <3>3
  <2> QED BY <1>0, <1>1, <1>4, <2>1 DEF MergeInOrder
<1> QED BY <1>13, <1>14, <1>15, <1>16, <1>17

-----------------------------------------------------------------------------
(* The abstract sorted stream *)

LEMMA RemainingBag == Abstract!Remaining = ToBag(source) (-) ToBag(output)
<1>1. \A s : Abstract!Cardinality(s) = Cardinality(s)
  BY DEF Abstract!Cardinality, Cardinality
<1>2. \A s : Abstract!ToBag(s) = ToBag(s)
  BY <1>1 DEF Abstract!ToBag, ToBag, Abstract!Range, Range
<1>3. \A a, b : Abstract!(-)(a, b) = a (-) b
  BY DEF Abstract!(-), (-)
<1> QED BY <1>2, <1>3 DEF Abstract!Remaining

LEMMA NextInMemoryData == SortInv /\ DataInv /\ NextInMemory => DataInv'
<1> SUFFICES ASSUME SortInv, DataInv, NextInMemory PROVE DataInv'
  OBVIOUS
<1> USE DEF DataInv
<1>0. PICK n : n = Len(output) + 1
  OBVIOUS
<1>1. /\ UNCHANGED <<source, pulled, rows, out_row, group, writer, runs, cursors>>
      /\ pc = "memory" /\ pc' = "memory" /\ Len(output) < Len(rows)
      /\ output' = Append(output, rows[n])
      /\ Opened' = Opened /\ ToSet(group)' = ToSet(group)
  BY <1>0 DEF NextInMemory, pullVars, mergeVars, storeVars, Opened
<1>2. /\ rows \in Seq(RowSet) /\ Len(rows) \in Nat /\ output \in Seq(RowSet) /\ Len(output) \in Nat
      /\ n \in 1..Len(rows) /\ n \in Nat /\ rows[n] \in RowSet
  <2>1. rows \in Seq(RowSet) /\ Len(rows) \in Nat /\ output \in Seq(RowSet) /\ Len(output) \in Nat
    BY ListTypes DEF SortInv
  <2>2. n \in 1..Len(rows) /\ n \in Nat
    BY <1>0, <1>1, <2>1
  <2> QED BY <2>1, <2>2, SequenceFacts
<1>3. /\ Len(output') = n /\ output'[n] = rows[n]
      /\ \A k \in 1..Len(output) : output'[k] = output[k]
  BY <1>0, <1>1, <1>2, AppendElements
<1>4. \A k : (k \in 1..n <=> k \in 1..Len(output) \/ k = n) /\ n \notin 1..Len(output)
  BY <1>0, <1>2
<1>5. \A f, k : InRun(f, k)' <=> InRun(f, k)
  BY <1>1 DEF InRun, Remains
<1>6. \A k : (InBuffer(k)' <=> InBuffer(k) /\ k # n) /\ InBuffer(n)
  <2>1. \A k : /\ InBuffer(k)' <=> k \in 1..Len(rows) /\ k > n
               /\ InBuffer(k) <=> k \in 1..Len(rows) /\ k > Len(output)
    BY <1>1, <1>3 DEF InBuffer
  <2>2. \A k \in 1..Len(rows) : k > n <=> k > Len(output) /\ k # n
    BY <1>0, <1>2
  <2>3. n > Len(output)
    BY <1>0, <1>2
  <2> QED BY <1>2, <2>1, <2>2, <2>3
<1>7. \A x, f, k : Holds(x, f, k)' <=> \/ Holds(x, f, k) /\ ~ (x = "buffer" /\ f = 0 /\ k = n)
                                       \/ x = "output" /\ f = 0 /\ k = n
  BY <1>1, <1>3, <1>4, <1>5, <1>6 DEF Holds
<1>8. \A x, f, k : Holds(x, f, k) => Value(x, f, k)' = Value(x, f, k)
  BY <1>1, <1>3 DEF Holds, Value
<1>9. /\ Holds("buffer", 0, n) /\ ~ Holds("output", 0, n)
      /\ Value("output", 0, n)' = Value("buffer", 0, n)
  BY <1>3, <1>4, <1>6 DEF Holds, Value
<1>10. RowsTraced'
  <2>1. source' = source /\ pulled' = pulled /\ "buffer" \in Kinds /\ "output" \in Kinds
    BY <1>1 DEF Kinds
  <2>2. Moved("buffer", 0, n, "output", 0, n)
    BY <2>1, <1>2, <1>7, <1>8, <1>9 DEF Moved
  <2> QED BY <2>1, <2>2, RowMoves
<1>11. Stages'
  BY <1>1, <1>2, <1>3 DEF Stages
<1>12. RunsInOrder' /\ BufferInOrder' /\ MergeInOrder'
  BY <1>1 DEF RunsInOrder, BufferInOrder, MergeInOrder
<1>13. CursorRows'
  BY <1>1 DEF CursorRows
<1> QED BY <1>10, <1>11, <1>12, <1>13

LEMMA NextExternalData == SortInv /\ DataInv /\ NextExternal => DataInv'
<1> SUFFICES ASSUME SortInv, DataInv, NextExternal PROVE DataInv'
  OBVIOUS
<1> USE DEF DataInv
<1>0. PICK n : n = Len(output) + 1
  OBVIOUS
<1>1. /\ UNCHANGED <<source, pulled, rows, out_row, group, writer>>
      /\ pc = "external" /\ pc' = "external" /\ next_id' = next_id
      /\ ToSet(group)' = ToSet(group)
  BY DEF NextExternal, pullVars, mergeVars
<1>2. PICK i : OnTop(i) /\ output' = Append(output, cursors[i].row) /\ Runs!NextRow(i)
  BY DEF NextExternal
<1>3. PICK f, row : f = group[i] /\ row = cursors[i].row
  OBVIOUS
<1>4. /\ runs' = runs /\ f \in ToSet(group) /\ f \in Nat
      /\ row \in RowSet /\ CursorRows'
      /\ \E k \in Nat : /\ InRun(f, k) /\ runs[f].rows[k] = row
                        /\ \A g, j : InRun(g, j)' <=> InRun(g, j) /\ ~ (g = f /\ j = k)
  BY <1>1, <1>2, <1>3, TopTaken
<1>5. PICK k \in Nat : /\ InRun(f, k) /\ runs[f].rows[k] = row
                       /\ \A g, j : InRun(g, j)' <=> InRun(g, j) /\ ~ (g = f /\ j = k)
  BY <1>4
<1>6. output \in Seq(RowSet) /\ Len(output) \in Nat /\ n \in Nat
  BY <1>0, ListTypes DEF SortInv
<1>7. /\ Len(output') = n /\ output'[n] = row
      /\ \A j \in 1..Len(output) : output'[j] = output[j]
  BY <1>0, <1>2, <1>3, <1>4, <1>6, AppendElements
<1>8. \A j : (j \in 1..n <=> j \in 1..Len(output) \/ j = n) /\ n \notin 1..Len(output)
  BY <1>0, <1>6
<1>9. \A j : InBuffer(j)' <=> InBuffer(j)
  BY <1>1 DEF InBuffer
<1>10. \A x, g, j : Holds(x, g, j)' <=> \/ Holds(x, g, j) /\ ~ (x = "run" /\ g = f /\ j = k)
                                        \/ x = "output" /\ g = 0 /\ j = n
  BY <1>1, <1>5, <1>7, <1>8, <1>9 DEF Holds
<1>11. \A x, g, j : Holds(x, g, j) => Value(x, g, j)' = Value(x, g, j)
  BY <1>1, <1>4, <1>7 DEF Holds, Value
<1>12. /\ Holds("run", f, k) /\ ~ Holds("output", 0, n)
       /\ Value("output", 0, n)' = Value("run", f, k)
  BY <1>5, <1>7, <1>8 DEF Holds, Value
<1>13. RowsTraced'
  <2>1. source' = source /\ pulled' = pulled /\ "run" \in Kinds /\ "output" \in Kinds
    BY <1>1 DEF Kinds
  <2>2. Moved("run", f, k, "output", 0, n)
    BY <2>1, <1>4, <1>6, <1>10, <1>11, <1>12 DEF Moved
  <2> QED BY <2>1, <2>2, RowMoves
<1>14. Stages' /\ RunsInOrder' /\ BufferInOrder' /\ MergeInOrder'
  BY <1>1, <1>4 DEF Stages, RunsInOrder, BufferInOrder, MergeInOrder
<1> QED BY <1>4, <1>13, <1>14

LEMMA InitData == Init => DataInv
<1> SUFFICES ASSUME Init PROVE DataInv
  OBVIOUS
<1>1. /\ pc = "pull" /\ pulled = 0 /\ rows = << >> /\ output = << >> /\ out_row = NoRow
      /\ runs = << >> /\ cursors = << >> /\ writer = NoRun
  BY DEF Init, Runs!RunStoreInit
<1>2. DOMAIN runs = {} /\ DOMAIN cursors = {} /\ Len(<< >>) = 0
  <2>1. DOMAIN << >> = {} /\ Len(<< >>) = 0
    BY EmptyElements, SequenceFacts
  <2> QED BY <1>1, <2>1
<1>3. Opened = 0
  BY <1>2, FS_EmptySet DEF Opened
<1>4. \A x, f, k : ~ Holds(x, f, k)
  BY <1>1, <1>2 DEF Holds, InBuffer, InRun
<1>5. RowsTraced
  <2>1. Places = {}
    BY <1>4 DEF Places
  <2>2. IsTrace([p \in {} |-> 0], {}, Held, source, 0)
    BY DEF IsTrace
  <2> QED BY <1>1, <2>1, <2>2 DEF RowsTraced, Traced
<1>6. Stages /\ CursorRows /\ RunsInOrder /\ BufferInOrder /\ MergeInOrder
  BY <1>1, <1>2, <1>3 DEF Stages, CursorRows, RunsInOrder, BufferInOrder, MergeInOrder
<1> QED BY <1>5, <1>6 DEF DataInv

LEMMA NoStepData == DataInv /\ UNCHANGED vars => DataInv'
<1> SUFFICES ASSUME DataInv, UNCHANGED vars PROVE DataInv'
  OBVIOUS
<1> USE DEF DataInv
<1>1. UNCHANGED <<pc, source, pulled, rows, output, out_row, group, writer, runs, cursors>>
  BY DEF vars, pullVars, mergeVars, storeVars
<1>2. Opened' = Opened
  BY <1>1 DEF Opened
<1>3. \A x, f, k : (Holds(x, f, k)' <=> Holds(x, f, k)) /\ Value(x, f, k)' = Value(x, f, k)
  BY <1>1, <1>2 DEF Holds, Value, InBuffer, InRun, Spilled, Remains
<1>4. RowsTraced'
  BY <1>1, <1>3, RowsStay
<1>5. \A f, k : InRun(f, k)' <=> InRun(f, k)
  BY <1>1, <1>2 DEF InRun, Remains
<1>6. Stages' /\ CursorRows' /\ RunsInOrder' /\ BufferInOrder' /\ MergeInOrder'
  BY <1>1, <1>2, <1>5 DEF Stages, CursorRows, RunsInOrder, BufferInOrder, MergeInOrder, Spilled
<1> QED BY <1>4, <1>6

\* Every step keeps the rows in place and in order.
LEMMA StepData == SortInv /\ SortInv' /\ DataInv /\ [Next]_vars => DataInv'
<1> SUFFICES ASSUME SortInv, SortInv', DataInv, [Next]_vars PROVE DataInv'
  OBVIOUS
<1>1. CASE PushRow \/ BeginSpill \/ SpillRow \/ EndSpill \/ SortInMemory
  BY <1>1, PushRowData, BeginSpillData, SpillRowData, EndSpillData, SortInMemoryData
<1>2. CASE EndOfInput \/ BeginPass \/ PassThrough \/ EndPass \/ AllOpened
  BY <1>2, ListStepsData
<1>3. CASE BeginFinalMerge \/ BeginMerge \/ OpenRun \/ PrimeRun
  BY <1>3, BeginFinalMergeData, BeginMergeData, OpenRunData, PrimeRunData
<1>4. CASE PopRow \/ AppendMerged \/ EndOfRuns \/ CloseReader
  BY <1>4, PopRowData, AppendMergedData, EndOfRunsData, CloseReaderData
<1>5. CASE FinishMerge \/ DeleteInput \/ EndMerge \/ NextInMemory \/ NextExternal
  BY <1>5, FinishMergeData, DeleteInputData, EndMergeData, NextInMemoryData, NextExternalData
<1>6. CASE NextNone \/ UNCHANGED vars
  BY <1>6, NoStepData DEF NextNone
<1> QED BY <1>1, <1>2, <1>3, <1>4, <1>5, <1>6 DEF Next, Prepare

\* Every row pulled is in one place, in the buffer, in a run or delivered, and
\* the buffers, the runs and the merge are in order.
THEOREM RowsKept == Spec => []DataInv
<1>1. Init => SortInv /\ DataInv
  BY InitEstablishes, InitData
<1>2. (SortInv /\ DataInv) /\ [Next]_vars => (SortInv /\ DataInv)'
  BY StepKeeps, StepData
<1> QED BY <1>1, <1>2, PTL DEF Spec

-----------------------------------------------------------------------------
(* Delivery *)

\* Delivering a row that is held, and before which no other has to come, is a
\* step of the abstract stream.
LEMMA LeastDelivered ==
  ASSUME SortInv, DataInv, pulled = Len(source), source' = source,
         NEW x \in Kinds, x # "output", NEW f \in Nat, NEW k \in Nat, Holds(x, f, k),
         NEW row, row = Value(x, f, k), output' = Append(output, row),
         \A y \in Kinds, g \in Nat, j \in Nat :
           y # "output" /\ Holds(y, g, j) => InOrder(row, Value(y, g, j))
  PROVE  Abstract!StreamNext
<1> DEFINE e == [i \in 1..Len(output) |-> <<"output", 0, i>>]
           bag == Abstract!Remaining
<1>1. source \in Seq(RowSet) /\ output \in Seq(RowSet)
  BY ListTypes DEF SortInv
<1>2. Traced(Places, Held, source, Len(source))
  BY DEF DataInv, RowsTraced
<1>3. \A i \in 1..Len(output) : <<"output", 0, i>> \in Places /\ Held[<<"output", 0, i>>] = output[i]
  <2>1. \A i \in 1..Len(output) : i \in Nat /\ 0 \in Nat /\ "output" \in Kinds /\ Holds("output", 0, i)
                                  /\ Value("output", 0, i) = output[i]
    BY DEF Kinds, Holds, Value
  <2> QED BY <2>1, PlaceFacts
<1>4. /\ e \in [1..Len(output) -> Places] /\ \A i, j \in 1..Len(output) : e[i] = e[j] => i = j
      /\ \A i \in 1..Len(output) : Held[e[i]] = output[i]
  BY <1>3
<1>5. ASSUME NEW y
      PROVE  y \in DOMAIN bag <=> \E p \in Places : Held[p] = y /\ \A i \in 1..Len(output) : e[i] # p
  <2> HIDE DEF e
  <2> QED BY <1>1, <1>2, <1>4, RemainingPlaces, RemainingBag, SMTT(30)
<1>6. row \in DOMAIN bag
  <2>1. <<x, f, k>> \in Places /\ Held[<<x, f, k>>] = row
    BY PlaceFacts
  <2>2. \A i \in 1..Len(output) : e[i] # <<x, f, k>>
    OBVIOUS
  <2> HIDE DEF e, bag
  <2> QED BY <1>5, <2>1, <2>2
<1>7. ASSUME NEW other \in DOMAIN bag PROVE ~ RowLess(other, row)
  <2>1. PICK p \in Places : Held[p] = other /\ \A i \in 1..Len(output) : e[i] # p
    <3> HIDE DEF e, bag
    <3> QED BY <1>5
  <2>2. PICK y \in Kinds, g \in Nat, j \in Nat : p = <<y, g, j>>
    BY PlaceFacts
  <2>3. Holds(y, g, j) /\ other = Value(y, g, j)
    BY <2>1, <2>2, PlaceFacts
  <2>4. y # "output"
    <3>1. ASSUME y = "output" PROVE FALSE
      <4>1. j \in 1..Len(output) /\ g = 0
        BY <2>3, <3>1 DEF Holds
      <4> QED BY <2>1, <2>2, <3>1, <4>1
    <3> QED BY <3>1
  <2> QED BY <2>3, <2>4 DEF InOrder
<1> QED BY <1>6, <1>7 DEF Abstract!StreamNext, Abstract!Deliver, Abstract!BagIn, Abstract!BagToSet

LEMMA NextInMemoryDelivers == SortInv /\ DataInv /\ NextInMemory => Abstract!StreamNext
<1> SUFFICES ASSUME SortInv, DataInv, NextInMemory PROVE Abstract!StreamNext
  OBVIOUS
<1>0. PICK n : n = Len(output) + 1
  OBVIOUS
<1>1. /\ pc = "memory" /\ Len(output) < Len(rows) /\ source' = source
      /\ output' = Append(output, rows[n])
  BY <1>0 DEF NextInMemory, pullVars
<1>2. rows \in Seq(RowSet) /\ Len(rows) \in Nat /\ Len(output) \in Nat
  BY ListTypes DEF SortInv
<1>3. n \in 1..Len(rows) /\ n \in Nat /\ \A j \in 1..Len(rows) : j > Len(output) <=> n < j \/ n = j
  BY <1>0, <1>1, <1>2
<1>4. \A j \in 1..Len(rows) : rows[j] \in RowSet
  BY <1>2, SequenceFacts
<1>5. DOMAIN runs = {} /\ out_row = NoRow
  <2>1. current = << >> /\ next_runs = << >> /\ group = << >> /\ Written = {} /\ out_row = NoRow
    BY <1>1 DEF SortInv, ListPhase, WriterPhase, RowPhase, Written
  <2> QED BY <2>1, EmptyElements DEF SortInv, Filed
<1>6. /\ \A j : InBuffer(j) <=> j \in 1..Len(rows) /\ (n < j \/ n = j)
      /\ Sorted(rows) /\ pulled = Len(source)
  BY <1>1, <1>3 DEF InBuffer, DataInv, BufferInOrder, Stages
<1>7. Holds("buffer", 0, n) /\ rows[n] = Value("buffer", 0, n) /\ "buffer" \in Kinds
  BY <1>3, <1>6 DEF Holds, Value, Kinds
<1>8. ASSUME NEW y \in Kinds, NEW g \in Nat, NEW j \in Nat, y # "output", Holds(y, g, j)
      PROVE  InOrder(rows[n], Value(y, g, j))
  <2>1. y = "buffer" /\ InBuffer(j)
    BY <1>5, <1>8 DEF Holds, InRun
  <2>2. Value(y, g, j) = rows[j]
    BY <2>1 DEF Value
  <2>3. CASE n = j
    BY <1>3, <1>4, <2>2, <2>3, RowLessAsymmetric DEF InOrder
  <2>4. CASE n < j
    BY <1>3, <1>6, <2>1, <2>2, <2>4 DEF Sorted
  <2> QED BY <1>6, <2>1, <2>3, <2>4
<1> QED BY <1>1, <1>3, <1>6, <1>7, <1>8, LeastDelivered

LEMMA NextExternalDelivers == SortInv /\ DataInv /\ NextExternal => Abstract!StreamNext
<1> SUFFICES ASSUME SortInv, DataInv, NextExternal PROVE Abstract!StreamNext
  OBVIOUS
<1>1. /\ UNCHANGED <<source, group>> /\ pc = "external" /\ pc' = "external" /\ next_id' = next_id
  BY DEF NextExternal, pullVars, mergeVars
<1>2. PICK i : OnTop(i) /\ output' = Append(output, cursors[i].row) /\ Runs!NextRow(i)
  BY DEF NextExternal
<1>3. PICK f, row : f = group[i] /\ row = cursors[i].row
  OBVIOUS
<1>4. /\ f \in Nat
      /\ \A g, j : g \in ToSet(group) /\ InRun(g, j) => InOrder(row, runs[g].rows[j])
      /\ \E k \in Nat : InRun(f, k) /\ runs[f].rows[k] = row
  BY <1>1, <1>2, <1>3, TopTaken
<1>5. PICK k \in Nat : InRun(f, k) /\ runs[f].rows[k] = row
  BY <1>4
<1>6. DOMAIN runs = ToSet(group) /\ out_row = NoRow
  <2>1. current = << >> /\ next_runs = << >> /\ Written = {} /\ out_row = NoRow
    BY <1>1 DEF SortInv, ListPhase, WriterPhase, RowPhase, Written, Merging
  <2> QED BY <2>1, EmptyElements DEF SortInv, Filed
<1>7. \A j : ~ InBuffer(j)
  <2>1. rows = << >>
    BY <1>1 DEF DataInv, Stages
  <2> QED BY <2>1, EmptyElements DEF InBuffer
<1>8. Holds("run", f, k) /\ row = Value("run", f, k) /\ "run" \in Kinds /\ pulled = Len(source)
  BY <1>1, <1>5 DEF Holds, Value, Kinds, DataInv, Stages
<1>9. ASSUME NEW y \in Kinds, NEW g \in Nat, NEW j \in Nat, y # "output", Holds(y, g, j)
      PROVE  InOrder(row, Value(y, g, j))
  <2>1. y = "run" /\ InRun(g, j)
    BY <1>6, <1>7, <1>9 DEF Holds
  <2>2. g \in ToSet(group) /\ Value(y, g, j) = runs[g].rows[j]
    BY <1>6, <2>1 DEF InRun, Value
  <2> QED BY <1>4, <2>1, <2>2
<1>10. output' = Append(output, row) /\ source' = source
  BY <1>1, <1>2, <1>3
<1> QED BY <1>4, <1>8, <1>9, <1>10, LeastDelivered

\* The sort delivers its input, each row as often as the input has it, and no row
\* before one that is less, whatever was spilled and through however many passes:
\* next is a step of the abstract stream, and prepare is none.
THEOREM SortRefines == Spec => ImplementsSortedStream
<1>1. Init => Abstract!StreamInit
  BY DEF Init, Abstract!StreamInit
<1>2. SortInv /\ DataInv /\ [Next]_vars => [Abstract!StreamNext]_<<source, output>>
  <2> SUFFICES ASSUME SortInv, DataInv, [Next]_vars
               PROVE  Abstract!StreamNext \/ UNCHANGED <<source, output>>
    OBVIOUS
  <2>1. CASE NextInMemory
    BY <2>1, NextInMemoryDelivers
  <2>2. CASE NextExternal
    BY <2>2, NextExternalDelivers
  <2>3. CASE Prepare
    BY <2>3 DEF Prepare, PushRow, BeginSpill, SpillRow, EndSpill, SortInMemory, EndOfInput,
       BeginPass, PassThrough, EndPass, BeginFinalMerge, BeginMerge, OpenRun, PrimeRun, AllOpened,
       PopRow, AppendMerged, EndOfRuns, CloseReader, FinishMerge, DeleteInput, EndMerge,
       pullVars, mergeVars, storeVars
  <2>4. CASE NextNone \/ UNCHANGED vars
    BY <2>4 DEF NextNone, vars, pullVars
  <2> QED BY <2>1, <2>2, <2>3, <2>4 DEF Next
<1> QED BY <1>1, <1>2, SortInvariant, RowsKept, PTL DEF Spec, ImplementsSortedStream, Abstract!StreamSpec
=============================================================================
