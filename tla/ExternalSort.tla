---------------------------- MODULE ExternalSort ----------------------------
(***************************************************************************)
(* SortOperator (database/src/sort.rs): rows are buffered up to a budget;  *)
(* when they exceed it they are sorted and spilled as a run; passes merge  *)
(* the runs in groups of at most FanIn until one merge can take them all,  *)
(* and that merge delivers the rows.  Every call to temporary storage is a *)
(* step, an operation of RunStore.                                         *)
(***************************************************************************)
EXTENDS Naturals, Sequences, FiniteSets, FiniteSetsExt, SequencesExt

CONSTANTS
  RowSet,        \* the rows: sequences of column values
  RowBytes,      \* row -> estimate_heap_size
  SortKeys,      \* the sort keys: column and direction, most significant first
  SortRunBytes,  \* ctx.sort_run_bytes
  BlockSize,     \* ctx.temp_storage.block_size()
  MaxInput,      \* bound: rows of the input
  NoRow, NoRun

ASSUME SortAssumption ==
  /\ RowBytes \in [RowSet -> Nat \ {0}]
  /\ SortKeys \in Seq([idx : Nat, ascending : BOOLEAN])
  /\ \A row \in RowSet, k \in DOMAIN SortKeys : row[SortKeys[k].idx] \in Int
  /\ SortRunBytes \in Nat
  /\ BlockSize \in Nat \ {0} /\ MaxInput \in Nat
  /\ NoRow \notin RowSet
  /\ NoRun \notin Nat

VARIABLES
  pc,         \* where prepare, and then next, stand
  source,     \* the rows the underlying operator yields
  pulled,     \* how many of them were pulled
  rows,       \* the rows buffered
  current,    \* run ids this pass has not grouped yet
  next_runs,  \* run ids for the next pass
  group,      \* run ids of the merge under way
  writer,     \* the run being written, NoRun when there is none
  out_row,    \* the row the merge took from the heap and has not appended yet
  output,     \* the rows delivered by next
  next_id,    \* the id of the next temporary file
  runs, cursors  \* RunStore

pullVars  == <<source, pulled, rows>>
mergeVars == <<current, next_runs, group, writer, out_row>>
storeVars == <<next_id, runs, cursors>>
vars == <<pc, pullVars, mergeVars, output, storeVars>>

Runs == INSTANCE RunStore WITH RunIds <- Nat, Readers <- Nat, Rows <- RowSet

-----------------------------------------------------------------------------
(* Budgets.  Sizes are below 2^64 by far, so saturation never shows. *)

MaxSpillBatchPages    == 2048
MaxReaderPages        == 512
MaxTotalReaderPages   == 512
MinReaderPages        == 8
MiscReserveBytes      == 256 * 1024
RowSlotBytes          == 24  \* size_of::<Row>(), external

Clamp(n, low, high) == Max({low, Min({n, high})})

SpillBatchPages == Clamp(SortRunBytes \div (8 * BlockSize), 4, MaxSpillBatchPages)

WriterReserve == (SpillBatchPages + 1) * BlockSize + MiscReserveBytes

RowBudget == Max({BlockSize, IF SortRunBytes > WriterReserve
                             THEN SortRunBytes - WriterReserve ELSE 0})

ReaderBudget ==
  Clamp(SortRunBytes \div 4, BlockSize, MaxTotalReaderPages * BlockSize)

FanIn == Max({2, Max({1, ReaderBudget \div BlockSize}) \div MinReaderPages})

\* The capacity of a Vec that n rows were pushed to, one by one.
Capacity[n \in Nat] ==
  IF n = 0 THEN 0
  ELSE LET cap == Capacity[n - 1] IN
       IF n - 1 < cap THEN cap ELSE IF cap = 0 THEN 4 ELSE 2 * cap

BytesUsed(buffered) == FoldLeft(LAMBDA n, row : n + RowBytes[row], 0, buffered)

\* Bug: the growth of the Vec is forgotten.
ProjectedWithoutVec(row) == BytesUsed(rows) + RowBytes[row]

Projected(row) ==
  BytesUsed(rows) + RowBytes[row] + Capacity[Len(rows) + 1] * RowSlotBytes

-----------------------------------------------------------------------------
(* The order: compare_rows, and HeapItem's with ties broken by run index.
   The columns of a key have one type and no NaN: their values are numbered in
   their order. *)

KeyLess(key, a, b) ==
  IF key.ascending THEN a[key.idx] < b[key.idx] ELSE b[key.idx] < a[key.idx]

RowLess(a, b) ==
  \E k \in DOMAIN SortKeys :
    /\ KeyLess(SortKeys[k], a, b)
    /\ \A j \in 1..k - 1 : a[SortKeys[j].idx] = b[SortKeys[j].idx]

InOrder(a, b) == ~RowLess(b, a)

\* sort_unstable_by: any ordering of equal rows.
SortsOf(s) ==
  {t \in [DOMAIN s -> ToSet(s)] : ToBag(t) = ToBag(s) /\ IsSorted(t, InOrder)}

Heap == {i \in DOMAIN cursors : cursors[i].row # NoRow}

\* Bug: the runs are delivered one after the other.
OnTopByRun(i) == i \in Heap /\ \A j \in Heap : i <= j

OnTop(i) ==
  /\ i \in Heap
  /\ \A j \in Heap \ {i} :
       LET a == cursors[i].row
           b == cursors[j].row
       IN RowLess(a, b) \/ (~RowLess(b, a) /\ i < j)

-----------------------------------------------------------------------------
(* prepare: pulling rows and spilling runs. *)

BudgetReached == rows # << >> /\ Projected(source[pulled + 1]) >= RowBudget

PushRow ==
  /\ pc = "pull" /\ pulled < Len(source)
  /\ ~BudgetReached
  /\ rows' = Append(rows, source[pulled + 1])
  /\ pulled' = pulled + 1
  /\ UNCHANGED <<pc, source, mergeVars, output, storeVars>>

LastRowsLeft == pulled = Len(source) /\ current # << >> /\ rows # << >>

\* Bug: the next id is not advanced.
CreateRunAgain ==
  /\ Runs!Create(next_id)
  /\ writer' = next_id
  /\ UNCHANGED next_id

CreateRun ==
  /\ Runs!Create(next_id)
  /\ writer' = next_id
  /\ next_id' = next_id + 1

\* sort_rows, then the writer of spill_run.
BeginSpill ==
  /\ pc = "pull"
  /\ (pulled < Len(source) /\ BudgetReached) \/ LastRowsLeft
  /\ rows' \in SortsOf(rows)
  /\ CreateRun
  /\ pc' = "spill"
  /\ UNCHANGED <<source, pulled, current, next_runs, group, out_row, output>>

Spilled == Len(runs[writer].rows)

SpillRow ==
  /\ pc = "spill" /\ Spilled < Len(rows)
  /\ Runs!AppendRow(writer, rows[Spilled + 1])
  /\ UNCHANGED <<pc, pullVars, mergeVars, output, next_id>>

EndSpill ==
  /\ pc = "spill" /\ Spilled = Len(rows)
  /\ Runs!Finish(writer)
  /\ current' = Append(current, writer)
  /\ writer' = NoRun
  /\ rows' = << >>
  /\ pc' = "pull"
  /\ UNCHANGED <<source, pulled, next_runs, group, out_row, output, next_id>>

SortInMemory ==
  /\ pc = "pull" /\ pulled = Len(source) /\ current = << >>
  /\ rows' \in SortsOf(rows)
  /\ pc' = "memory"
  /\ UNCHANGED <<source, pulled, mergeVars, output, storeVars>>

EndOfInput ==
  /\ pc = "pull" /\ pulled = Len(source) /\ current # << >> /\ rows = << >>
  /\ pc' = "pass"
  /\ UNCHANGED <<pullVars, mergeVars, output, storeVars>>

-----------------------------------------------------------------------------
(* collapse_runs_for_grouped_merge: passes over chunks of FanIn runs. *)

BeginPass ==
  /\ pc = "pass" /\ Len(current) > FanIn
  /\ pc' = "group"
  /\ UNCHANGED <<pullVars, mergeVars, output, storeVars>>

\* Bug: chunks one run too short.
ChunkShort == SubSeq(current, 1, Min({FanIn - 1, Len(current)}))

Chunk == SubSeq(current, 1, Min({FanIn, Len(current)}))

AfterChunk == SubSeq(current, Len(Chunk) + 1, Len(current))

\* Bug: a lone last run is not carried to the next pass.
PassThroughLost ==
  /\ pc = "group" /\ current # << >> /\ Len(Chunk) = 1
  /\ current' = AfterChunk
  /\ UNCHANGED <<pc, pullVars, next_runs, group, writer, out_row, output, storeVars>>

PassThrough ==
  /\ pc = "group" /\ current # << >> /\ Len(Chunk) = 1
  /\ next_runs' = Append(next_runs, Chunk[1])
  /\ current' = AfterChunk
  /\ UNCHANGED <<pc, pullVars, group, writer, out_row, output, storeVars>>

BeginMerge ==
  /\ pc = "group" /\ current # << >> /\ Len(Chunk) > 1
  /\ CreateRun
  /\ group' = Chunk
  /\ current' = AfterChunk
  /\ pc' = "open"
  /\ UNCHANGED <<pullVars, next_runs, out_row, output>>

EndPass ==
  /\ pc = "group" /\ current = << >>
  /\ current' = next_runs
  /\ next_runs' = << >>
  /\ pc' = "pass"
  /\ UNCHANGED <<pullVars, group, writer, out_row, output, storeVars>>

\* One merge can take the runs that are left; it is the operator's output.
BeginFinalMerge ==
  /\ pc = "pass" /\ Len(current) <= FanIn
  /\ group' = current
  /\ current' = << >>
  /\ pc' = "open"
  /\ UNCHANGED <<pullVars, next_runs, writer, out_row, output, storeVars>>

-----------------------------------------------------------------------------
(* RunMerger::new and next_row, merge_run_group_to_temp. *)

\* Bug: every reader takes the whole budget.
ReaderPagesUnshared(num_runs) == Min({MaxReaderPages, Max({1, ReaderBudget \div BlockSize})})

\* reader_batch_pages, of each of the readers of a merge of some runs.
ReaderPages(num_runs) ==
  IF num_runs = 0 THEN 16
  ELSE Min({MaxReaderPages, Max({1, ReaderBudget \div (num_runs * BlockSize)})})

\* The readers opened, and the batches that they buffer.
Opened == Cardinality(DOMAIN cursors)

ReaderBytes == Opened * ReaderPages(Len(group)) * BlockSize

OpenRun ==
  /\ pc = "open" /\ Opened < Len(group)
  /\ Runs!Open(Opened + 1, group[Opened + 1])
  /\ pc' = "prime"
  /\ UNCHANGED <<pullVars, mergeVars, output, next_id>>

\* The first row of the run, if it has one, joins the heap.
PrimeRun ==
  /\ pc = "prime"
  /\ Runs!NextRow(Opened)
  /\ pc' = "open"
  /\ UNCHANGED <<pullVars, mergeVars, output, next_id>>

AllOpened ==
  /\ pc = "open" /\ Opened = Len(group)
  /\ pc' = IF writer = NoRun THEN "external" ELSE "pop"
  /\ UNCHANGED <<pullVars, mergeVars, output, storeVars>>

PopRow ==
  /\ pc = "pop"
  /\ \E i \in Heap :
       /\ OnTop(i)
       /\ out_row' = cursors[i].row
       /\ Runs!NextRow(i)
  /\ pc' = "append"
  /\ UNCHANGED <<pullVars, current, next_runs, group, writer, output, next_id>>

AppendMerged ==
  /\ pc = "append"
  /\ Runs!AppendRow(writer, out_row)
  /\ out_row' = NoRow
  /\ pc' = "pop"
  /\ UNCHANGED <<pullVars, current, next_runs, group, writer, output, next_id>>

EndOfRuns ==
  /\ pc = "pop" /\ Heap = {}
  /\ pc' = "close"
  /\ UNCHANGED <<pullVars, mergeVars, output, storeVars>>

CloseReader ==
  /\ pc = "close" /\ Opened > 0
  /\ Runs!Close(Opened)
  /\ UNCHANGED <<pc, pullVars, mergeVars, output, next_id>>

FinishMerge ==
  /\ pc = "close" /\ Opened = 0
  /\ Runs!Finish(writer)
  /\ pc' = "delete"
  /\ UNCHANGED <<pullVars, mergeVars, output, next_id>>

DeleteInput ==
  /\ pc = "delete" /\ group # << >>
  /\ Runs!Delete(Head(group))
  /\ group' = Tail(group)
  /\ UNCHANGED <<pc, pullVars, current, next_runs, writer, out_row, output, next_id>>

EndMerge ==
  /\ pc = "delete" /\ group = << >>
  /\ next_runs' = Append(next_runs, writer)
  /\ writer' = NoRun
  /\ pc' = "group"
  /\ UNCHANGED <<pullVars, current, group, out_row, output, storeVars>>

-----------------------------------------------------------------------------
(* next, once prepared. *)

NextInMemory ==
  /\ pc = "memory" /\ Len(output) < Len(rows)
  /\ output' = Append(output, rows[Len(output) + 1])
  /\ UNCHANGED <<pc, pullVars, mergeVars, storeVars>>

NextExternal ==
  /\ pc = "external"
  /\ \E i \in Heap :
       /\ OnTop(i)
       /\ output' = Append(output, cursors[i].row)
       /\ Runs!NextRow(i)
  /\ UNCHANGED <<pc, pullVars, mergeVars, next_id>>

Exhausted ==
  \/ pc = "memory" /\ Len(output) = Len(rows)
  \/ pc = "external" /\ Heap = {}

\* next returns None, as often as it is asked.
NextNone == Exhausted /\ UNCHANGED vars

Init ==
  /\ pc = "pull"
  /\ source \in UNION {[1..n -> RowSet] : n \in 0..MaxInput}
  /\ pulled = 0
  /\ rows = << >> /\ current = << >> /\ next_runs = << >> /\ group = << >>
  /\ writer = NoRun /\ out_row = NoRow
  /\ output = << >>
  /\ next_id = 0
  /\ Runs!RunStoreInit

Prepare ==
  \/ PushRow \/ BeginSpill \/ SpillRow \/ EndSpill \/ SortInMemory \/ EndOfInput
  \/ BeginPass \/ PassThrough \/ EndPass \/ BeginFinalMerge
  \/ BeginMerge \/ OpenRun \/ PrimeRun \/ AllOpened
  \/ PopRow \/ AppendMerged \/ EndOfRuns \/ CloseReader \/ FinishMerge
  \/ DeleteInput \/ EndMerge

Next == Prepare \/ NextInMemory \/ NextExternal \/ NextNone

\* prepare is a loop of one thread, and execute_query calls next until None.
Spec == Init /\ [][Next]_vars /\ WF_vars(Next)

-----------------------------------------------------------------------------
(* Properties *)

\* The state is well typed.
TypeOK ==
  /\ pc \in {"pull", "spill", "pass", "group", "open", "prime", "pop", "append",
             "close", "delete", "memory", "external"}
  /\ source \in Seq(RowSet) /\ pulled \in 0..Len(source)
  /\ rows \in Seq(RowSet) /\ output \in Seq(RowSet)
  /\ {current, next_runs, group} \subseteq Seq(0..next_id - 1)
  /\ writer \in 0..next_id - 1 \cup {NoRun}
  /\ out_row \in RowSet \cup {NoRow}
  /\ DOMAIN runs \subseteq 0..next_id - 1
  /\ DOMAIN cursors = 1..Opened

\* Every live temporary file is a run still to be merged or the one being
\* written, and is listed once: a merge leaks no input, and never deletes or
\* reads a run twice, through any number of passes and lone last runs.
LiveRunsReferenced ==
  LET listed == current \o next_runs \o group
                  \o IF writer = NoRun THEN << >> ELSE <<writer>>
  IN IsInjective(listed) /\ ToSet(listed) = DOMAIN runs

\* The buffered rows with the Vec that holds them, and the buffers of the writer
\* that spills them, fit in sort_run_bytes, unless one row alone is too large or
\* the reserve leaves nothing for rows; and the batches of the readers of one merge
\* fit in the reader budget, unless it has not a page for each of two readers.
MemoryWithinBudget ==
  /\ Len(rows) > 1 /\ pc \in {"pull", "spill"} /\ RowBudget > BlockSize =>
       BytesUsed(rows) + Capacity[Len(rows)] * RowSlotBytes
         + (SpillBatchPages + 1) * BlockSize <= SortRunBytes - MiscReserveBytes
  /\ Opened <= FanIn
  /\ 2 * BlockSize <= ReaderBudget => ReaderBytes <= ReaderBudget

Abstract == INSTANCE SortedStream WITH Less <- RowLess

\* The operator delivers a sorted permutation of its input, in memory and through
\* any number of spilled runs and merge passes.
ImplementsSortedStream == Abstract!StreamSpec

\* Every pass leaves fewer runs, so the passes end and all the rows come out.
EventuallyDrained == <>(Exhausted /\ Len(output) = Len(source))
=============================================================================
