---------------------------- MODULE ScanOperator ----------------------------
(***************************************************************************)
(* ScanOperator (database/src/disk.rs) with the bounds the executor gives  *)
(* it (database/src/executor.rs).  A table file is a sequence of blocks of *)
(* rows.  When the statistics say that a column is physically ordered, the *)
(* predicates on it become a lower and an upper bound, two binary searches *)
(* over the blocks turn these into a range, and only the range is read, in *)
(* batches of blocks; every row decoded is tested against the predicates.  *)
(* A step is one turn of a loop: each command to the disk is in one step.  *)
(***************************************************************************)
EXTENDS Integers, Sequences, FiniteSets, FiniteSetsExt, SequencesExt

CONSTANTS
  Tables,          \* the tables: sequences of blocks, a block a sequence of rows
  PredicateLists,  \* the predicates on the column that may be ordered
  OtherHolds(_),   \* the predicates on the other columns
  PrefetchBlocks,  \* SCAN_PREFETCH_BLOCKS: 512 in the code
  NoBound          \* Option::None

Operators == {"EQ", "NE", "LT", "LTE", "GT", "GTE"}

Row == [key : Int, id : Nat]

\* The generator writes no block without a row; an ordered search would fail on one.
ASSUME ScanAssumption ==
  /\ \A table \in Tables : table \in Seq(Seq(Row) \ {<< >>})
  /\ PredicateLists \subseteq Seq([op : Operators, value : Int])
  /\ PrefetchBlocks \in Nat \ {0}
  /\ NoBound \notin [value : Int, inclusive : BOOLEAN]

VARIABLES
  table, predicates, is_physically_ordered,  \* what is scanned, which no step changes
  phase,                 \* "new", the searches "lower" and "upper", then "scan"
  lo, hi,                \* the block indices a binary search still holds possible
  start_block,           \* the first block of the range
  num_blocks,            \* the number of blocks of the range
  current_block_offset,  \* the blocks of the range read so far
  prefetched_rows,       \* the rows of the blocks decoded and not begun
  current_rows,          \* what is left of the block being delivered
  output                 \* the rows delivered

inputVars == <<table, predicates, is_physically_ordered>>
searchVars == <<lo, hi, start_block, num_blocks>>
vars == <<inputVars, phase, searchVars, current_block_offset, prefetched_rows,
          current_rows, output>>

-----------------------------------------------------------------------------
(* The predicates, and the bounds built from them. *)

Holds(predicate, key) ==
  CASE predicate.op = "EQ"  -> key = predicate.value
    [] predicate.op = "NE"  -> key # predicate.value
    [] predicate.op = "LT"  -> key < predicate.value
    [] predicate.op = "LTE" -> key <= predicate.value
    [] predicate.op = "GT"  -> key > predicate.value
    [] predicate.op = "GTE" -> key >= predicate.value

Satisfies(row) ==
  (\A i \in DOMAIN predicates : Holds(predicates[i], row.key)) /\ OtherHolds(row)

\* Bug: an exclusive bound is taken over by an inclusive one at the same value.
TighterLoose(existing, candidate, better) ==
  IF existing = NoBound \/ better THEN candidate
  ELSE IF existing.value = candidate.value
       THEN [value |-> existing.value, inclusive |-> existing.inclusive \/ candidate.inclusive]
       ELSE existing

\* Of two bounds the tighter; of equal ones, exclusive if either is.
Tighter(existing, candidate, better) ==
  IF existing = NoBound \/ better THEN candidate
  ELSE IF existing.value = candidate.value
       THEN [value |-> existing.value, inclusive |-> existing.inclusive /\ candidate.inclusive]
       ELSE existing

Bound(predicate) ==
  [value |-> predicate.value, inclusive |-> predicate.op \in {"EQ", "LTE", "GTE"}]

Bounding(side) == IF side = "lower" THEN {"EQ", "GT", "GTE"} ELSE {"EQ", "LT", "LTE"}

Within(side, value, other) == IF side = "lower" THEN value > other ELSE value < other

\* The bound on one side after one more predicate.
Narrowed(side, existing, p) ==
  IF p.op \notin Bounding(side) THEN existing
  ELSE Tighter(existing, Bound(p), existing # NoBound /\ Within(side, p.value, existing.value))

BoundOn(side) ==
  FoldLeft(LAMBDA existing, p : Narrowed(side, existing, p), NoBound, predicates)

LowerBound == BoundOn("lower")
UpperBound == BoundOn("upper")

\* Bounds are given to the scan of an ordered column that some predicate names.
Restricted == is_physically_ordered /\ predicates # << >>

\* Bug: a value on an inclusive bound counts as before it.
StrictlyBeforeOrOn(value, bound) == value <= bound.value

StrictlyBefore(value, bound) ==
  value < bound.value \/ (value = bound.value /\ ~bound.inclusive)

StrictlyAfter(value, bound) ==
  value > bound.value \/ (value = bound.value /\ ~bound.inclusive)

-----------------------------------------------------------------------------
(* restrict_scan_range.  Blocks are counted from 0, as in the code. *)

\* ordered_column_min_max_in_block: the keys of the first and the last row.
FirstKey(block) == table[block + 1][1].key
LastKey(block)  == Last(table[block + 1]).key

NumBlocks == Len(table)

OpenFile ==
  /\ phase = "new"
  /\ IF Restricted /\ table # << >>
     THEN /\ phase' = "lower"
          /\ lo' = 0 /\ hi' = IF LowerBound = NoBound THEN 0 ELSE NumBlocks
          /\ UNCHANGED <<start_block, num_blocks>>
     ELSE /\ phase' = "scan"
          /\ start_block' = 0 /\ num_blocks' = NumBlocks
          /\ UNCHANGED <<lo, hi>>
  /\ UNCHANGED <<inputVars, current_block_offset, prefetched_rows, current_rows, output>>

Mid == lo + (hi - lo) \div 2

\* Bug: the block in the middle stays possible on either side.
SearchStuck(skip) ==
  IF skip THEN lo' = Mid /\ UNCHANGED hi ELSE hi' = Mid /\ UNCHANGED lo

\* One probe of a binary search: past the middle, or up to it.
Search(skip) ==
  IF skip THEN lo' = Mid + 1 /\ UNCHANGED hi ELSE hi' = Mid /\ UNCHANGED lo

\* first_block_matching_lower
ProbeLower ==
  /\ phase = "lower" /\ lo < hi
  /\ Search(StrictlyBefore(LastKey(Mid), LowerBound))
  /\ UNCHANGED <<inputVars, phase, start_block, num_blocks, current_block_offset,
                 prefetched_rows, current_rows, output>>

EndLower ==
  /\ phase = "lower" /\ lo = hi
  /\ start_block' = lo
  /\ phase' = "upper"
  /\ lo' = IF UpperBound = NoBound THEN NumBlocks ELSE 0
  /\ hi' = NumBlocks
  /\ UNCHANGED <<inputVars, num_blocks, current_block_offset, prefetched_rows,
                 current_rows, output>>

\* first_block_past_upper
ProbeUpper ==
  /\ phase = "upper" /\ lo < hi
  /\ Search(~StrictlyAfter(FirstKey(Mid), UpperBound))
  /\ UNCHANGED <<inputVars, phase, start_block, num_blocks, current_block_offset,
                 prefetched_rows, current_rows, output>>

EndUpper ==
  /\ phase = "upper" /\ lo = hi
  /\ IF start_block >= lo THEN start_block' = 0 /\ num_blocks' = 0
                          ELSE num_blocks' = lo - start_block /\ UNCHANGED start_block
  /\ phase' = "scan"
  /\ UNCHANGED <<inputVars, lo, hi, current_block_offset, prefetched_rows,
                 current_rows, output>>

-----------------------------------------------------------------------------
(* refill_prefetch_buffer and next. *)

Drained == phase = "scan" /\ current_rows = << >> /\ prefetched_rows = << >>

\* Bug: all the rest of the range at once.
BatchBlocksAll == num_blocks - current_block_offset

BatchBlocks == Min({num_blocks - current_block_offset, PrefetchBlocks})

\* Bug: the predicates on the other columns are not tested.
DecodedByKey(block) ==
  SelectSeq(table[block + 1], LAMBDA row : \A i \in DOMAIN predicates : Holds(predicates[i], row.key))

\* The rows that satisfy the predicates, in their order.
Kept(rows) ==
  FoldLeft(LAMBDA kept, row : IF Satisfies(row) THEN Append(kept, row) ELSE kept, << >>, rows)

Decoded(block) == Kept(table[block + 1])

BatchStart == start_block + current_block_offset

Refill ==
  /\ Drained /\ current_block_offset < num_blocks
  /\ prefetched_rows' = [i \in 1..BatchBlocks |-> Decoded(BatchStart + i - 1)]
  /\ current_block_offset' = current_block_offset + BatchBlocks
  /\ UNCHANGED <<inputVars, phase, searchVars, current_rows, output>>

NextBlock ==
  /\ current_rows = << >> /\ prefetched_rows # << >>
  /\ current_rows' = Head(prefetched_rows)
  /\ prefetched_rows' = Tail(prefetched_rows)
  /\ UNCHANGED <<inputVars, phase, searchVars, current_block_offset, output>>

NextRow ==
  /\ current_rows # << >>
  /\ output' = Append(output, Head(current_rows))
  /\ current_rows' = Tail(current_rows)
  /\ UNCHANGED <<inputVars, phase, searchVars, current_block_offset, prefetched_rows>>

Exhausted == Drained /\ current_block_offset >= num_blocks

\* next returns None, as often as it is asked: join.rs asks again.
NextNone == Exhausted /\ UNCHANGED vars

-----------------------------------------------------------------------------

AllRows == FlattenSeq(table)

\* The keys do not decrease from row to row and from block to block.
KeysInOrder ==
  \A b, c \in DOMAIN table : \A i \in DOMAIN table[b], j \in DOMAIN table[c] :
    b < c \/ (b = c /\ i <= j) => table[b][i].key <= table[c][j].key

Init ==
  /\ table \in Tables /\ predicates \in PredicateLists
  /\ is_physically_ordered \in BOOLEAN
  /\ is_physically_ordered => KeysInOrder
  /\ phase = "new"
  /\ lo = 0 /\ hi = 0 /\ start_block = 0 /\ num_blocks = 0
  /\ current_block_offset = 0
  /\ prefetched_rows = << >> /\ current_rows = << >> /\ output = << >>

Next ==
  \/ OpenFile \/ ProbeLower \/ EndLower \/ ProbeUpper \/ EndUpper
  \/ Refill \/ NextBlock \/ NextRow \/ NextNone

\* The operator above calls next until it returns None.
Spec == Init /\ [][Next]_vars /\ WF_vars(Next)

-----------------------------------------------------------------------------
(* Properties *)

\* The state is well typed: the search and the range stay within the file, and no
\* more than a batch of blocks is ever held.
TypeOK ==
  /\ phase \in {"new", "lower", "upper", "scan"}
  /\ lo \in 0..NumBlocks /\ hi \in 0..NumBlocks
  /\ phase \in {"lower", "upper"} => lo <= hi
  /\ start_block \in 0..NumBlocks /\ num_blocks \in 0..NumBlocks - start_block
  /\ current_block_offset \in 0..num_blocks
  /\ prefetched_rows \in Seq(Seq(Row)) /\ Len(prefetched_rows) <= PrefetchBlocks
  /\ current_rows \in Seq(Row) /\ output \in Seq(Row)

\* The blocks that were not ruled out and not read yet.
BlocksAhead ==
  CASE phase = "new"   -> 0..NumBlocks - 1
    [] phase = "lower" -> lo..NumBlocks - 1
    [] phase = "upper" -> start_block..hi - 1
    [] phase = "scan"  -> BatchStart..start_block + num_blocks - 1

\* Every row that satisfies the predicates is delivered, held, or in a block the
\* scan has still to read: neither binary search ever rules out a block with such
\* a row, with equal keys on both sides of a block boundary, exclusive bounds,
\* several predicates on the column, or bounds that contradict each other.
NoMatchSkipped ==
  LET ahead == UNION {ToSet(table[b + 1]) : b \in BlocksAhead}
      waiting == UNION {ToSet(prefetched_rows[i]) : i \in DOMAIN prefetched_rows}
      held  == ToSet(output) \cup ToSet(current_rows) \cup waiting
  IN \A b \in DOMAIN table : \A row \in ToSet(table[b]) :
       Satisfies(row) => row \in ahead \cup held

\* On an ordered column, the range holds no block that one of the predicates
\* rules out as a whole: for each some key between its first and its last holds.
RangeIsTight ==
  Restricted /\ phase = "scan" =>
    \A b \in start_block..start_block + num_blocks - 1, i \in DOMAIN predicates :
      predicates[i].op # "NE" =>
        \E key \in FirstKey(b)..LastKey(b) : Holds(predicates[i], key)

Abstract == INSTANCE FilteredScan WITH wanted <- Kept(AllRows)

\* A restricted scan delivers what a scan of the whole table would.
ImplementsFilteredScan == Abstract!ScanSpec

\* The searches end, and every row that satisfies the predicates comes out.
EventuallyScanned == <>(Exhausted /\ Abstract!AllDelivered)
=============================================================================
