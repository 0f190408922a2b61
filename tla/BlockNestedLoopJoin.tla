------------------------ MODULE BlockNestedLoopJoin ------------------------
(***************************************************************************)
(* BlockNestedLoopJoinOperator (database/src/join.rs), the join without an *)
(* equality to hash on: one input is spilled to a temporary file, the      *)
(* other is pulled in batches, and the file is scanned once for each       *)
(* batch.  A step is one turn of the loop of next.                         *)
(***************************************************************************)
EXTENDS Naturals, Sequences, FiniteSets, FiniteSetsExt, SequencesExt, RowSelection

CONSTANTS
  Values,           \* what the predicates can tell of a row
  Predicate(_, _),  \* the resolved predicates, on a left and a right row
  RowBytes,         \* value -> estimate_heap_size
  OuterBatchBytes,  \* choose_bnlj_outer_batch_bytes
  Hints, NoHint,    \* row counts the planner may hint, and Option::None
  NoFile,           \* no temporary file is live
  MaxInput          \* bound: rows of an input

ASSUME BlockJoinAssumption ==
  /\ RowBytes \in [Values -> Nat \ {0}]
  /\ OuterBatchBytes \in Nat \ {0}
  /\ MaxInput \in Nat
  /\ Hints \subseteq Nat \cup {NoHint} /\ NoHint \notin Nat

VARIABLES
  left, right, left_hint, right_hint,  \* the inputs, which no step changes
  state,        \* the BlockNestedLoopState
  outer_rest,   \* the rows the outer operator has still to yield
  inner_file,   \* the rows of the temporary file while it is live
  outer_batch,  \* the rows of the batch
  inner_read,   \* the rows of the file read for this batch
  output_buf,   \* pairs found and not delivered yet
  output        \* the pairs delivered

inputVars == <<left, right, left_hint, right_hint>>
vars == <<inputVars, state, outer_rest, inner_file, outer_batch, inner_read,
          output_buf, output>>

\* The input with fewer rows by the hints is the inner one; the left without them.
InnerIsLeft ==
  left_hint # NoHint /\ right_hint # NoHint => left_hint <= right_hint

InnerInput == IF InnerIsLeft THEN left ELSE right
OuterInput == IF InnerIsLeft THEN right ELSE left

\* A row is its value and its place in its input, which tells equal rows apart.
InputRow == [value : Values, id : 1..MaxInput]

Pair(inner_row, outer_row) ==
  IF InnerIsLeft THEN <<inner_row, outer_row>> ELSE <<outer_row, inner_row>>

-----------------------------------------------------------------------------

SpillInner ==
  /\ state = "NotStarted"
  /\ inner_file' = InnerInput
  /\ state' = "NeedOuterBatch"
  /\ UNCHANGED <<inputVars, outer_rest, outer_batch, inner_read, output_buf, output>>

BytesOf(rows) == FoldLeft(LAMBDA n, row : n + RowBytes[row.value], 0, rows)

\* fill_outer_batch: rows until their bytes reach the target.
BatchSize ==
  LET Reached(n) == BytesOf(SubSeq(outer_rest, 1, n)) >= OuterBatchBytes
  IN Min({n \in 1..Len(outer_rest) : Reached(n)} \cup {Len(outer_rest)})

\* Bug: a last batch that stays below the target is never scanned.
FillOuterBatchFullOnly ==
  /\ state = "NeedOuterBatch" /\ outer_rest # << >>
  /\ outer_rest' = SubSeq(outer_rest, BatchSize + 1, Len(outer_rest))
  /\ LET batch == SubSeq(outer_rest, 1, BatchSize)
         full  == BytesOf(batch) >= OuterBatchBytes
     IN /\ outer_batch' = IF full THEN batch ELSE << >>
        /\ state' = IF full THEN "ScanningInner" ELSE "NeedOuterBatch"
  /\ inner_read' = 0
  /\ UNCHANGED <<inputVars, inner_file, output_buf, output>>

FillOuterBatch ==
  /\ state = "NeedOuterBatch" /\ outer_rest # << >>
  /\ outer_batch' = SubSeq(outer_rest, 1, BatchSize)
  /\ outer_rest' = SubSeq(outer_rest, BatchSize + 1, Len(outer_rest))
  /\ inner_read' = 0
  /\ state' = "ScanningInner"
  /\ UNCHANGED <<inputVars, inner_file, output_buf, output>>

\* The outer operator is asked again after its None, and answers None again.
EndOfOuter ==
  /\ state = "NeedOuterBatch" /\ outer_rest = << >>
  /\ inner_file' = NoFile
  /\ outer_batch' = << >>
  /\ state' = "Done"
  /\ UNCHANGED <<inputVars, outer_rest, inner_read, output_buf, output>>

PopOutput ==
  /\ state = "ScanningInner" /\ output_buf # << >>
  /\ output' = Append(output, Last(output_buf))
  /\ output_buf' = Front(output_buf)
  /\ UNCHANGED <<inputVars, state, outer_rest, inner_file, outer_batch, inner_read>>

PairsWith(inner_row, rows) == [i \in 1..Len(rows) |-> Pair(inner_row, rows[i])]

\* Bug: the pair is evaluated inner row first, whichever side that is.
FoundSwapped(inner_row) ==
  LET hits == {row \in InputRow : Predicate(inner_row, row)}
  IN PairsWith(inner_row, Among(Reverse(outer_batch), hits))

\* The pairs of a row of the file and the rows of the batch, the last of them first.
Found(inner_row) ==
  LET hits == {row \in InputRow :
                 LET p == Pair(inner_row, row) IN Predicate(p[1], p[2])}
  IN PairsWith(inner_row, Among(Reverse(outer_batch), hits))

ScanInner ==
  /\ state = "ScanningInner" /\ output_buf = << >>
  /\ inner_file # NoFile /\ inner_read < Len(inner_file)
  /\ output_buf' = Found(inner_file[inner_read + 1])
  /\ inner_read' = inner_read + 1
  /\ UNCHANGED <<inputVars, state, outer_rest, inner_file, outer_batch, output>>

EndOfInner ==
  /\ state = "ScanningInner" /\ output_buf = << >>
  /\ inner_file # NoFile /\ inner_read = Len(inner_file)
  /\ outer_batch' = << >>
  /\ state' = "NeedOuterBatch"
  /\ UNCHANGED <<inputVars, outer_rest, inner_file, inner_read, output_buf, output>>

\* next returns None, as often as it is asked.
NextNone == state = "Done" /\ UNCHANGED vars

InputRows ==
  UNION {{[i \in 1..n |-> [value |-> values[i], id |-> i]] : values \in [1..n -> Values]} :
           n \in 0..MaxInput}

Init ==
  /\ left \in InputRows /\ right \in InputRows
  /\ left_hint \in Hints /\ right_hint \in Hints
  /\ state = "NotStarted"
  /\ outer_rest = OuterInput
  /\ inner_file = NoFile
  /\ outer_batch = << >> /\ inner_read = 0
  /\ output_buf = << >> /\ output = << >>

Next ==
  \/ SpillInner \/ FillOuterBatch \/ EndOfOuter
  \/ PopOutput \/ ScanInner \/ EndOfInner
  \/ NextNone

\* execute_query calls next until it returns None.
Spec == Init /\ [][Next]_vars /\ WF_vars(Next)

-----------------------------------------------------------------------------
(* Properties *)

\* No pair is mistaken for a match: the predicates are all evaluated on it.
Abstract == INSTANCE JoinStream WITH Matches <- Predicate, mistaken <- {}

\* Every pair of rows is tried once, in whatever batches the outer rows come.
ImplementsJoinStream == Abstract!JoinSpec

\* However many batches scan its temporary file, the join ends, with all the pairs
\* that match delivered and the file deleted.
EventuallyJoined == <>(state = "Done" /\ Abstract!AllDelivered /\ inner_file = NoFile)
=============================================================================
