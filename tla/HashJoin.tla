------------------------------ MODULE HashJoin ------------------------------
(***************************************************************************)
(* HashJoinOperator (database/src/join.rs).  The smaller input, by the     *)
(* planner's hints, is hashed in memory when it is expected to fit; else,  *)
(* or when it did not fit after all, both inputs are partitioned into      *)
(* temporary files by a salted hash of the key, with a Bloom filter of the *)
(* first side thinning the other, and pairs of files are joined one by     *)
(* one: hashed when one side fits, partitioned again with another salt     *)
(* when neither does, and by nested loops at the last depth.  A step is    *)
(* one turn of the loop of next.                                           *)
(***************************************************************************)
EXTENDS Naturals, Sequences, FiniteSets, FiniteSetsExt, SequencesExt, RowSelection

CONSTANTS
  Keys,           \* the values of the equi-join columns, of one type
  Residual(_, _), \* the other predicates, on a left and a right row
  NumPartitions,  \* choose_num_partitions: 8 to 28 in the code
  MaxDepth,       \* HASH_JOIN_MAX_REPARTITION_DEPTH: 3 in the code
  HashFunctions,  \* the partitions salted hashing may send the keys to
  BuildBudget,    \* choose_hash_build_budget_bytes
  RowCost,        \* a row, its key and the entry of the build map, in bytes
  BlockSize,      \* of a temporary page, in bytes
  RowsPerPage,    \* rows that fill a page
  InMemBudget,    \* inmem_budget
  InMemRowCost,   \* a row and the entry overhead, in bytes
  InMemMaxHint,   \* the largest hint at which joining in memory is attempted
  OuterBatchRows, \* rows of an outer batch: choose_bnlj_outer_batch_bytes
  Hints,          \* row counts the planner may hint
  NoHint,         \* Option::None
  MaxInput        \* bound: rows of an input

ASSUME JoinAssumption ==
  /\ NumPartitions \in Nat \ {0}
  /\ MaxDepth \in Nat
  /\ HashFunctions \subseteq [Keys \X (0..MaxDepth) -> 0..NumPartitions - 1]
  /\ {BuildBudget, RowCost, BlockSize, RowsPerPage, InMemRowCost, OuterBatchRows}
       \subseteq Nat \ {0}
  /\ {InMemBudget, InMemMaxHint, MaxInput} \subseteq Nat
  /\ Hints \subseteq Nat \cup {NoHint} /\ NoHint \notin Nat

VARIABLES
  left, right,            \* the inputs, which no step changes
  left_hint, right_hint,  \* left_rows_hint, right_rows_hint
  hash,                   \* (key, depth) -> partition: the salt follows from the depth
  lookalikes,             \* keys that the Bloom filter takes for any other
  state,                  \* the HashJoinState
  rest,                   \* side -> the rows its operator has still to yield
  build_map,              \* the rows of the build map of InMemoryProbing
  pending_tasks,          \* the pairs of files to join
  active,                 \* the ActivePartition, if there is one: a set
  output_buf,             \* pairs found and not delivered yet
  output,                 \* the pairs delivered
  temp,                   \* the live temporary files: id -> rows
  next_id                 \* ids from here on were not given to a file yet

inputVars == <<left, right, left_hint, right_hint, hash, lookalikes>>
vars == <<inputVars, state, rest, build_map, pending_tasks, active,
          output_buf, output, temp, next_id>>

Sides == {"left", "right"}

Other(side) == IF side = "left" THEN "right" ELSE "left"

Pair(side, row, other) == IF side = "left" THEN <<row, other>> ELSE <<other, row>>

Matches(l, r) == l.key = r.key /\ Residual(l, r)

\* A row is its key and its place in its input, which tells equal rows apart.
InputRow == [key : Keys, id : 1..MaxInput]

\* A row of the other side with each of some rows of side.
PairsWith(side, rows, row) == [i \in 1..Len(rows) |-> Pair(side, rows[i], row)]

\* Bug: the residual predicates are forgotten.
FoundByKey(side, build_rows, probe_row) ==
  LET hits == {row \in InputRow : row.key = probe_row.key}
  IN PairsWith(side, Among(build_rows, hits), probe_row)

\* What a row of the other side finds among build_rows, which are of side.
Found(side, build_rows, probe_row) ==
  LET hits == {row \in InputRow :
                 LET p == Pair(side, row, probe_row) IN Matches(p[1], p[2])}
  IN PairsWith(side, Among(build_rows, hits), probe_row)

KeysOf(rows) == {rows[i].key : i \in DOMAIN rows}

-----------------------------------------------------------------------------
(* Partitioning: partition_inputs and repartition_task. *)

\* The side hinted to be smaller is the build side in memory and fills the filter.
BuildSide ==
  IF \/ right_hint = NoHint
     \/ left_hint # NoHint /\ left_hint <= right_hint
  THEN "left" ELSE "right"

InPartition(rows, depth, part) ==
  Among(rows, {row \in InputRow : hash[row.key, depth] = part})

\* A file is kept when its partition has rows of both sides.
KeptParts(rows, depth) ==
  {part \in 0..NumPartitions - 1 :
     \A side \in Sides : \E row \in ToSet(rows[side]) : hash[row.key, depth] = part}

\* The ids that the files of a partition get; only that they are fresh matters.
FileOf(part, side) == next_id + 2 * part + (IF side = "left" THEN 0 ELSE 1)

\* A task for each partition kept.
Tasks(rows, depth) ==
  LET parts == Among([i \in 1..NumPartitions |-> i - 1], KeptParts(rows, depth))
  IN [i \in 1..Len(parts) |->
        [file |-> [side \in Sides |-> FileOf(parts[i], side)], depth |-> depth]]

FilesOf(task) == {task.file[side] : side \in Sides}

\* The partition and the side of a file just created.
PartOf(id) == (id - next_id) \div 2
SideOf(id) == IF (id - next_id) % 2 = 0 THEN "left" ELSE "right"

NewFiles(rows, depth) == UNION {FilesOf(task) : task \in ToSet(Tasks(rows, depth))}

\* The rows of both sides go to files; the files in deleted are deleted.
SplitIntoFiles(rows, depth, deleted) ==
  /\ temp' = [id \in (DOMAIN temp \ deleted) \cup NewFiles(rows, depth) |->
                IF id < next_id THEN temp[id]
                ELSE InPartition(rows[SideOf(id)], depth, PartOf(id))]
  /\ next_id' = next_id + 2 * NumPartitions

\* The rows pulled for a build in memory that did not fit, and the rows after them.
Prefetched(n) == SubSeq(rest[BuildSide], 1, n)
NotPulled(n) == SubSeq(rest[BuildSide], n + 1, Len(rest[BuildSide]))

\* Bug: the prefetched rows are not entered in the filter.
BloomKeysNotPulled(n) == KeysOf(NotPulled(n)) \cup lookalikes

\* All of the build side is in the filter before the other side is asked.
BloomKeys(n) == KeysOf(Prefetched(n) \o NotPulled(n)) \cup lookalikes

PartitionInputs(n) ==
  LET rows == [side \in Sides |->
                 IF side = BuildSide THEN Prefetched(n) \o NotPulled(n)
                 ELSE Among(rest[side], {row \in InputRow : row.key \in BloomKeys(n)})]
  IN /\ pending_tasks' = Tasks(rows, 0)
     /\ SplitIntoFiles(rows, 0, {})
     /\ rest' = [side \in Sides |-> << >>]
     /\ state' = "Probing"
     /\ UNCHANGED <<inputVars, build_map, active, output_buf, output>>

-----------------------------------------------------------------------------
(* NotStarted and InMemoryProbing *)

MinHint == IF BuildSide = "left" THEN left_hint ELSE right_hint

AttemptInMemory == MinHint # NoHint /\ MinHint <= InMemMaxHint

InMemRows == InMemBudget \div InMemRowCost

Overflowed == Len(rest[BuildSide]) > InMemRows

BuildInMemory ==
  /\ state = "NotStarted" /\ AttemptInMemory /\ ~Overflowed
  /\ build_map' = rest[BuildSide]
  /\ rest' = [rest EXCEPT ![BuildSide] = << >>]
  /\ state' = "InMemoryProbing"
  /\ UNCHANGED <<inputVars, pending_tasks, active, output_buf, output, temp, next_id>>

\* The row that overflows the budget is buffered with those before it.
StartPartitioned ==
  /\ state = "NotStarted"
  /\ \/ AttemptInMemory /\ Overflowed /\ PartitionInputs(InMemRows + 1)
     \/ ~AttemptInMemory /\ PartitionInputs(0)

ProbeInMemory ==
  LET probe == Other(BuildSide) IN
  /\ state = "InMemoryProbing" /\ output_buf = << >> /\ rest[probe] # << >>
  /\ output_buf' = Found(BuildSide, build_map, Head(rest[probe]))
  /\ rest' = [rest EXCEPT ![probe] = Tail(@)]
  /\ UNCHANGED <<inputVars, state, build_map, pending_tasks, active, output, temp, next_id>>

EndInMemory ==
  /\ state = "InMemoryProbing" /\ output_buf = << >> /\ rest[Other(BuildSide)] = << >>
  /\ state' = "Done"
  /\ build_map' = << >>
  /\ UNCHANGED <<inputVars, rest, pending_tasks, active, output_buf, output, temp, next_id>>

\* Pairs are delivered from the end of the buffer, before anything else happens.
PopOutput ==
  /\ output_buf # << >>
  /\ output' = Append(output, Last(output_buf))
  /\ output_buf' = Front(output_buf)
  /\ UNCHANGED <<inputVars, state, rest, build_map, pending_tasks, active, temp, next_id>>

-----------------------------------------------------------------------------
(* Probing: prepare_task and the two kinds of active partition. *)

RowsIn(task) == [side \in Sides |-> temp[task.file[side]]]

NumPages(rows) == (Len(rows) + RowsPerPage - 1) \div RowsPerPage

\* The side with fewer pages, the left one when they have as many.
SmallerSide(task) ==
  LET rows == RowsIn(task)
  IN IF NumPages(rows["left"]) <= NumPages(rows["right"]) THEN "left" ELSE "right"

TooManyPages(task) ==
  NumPages(RowsIn(task)[SmallerSide(task)]) * BlockSize > 2 * BuildBudget

MapOverflows(task) == Len(RowsIn(task)[SmallerSide(task)]) * RowCost > BuildBudget

WaitsForTask == state = "Probing" /\ output_buf = << >> /\ active = {}

NextTask(task) == WaitsForTask /\ pending_tasks # << >> /\ task = Head(pending_tasks)

\* The files of the children take the place of the task's.
RepartitionTask(task) ==
  /\ NextTask(task)
  /\ TooManyPages(task) \/ MapOverflows(task)
  /\ task.depth < MaxDepth
  /\ pending_tasks' = Tasks(RowsIn(task), task.depth + 1) \o Tail(pending_tasks)
  /\ SplitIntoFiles(RowsIn(task), task.depth + 1, FilesOf(task))
  /\ UNCHANGED <<inputVars, state, rest, build_map, active, output_buf, output>>

StartHash(task) ==
  /\ NextTask(task)
  /\ ~MapOverflows(task) /\ (TooManyPages(task) => task.depth >= MaxDepth)
  /\ active' = {[kind |-> "hash", task |-> task, side |-> SmallerSide(task),
                 rows |-> RowsIn(task)[SmallerSide(task)], read |-> 0, inner_read |-> 0]}
  /\ pending_tasks' = Tail(pending_tasks)
  /\ UNCHANGED <<inputVars, state, rest, build_map, output_buf, output, temp, next_id>>

OuterBatch(rows, read) == SubSeq(rows, read + 1, Min({read + OuterBatchRows, Len(rows)}))

\* Bug: a task that cannot be split again is put back.
StartNestedLoopLater(task) ==
  /\ NextTask(task)
  /\ MapOverflows(task) /\ task.depth >= MaxDepth
  /\ UNCHANGED vars

\* prepare_nested_loop_partition; a file of a task is never empty, so neither is
\* the first outer batch.
StartNestedLoop(task) ==
  /\ NextTask(task)
  /\ MapOverflows(task) /\ task.depth >= MaxDepth
  /\ LET inner == SmallerSide(task)
         batch == OuterBatch(RowsIn(task)[Other(inner)], 0)
     IN active' = {[kind |-> "nested_loop", task |-> task, side |-> inner,
                    rows |-> batch, read |-> Len(batch), inner_read |-> 0]}
  /\ pending_tasks' = Tail(pending_tasks)
  /\ UNCHANGED <<inputVars, state, rest, build_map, output_buf, output, temp, next_id>>

\* Rows that the active partition has still to read.
ToProbe(a) == LET rows == temp[a.task.file[Other(a.side)]] IN SubSeq(rows, a.read + 1, Len(rows))
ToScan(a) == LET rows == temp[a.task.file[a.side]] IN SubSeq(rows, a.inner_read + 1, Len(rows))

ProbeRow(a) ==
  /\ a.kind = "hash" /\ output_buf = << >> /\ ToProbe(a) # << >>
  /\ output_buf' = Found(a.side, a.rows, Head(ToProbe(a)))
  /\ active' = {[a EXCEPT !.read = @ + 1]}
  /\ UNCHANGED <<inputVars, state, rest, build_map, pending_tasks, output, temp, next_id>>

\* The pairs of an inner row and the outer batch: here only the residual
\* predicates are evaluated.
ScannedWith(a, inner_row) ==
  LET hits == {row \in InputRow :
                 LET p == Pair(a.side, inner_row, row) IN Residual(p[1], p[2])}
  IN PairsWith(Other(a.side), Among(Reverse(a.rows), hits), inner_row)

ScanInner(a) ==
  /\ a.kind = "nested_loop" /\ output_buf = << >> /\ ToScan(a) # << >>
  /\ output_buf' = ScannedWith(a, Head(ToScan(a)))
  /\ active' = {[a EXCEPT !.inner_read = @ + 1]}
  /\ UNCHANGED <<inputVars, state, rest, build_map, pending_tasks, output, temp, next_id>>

NextOuterBatch(a) ==
  /\ a.kind = "nested_loop" /\ output_buf = << >>
  /\ ToScan(a) = << >> /\ ToProbe(a) # << >>
  /\ LET batch == OuterBatch(temp[a.task.file[Other(a.side)]], a.read)
     IN active' = {[a EXCEPT !.rows = batch, !.read = @ + Len(batch), !.inner_read = 0]}
  /\ UNCHANGED <<inputVars, state, rest, build_map, pending_tasks, output_buf, output,
                 temp, next_id>>

\* Bug: the probe file is left.
CleanupBuildFile(task) == {task.file[SmallerSide(task)]}

\* cleanup_task
CleanupFiles(task) == FilesOf(task)

EndPartition(a) ==
  /\ output_buf = << >> /\ ToProbe(a) = << >>
  /\ a.kind = "nested_loop" => ToScan(a) = << >>
  /\ temp' = [id \in DOMAIN temp \ CleanupFiles(a.task) |-> temp[id]]
  /\ active' = {}
  /\ UNCHANGED <<inputVars, state, rest, build_map, pending_tasks, output_buf, output, next_id>>

EndOfTasks ==
  /\ WaitsForTask /\ pending_tasks = << >>
  /\ state' = "Done"
  /\ UNCHANGED <<inputVars, rest, build_map, pending_tasks, active, output_buf, output,
                 temp, next_id>>

\* next returns None, as often as it is asked.
NextNone == state = "Done" /\ UNCHANGED vars

-----------------------------------------------------------------------------

InputRows ==
  UNION {{[i \in 1..n |-> [key |-> keys[i], id |-> i]] : keys \in [1..n -> Keys]} :
           n \in 0..MaxInput}

Init ==
  /\ left \in InputRows /\ right \in InputRows
  /\ left_hint \in Hints /\ right_hint \in Hints
  /\ hash \in HashFunctions
  /\ lookalikes \in {{}, Keys}
  /\ state = "NotStarted"
  /\ rest = [side \in Sides |-> IF side = "left" THEN left ELSE right]
  /\ build_map = << >> /\ pending_tasks = << >> /\ active = {}
  /\ output_buf = << >> /\ output = << >>
  /\ temp = << >> /\ next_id = 0

Next ==
  \/ BuildInMemory \/ StartPartitioned \/ ProbeInMemory \/ EndInMemory
  \/ PopOutput
  \/ \E task \in ToSet(pending_tasks) :
       RepartitionTask(task) \/ StartHash(task) \/ StartNestedLoop(task)
  \/ \E a \in active : ProbeRow(a) \/ ScanInner(a) \/ NextOuterBatch(a) \/ EndPartition(a)
  \/ EndOfTasks \/ NextNone

\* execute_query calls next until it returns None.
Spec == Init /\ [][Next]_vars /\ WF_vars(Next)

-----------------------------------------------------------------------------
(* Properties *)

OpenTasks == pending_tasks \o SetToSeq({a.task : a \in active})

\* The live temporary files are those of the tasks still to be joined, two to a
\* task and none of two tasks, and none is empty: partitioning, repartitioning to
\* any depth and cleaning up leak no file, delete none twice and use no id again.
LiveFilesReferenced ==
  /\ DOMAIN temp = UNION {FilesOf(task) : task \in ToSet(OpenTasks)}
  /\ \A i, j \in DOMAIN OpenTasks : \A s, t \in Sides :
       OpenTasks[i].file[s] = OpenTasks[j].file[t] => i = j /\ s = t
  /\ \A id \in DOMAIN temp : id < next_id /\ temp[id] # << >>

\* The salts never tell the keys of the rows apart, down to the last depth.
SameHashes(l, r) == \A depth \in 0..MaxDepth : hash[l.key, depth] = hash[r.key, depth]

\* The rows of an input that end in one partition with a row, at every depth, do not
\* fit the build budget together.
Crowded(row) ==
  \E input \in {left, right} :
    Cardinality({other \in ToSet(input) : SameHashes(other, row)}) * RowCost > BuildBudget

\* The pairs that the nested loops take for matches though the keys differ.
Colliding ==
  {pair \in ToSet(left) \X ToSet(right) :
     LET l == pair[1]
         r == pair[2]
     IN l.key # r.key /\ Residual(l, r) /\ SameHashes(l, r) /\ Crowded(l)}

Abstract == INSTANCE JoinStream WITH mistaken <- Colliding

RowOf(pair, side) == IF side = "left" THEN pair[1] ELSE pair[2]

InTask(pair, task) == \A side \in Sides : RowOf(pair, side) \in ToSet(RowsIn(task)[side])

\* The active partition has still to find the pair.
InActive(pair, a) ==
  LET row   == RowOf(pair, a.side)
      other == RowOf(pair, Other(a.side))
  IN IF a.kind = "hash"
     THEN row \in ToSet(a.rows) /\ other \in ToSet(ToProbe(a))
     ELSE \/ other \in ToSet(a.rows) /\ row \in ToSet(ToScan(a))
          \/ other \in ToSet(ToProbe(a)) /\ row \in ToSet(RowsIn(a.task)[a.side])

InBuildMap(pair) ==
  /\ RowOf(pair, BuildSide) \in ToSet(build_map)
  /\ RowOf(pair, Other(BuildSide)) \in ToSet(rest[Other(BuildSide)])

Places(pair) ==
  {<<"delivered", i>> : i \in {j \in DOMAIN output : output[j] = pair}}
    \cup {<<"found", i>> : i \in {j \in DOMAIN output_buf : output_buf[j] = pair}}
    \cup {<<"pending", i>> : i \in {j \in DOMAIN pending_tasks : InTask(pair, pending_tasks[j])}}
    \cup {<<"active", 1>> : a \in {b \in active : InActive(pair, b)}}
    \cup {<<"in memory", 1>> : b \in {c \in {BuildSide} : InBuildMap(pair)}}

\* Once the join has started every matching pair is in one place: delivered, in
\* the output buffer, or still to be found by one partition.  The Bloom filter,
\* the salts, the dropped one-sided partitions and the batches lose none, and
\* none is found twice.
EveryMatchInOnePlace ==
  state # "NotStarted" => \A pair \in Abstract!Joined : Cardinality(Places(pair)) = 1

\* Only pairs that match on the key and on the other predicates are delivered.
OnlyMatchesDelivered == ToSet(output) \subseteq Abstract!Joined

\* Whichever way the inputs are joined, next delivers the pairs that match, each once,
\* and of the others only those whose keys collide down to the last depth in a
\* partition that does not fit in memory.
ImplementsJoinStream == Abstract!JoinSpec

\* Repartitioning ends, and all the pairs come out.
EventuallyJoined == <>(state = "Done" /\ Abstract!AllDelivered)
=============================================================================
