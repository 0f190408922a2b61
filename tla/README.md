# ExoCore in TLA+

Models, model-checking runs and machine-checked proofs for ExoCore, an
out-of-core query engine (`src/my-awesome-db`). Everything here is translated
from the Rust source; `PROJECT.json` gives, for each definition that models
code, the lines it stands for.

```
tlc -workers 2 -config MCTempStorage.cfg MCTempStorage.tla     # a run
tlapm TempStorage_proofs.tla                                    # the proofs
```

## 1. The system

A run of one query is three processes joined by pipes. The **monitor** opens
the pipes, starts the other two with their ends of them, gives the database the
query and its memory limit, compares the answer with an expected file as it
arrives, and writes a row of metrics. The **disk** serves blocks: data files at
fixed block numbers, and above them an anonymous region of blocks that exist
once they are put. The **database** plans the query and executes it in one
thread: a tree of operators, each with `next() -> Option<Row>`, pulled from the
root. Operators that need more memory than they may use spill rows to temporary
files, which a storage manager lays out in the anonymous region of the disk.

```
        monitor ──query, limit──► database ──get / put──► disk
           ▲  ◄──── rows, "!" ────   │ ▲  ◄─── blocks ───   │
           └───── stderr (metrics) ──┘                      │
           └──────────────────── stderr (metrics) ──────────┘

        query ──► planner ──► tree of operators

        project / filter
             │ next
        SortOperator ──┐
             │ next    ├─► TempRunWriter / TempRunReader ─► TempStorageManager ─► disk
        HashJoin / BlockNestedLoopJoin ┘
             │ next
        ScanOperator ─────────────────────────────────────────────────────────► disk
```

### Components

| component (source) | state it keeps | operations | what makes it correct | status |
|---|---|---|---|---|
| Storage manager (`database/src/temp_storage.rs`) | files with their extents, free extents, end of the region | create, delete, allocate, read, write, append of pending pages | no block has two owners, none is lost, every page is found, a file reads back what was written to it | modelled, **proved** |
| Runs: `TempRunWriter`, `TempRunReader` (`temp_storage.rs`) | page being filled, sealed pages that wait, offset and batch of a reader | append, finish; open, next, drop | a reader delivers the rows of the run in order, each once | modelled, **proved** |
| External sort (`sort.rs`) | buffered rows, run ids, heap of cursors | `prepare` (spill, merge passes), `next` | the input in order; memory and fan-in within the budget; no run lost or kept; it ends | modelled, **proved** |
| Hash join (`join.rs`) | build map, Bloom filter, task stack, active partition, output buffer | build in memory, partition, repartition, probe, nested loops | every match once, nothing else; no file leaks; it ends | modelled, **proved** |
| Block nested-loop join (`join.rs`) | spilled inner file, outer batch | `next` | every pair tried once; it ends | modelled, **proved** |
| Table scan (`disk.rs`, bounds from `executor.rs`) | range of blocks, prefetched and decoded rows | open, two binary searches, refill, `next` | exactly the rows that satisfy the predicates; no block read in vain | modelled, **proved** |
| Query run (`monitor/src/main.rs`, `database/src/main.rs`, `executor.rs`, `disk/src`) | what each process waits for, five pipes, exit status | protocol, validation, kill, wait, report | a success is right, metrics are complete, a run is reported | one query, partly; its safety **proved** |
| Descriptors (`monitor/src/fd_mapper.rs`, `monitor/src/main.rs`, `database/src/io_setup.rs`) | the descriptors of three processes | open pipes, spawn, `remap_fds`, exec, drop | each process has its ends under the numbers it uses, and no other keeps a copy | modelled, **proved** |
| Disk blocks and layout (`disk.rs`, `disk_simulator.rs` of `disk/src`) | place of each data file, blocks of the region, command served | map the files, tell places, get, put | files and region stay apart; a table's blocks are found in its own file | modelled, **proved** |
| I/O metrics (`disk_io_metrics.rs`) | position of the head, counts | count a command | the counts do not depend on how reads are cut into commands | counts modelled, **proved**; times left out |
| Planner (`executor.rs`) | table of orders, needed columns | recursion over the tree, dealing out predicates, search for an order, pruning | the plan means the query, whatever order is cheapest | modelled; the search **proved** |
| Filter and project operators, schemas (`filter.rs`, `project.rs`, `row.rs`) | column indices | resolve; `next` | names resolve to the right columns | partly: resolution in `QueryAlgebra`, predicates in `ScanOperator` |
| Row encoding of temporary pages (`temp_storage.rs`) | none | encode, decode | | not modelled: `TempRuns` keeps the length of a row and its identity |
| Configuration and query types | none | validate | | partly: trees, and the disk's validation of its files |
| Buffer manager (`buffer_manager.rs`) | FIFO page table | `get_block` | | not modelled: nothing calls `get_block` |
| Statistics and estimates | floating-point numbers | | they rank plans and decide no answer | not modelled: any ranking is allowed |
| Data generator, test generator, printer | none | | | not modelled: files and text |

### Where it is hard

The engine is single-threaded, so inside the database the difficulty is not
interleaving by threads but **long legal sequences**: extents recycled through
best fit, splits and `swap_remove`; writers and readers that take turns on one
disk; merge passes and partitioning that delete and create files while others
are still needed; boundaries of pages, batches, extents, budgets and bounds. The planner moves
predicates and columns through renamings and reorderings that only some queries
have.
Across the processes it is **order on pipes of finite size**: a put is not
acknowledged, a read of standard error waits for an exit, a kill cuts a command
short. `PROJECT.json` lists these as hazards, each at its line with the
properties that would catch it.

## 2. Modules

```
 PageStore   ◄─implements─ TempStorage   ◄─proved in─ TempStorage_proofs
                               ▲ INSTANCE
 RunStore    ◄─implements─ TempRuns  ◄─proved in─ TempRuns_proofs ─INSTANCE─► TempStorage_proofs
     ▲ INSTANCE
 ExternalSort ─implements─► SortedStream         (ExternalSort ◄─ ExternalSort_proofs)
 HashJoin, BlockNestedLoopJoin ─implement─► JoinStream   (both ◄─ HashJoin_proofs)
 ScanOperator ─implements─► FilteredScan         (ScanOperator ◄─ ScanOperator_proofs)
 BlockDevice ◄─implements─ DiskSimulator ◄─proved in─ DiskSimulator_proofs
 QueryAlgebra ─┐
 JoinOrder ────┴EXTENDS──► Planner
 FdMapper ─EXTENDS─► ProcessSetup ─EXTENDS─► QueryRun
                        (FdMapper, JoinOrder, QueryRun ◄─ QueryRun_proofs)
 SequenceLemmas ◄─EXTENDS─ the proofs of TempRuns, ExternalSort, HashJoin,
                           ScanOperator, JoinOrder
```

Each abstract module says what the component promises with none of its
mechanism; the detailed module states `Implements...` as an `INSTANCE` with a
refinement mapping, and TLC and TLAPS check it.
`RowSelection` is what the joins share, choosing rows of a list.
`SequenceLemmas` has facts about sequences, sums and rearrangements that name
nothing of the engine. The layers
meet at the abstractions: `TempRuns` runs over the real `TempStorage`, and the
sort runs over `RunStore`, which `TempRuns` implements. The joins keep their
temporary files as sequences of rows, which is what `RunStore` lets a caller
see of a finished run. `TempStorage` keeps the region as a map from blocks to
pages, which is what `BlockDevice` lets the database see of the disk, and
`QueryRun` shows that pipes without acknowledgements preserve it.

**TempStorage.** A call on `TempStorageManager` is one action. `files`,
`free_extents`, `next_free_block`, `next_file_id` are the fields of the struct;
`anon_pages` is the map of the disk process. `AllocateExtent` is
`ReuseExtent` (smallest free extent that is large enough, the first of equals,
`swap_remove`, remainder pushed back) or `GrowRegion`. The one history field is
`first_page` of an extent, which the code adds up at each `locate_extent`.
A deleted file's blocks keep their old contents, as on the disk. Calls that
return an error before they change anything are no steps.

**TempRuns.** A row is an identity and a length (`RowSize`); a page is the rows
in it and the count in its header. `OpenWriter`, `AppendRow` (seal when the row
does not fit, flush when the batch is full), `FinishWriter`, `OpenReader`,
`NextRow` (refill a batch, never beyond an extent), `DropReader`, `DeleteRun`.
Writers and readers of several runs take turns.

**ExternalSort.** `pc` is the place inside `prepare`; a call to temporary
storage is a step. The budgets (`RowBudget`, `ReaderBudget`, `FanIn`, the
doubling of the `Vec`, `ReaderPages`: the batch of a reader) are the arithmetic of
`sort.rs` in bytes. The page each reader is at lies beside its batch and in no budget of
the code, and is not counted. The heap is the
set of open cursors that hold a row, and `OnTop` is the reversed order of
`HeapItem`.

**HashJoin.** One turn of the loop of `next` is a step; `state` is the enum.
A key is one value, and `hash` is any function from a key and a depth to a
partition, so every collision pattern is tried. `lookalikes` are keys the Bloom
filter lets pass wrongly. `BuildSide` follows the planner's hints. The files of a
partition get numbers that `PartOf` and `SideOf` read back; the code takes the next
free id when the first row arrives, and nothing depends on the order of ids.

**BlockNestedLoopJoin.** The same for the join without an equality: the inner
side is spilled (`SpillInner`), the outer comes in batches by bytes.

**ScanOperator.** `Tighter`, `LowerBound`, `UpperBound` are the construction of
the bounds in `executor.rs`, a fold over the predicates; `Search` is a turn of
either binary search, and each probe reads one block. A batch of blocks is
prefetched; every decoded row is tested, and `Kept` are the rows of a sequence
that pass. The actual table may contradict its statistics only when no bound
is used: nothing in the engine checks that a column is in the order the configuration
declares. One column is ordered; which of several the code would take
(`executor.rs:373-520`) is left out.

**QueryAlgebra** has no state. A query is a tree of `QueryOp`; a plan is what a
tree of operators computes from any tables: the uses of tables it combines, the
comparisons its rows satisfy, the columns it delivers with the column of a table
that each comes from, and the columns it sorts by. `ScanPlan`, `FilterPlan`,
`ProjectPlan`, `SortPlan`, `JoinPlan` are the constructors of the operators,
which look names up and refuse a missing one. `Meaning` executes a query as it
is written and is the reference for the planner.

**JoinOrder** is `choose_left_deep_dp_order`: `dp` keeps an order for each set of
leaves, and `ExtendMask` is a turn of the loop over masks. Costs are left out:
each step may keep or replace an order, except that two leaves cost the same
both ways round.

**Planner** is `execute_op_tree` and what it calls, with the recursion as a stack
of calls. `Tree...` and `Leaf...` actions are the arms of the two recursive
functions; `TreeBlock` flattens a filter over cross products and deals out its
predicates, `SearchOrder` runs `JoinOrder`, `JoinLeaf` joins the next leaf with
the predicates whose sides have met and trims the columns.

**DiskSimulator.** `MapFile` is a turn of `generate_file_metadata_mapping`,
`PlaceRegion` is `compute_anon_start_index`. A command is served block by block
(`GetBlock`, `PutBlock`, or `Fails`) and counted at its end (`EndCommand`). The database
asks where a table starts (`TellStart`), then how long it is (`TellLength`); asked of an id
that is no file of its own configuration, the disk fails.
`head` is a history of a head that goes from block to block, which the counts are
compared with. The database asks for blocks at any place it was told, also over
the end of a table.

**FdMapper** is `remap_fds`: the loops that find `remap_base`, park every file
above it and place it. **ProcessSetup** is what the monitor does before the
query: `OpenNextPipe` and `SpawnDisk` for the disk, then for the database
`SpawnDb` (fork), `PreExec` (`FdMapper` in the child) and `ExecDb`. A process
that is not executed yet has the descriptors of the monitor. When the monitor
lets go of its copies is where `Command` and the closure are dropped.

**QueryRun** goes on from there: three processes over pipes that hold a number of
items (a command, a block, a batch of rows, a line). A write blocks on a full
pipe and fails without a reader; a read blocks on an empty one and sees the end
when no process has a descriptor of its writer (`IsOpen`). `Crashes` is an
operator that fails or the memory limit; `GetFails` is a data file or block that
cannot be read. The operators are reduced to what the other processes see of
them: any sequence of gets and puts between rows, the gets of blocks that were put: blocks of
tables, which nothing replaces, and the questions about places are told apart in
`DiskSimulator`.

Definitions marked `Bug:` are not part of the models. Each is the form a
plausible mistake would give the definition that follows it, and shows that the
property named with it in `PROJECT.json` notices the mistake.

## 3. Runs

| run | what it asks | bounds |
|---|---|---|
| `storage` | types, `NoBlockSharedTwice`, `NoBlockLost`, `EveryPageLocated`, `ImplementsPageStore` | 3 files, extents of 1–2 pages, a region of 4 blocks, 2 page contents |
| `runs` | types, `NoEmptyPages`, `BuffersBounded`, `ImplementsRunStore` | 2 runs of up to 3 rows over 4 blocks, rows of half a page or a page, writers that flush after 1 or 2 pages, a reader of 2 pages |
| `sort` | types, `MemoryWithinBudget` (rows with their `Vec`, the writer, the batches of the readers), `LiveRunsReferenced`, `ImplementsSortedStream`, `EventuallyDrained` | up to 5 rows of 40 000 or 91 000 bytes, a descending and an ascending key, 704 KiB, blocks of 64 KiB: runs of a few rows, fan-in 2, several passes, room for the batches of two readers and not of three |
| `hash_join` | `EveryMatchInOnePlace`, `LiveFilesReferenced`, `ImplementsJoinStream` (no match twice, and others only of a crowd that hashes alike), `EventuallyJoined` (all matches) | 2 keys, 3 rows a side, 2 partitions, 1 repartitioning, all hash functions, those that never separate the keys among them |
| `join_colliding` | `OnlyMatchesDelivered` when the keys collide at every depth: **violated** | the same, 2 rows a side, all hash functions |
| `block_join` | `ImplementsJoinStream`, `EventuallyJoined` (with the file deleted) | 2 values, 3 rows a side, batches of 2 |
| `ordered_scan` | `NoMatchSkipped`, `RangeIsTight`, `ImplementsFilteredScan`, `EventuallyScanned` | every ordered table of up to 3 blocks of 1–2 rows with keys 0–2 and some unordered ones, up to 2 predicates of all six operators |
| `planner` | `AnswerIsQuery`, `SupportedQueryPlanned`, `EveryPredicateHolds`, `OrdersWellJoined`, `NoNeedlessCross` | 474 queries over up to 4 leaves: relations that are filtered, sorted, renamed and nested; predicates in chains, rings, stars and parts; any ranking of orders |
| `planner_narrowed` | `SupportedQueryPlanned` when a projected relation is used in part: **violated** | projections over blocks over projections |
| `disk` | types, `FilesApart`, `MetricsFollowHead`, `ImplementsBlockDevice` | 8 configurations of up to 3 files, gaps of 5 blocks, 3 commands of up to 2 blocks, cylinders of 3 blocks, 3 pages |
| `query_reports` | `EachInPlace`, `GetsSeePuts`, `SuccessIsRight`, `MetricsComplete`, `EventuallyReported` | 2 sets of descriptors open before, 3 commands of up to 2 blocks, pipes of 2 items, 5 answers, a query of 1–3 items with room for 4 on standard error |
| `query_refused` | `FailedValidationReported`: **violated** | 1 command |

Why the bounds are enough:

- *Storage*: an error needs at most one file that frees an extent, one that
  takes a part of it, and one to collide with; extents of two sizes let best
  fit choose and split. The layout and contents are moreover proved for every
  value.
- *Runs*: a reader must cross a page, a batch and an extent, and a writer must
  finish on an empty, a part-filled and a just-sealed page; three rows of two
  sizes do all of it. Safety is moreover proved for
  every size of rows, pages and batches.
- *Sort*: three runs at fan-in 2 make a pass with a group of two and a single run
  that is passed through; five rows also make a second pass.
- *Joins*: the paths differ by the number of keys in a partition, which two keys
  exhaust. Three rows give duplicates on both sides and a build that overflows.
  A partition that overflows again at the last depth takes nested loops. Safety of
  both joins is moreover proved for all inputs, budgets and batches.
- *Scan*: three blocks give each search a left, a middle and a right, and equal
  keys that run over two block boundaries; more predicates only tighten the
  two bounds further.
- *Planner*: three leaves give every shape of a left-deep search but two
  disconnected pairs, which the queries of four leaves add; a name passes through
  at most two renamings, and through one that exchanges names. The queries are
  listed in `MCPlanner`.
- *Disk*: two files give each the larger room in turn, a third adds up two gaps,
  an id comes twice, and two sizes are refused. Layout, counts and refinement are
  moreover proved for every configuration.
- *Set-up*: in one instance the sources lie among the targets and one is its own
  target, in the other the parking space is not all free. `remap_fds` is moreover
  proved for all numbers.
- *Query run*: with pipes of two items each process can be ahead of, level with
  and blocked by its neighbours. A put of two blocks can be cut in the middle. The
  safety properties are moreover proved for pipes, commands and answers of any size.

`CHECK_DEADLOCK FALSE` appears only where the bounds on files and blocks make
an instance stop (storage and runs); the operators' own ends are explicit
(`NextNone`, `Reported`).

### Fairness

The operators run in one thread that `execute_query` drives by calling `next`
until it returns `None`, and each turn is finite; `WF_vars(Next)` says that the
thread goes on. In `QueryRun` the set-up and each of the three processes are weakly
fair: the operating system schedules them. Nothing makes the database crash or a read
fail (no fairness on `Crashes`; a failing get is one choice of the disk). The
storage modules, the planner and the disk state no liveness: the first and the
last serve calls that need not come, and the planner's recursion ends with its
tree.

## 4. Proofs

| module | theorem | statement |
|---|---|---|
| `TempStorage_proofs` | `StorageInvariant` | `Spec => []StorageInv` |
| | `TypeCorrect`, `NoSharing`, `NoLoss`, `PagesLocated` | its four parts: `TypeOK`, `NoBlockSharedTwice`, `NoBlockLost`, `EveryPageLocated` |
| | `StorageImplementsPageStore` | `Spec => ImplementsPageStore` |
| `DiskSimulator_proofs` | `DiskInvariant` | `Spec => []DiskInv` |
| | `FilesAreApart`, `CountsFollowHead`, `TypeCorrect` | `FilesApart`, `MetricsFollowHead`, `TypeOK` |
| | `DiskImplementsBlockDevice` | `Spec => ImplementsBlockDevice` |
| `TempRuns_proofs` | `RunInvariant` | `Spec => []RunInv` |
| | `RunsTyped`, `PagesHoldRows`, `BuffersStayBounded` | `TypeOK`, `NoEmptyPages`, `BuffersBounded` |
| | `RunsRefine` | `Spec => ImplementsRunStore` |
| `ExternalSort_proofs` | `SortInvariant` | `Spec => []SortInv` |
| | `TypeCorrect`, `NoRunLost`, `MemoryBounded` | `TypeOK`, `LiveRunsReferenced`, `MemoryWithinBudget` |
| | `RowsKept` | `Spec => []DataInv` |
| | `SortRefines` | `Spec => ImplementsSortedStream` |
| `HashJoin_proofs` | `JoinInvariant`, `MatchInvariant` | `Spec => []JoinInv`, `Spec => []MatchInv` |
| | `FilesReferenced`, `MatchesInOnePlace` | `LiveFilesReferenced`, `EveryMatchInOnePlace` |
| | `JoinResult` | `Spec => [](state = "Done" => ...)`: every match is delivered, none twice, and beside them only pairs of `Colliding` |
| | `JoinImplementsStream` | `Spec => ImplementsJoinStream` |
| | `BlockJoinInvariant`, `BlockJoinDeliversAll` | of `BlockNestedLoopJoin`: `Spec => []BlockInv`, and that it is `Done` with all pairs delivered |
| | `BlockJoinImplementsStream` | of `BlockNestedLoopJoin`: `Spec => ImplementsJoinStream` |
| `ScanOperator_proofs` | `ScanInvariant` | `Spec => []ScanInv` |
| | `TypeCorrect`, `NoRowSkipped`, `RangeExact` | `TypeOK`, `NoMatchSkipped`, `RangeIsTight` |
| | `ScanRefines` | `Spec => ImplementsFilteredScan` |
| `QueryRun_proofs` | `RemapInvariant`, `FilesInPlace` | `RemapSpec => []RemapInv`, `[]EachInPlace` |
| | `SetupInvariant`, `RunFilesInPlace` | `Spec => []SetupInv`, `[]EachInPlace` |
| | `EndsAlwaysFollow` | `Spec => []EndsFollowProcesses` |
| | `TrafficInvariant` | `Spec => []Inv` |
| | `GetsAlwaysSeePuts`, `MetricsAlwaysComplete` | `GetsSeePuts`, `MetricsComplete` |
| | `SuccessIsAlwaysRight`, `TypeCorrect` | `SuccessIsRight`, `TypeOK` |
| | `OrderInvariant`, `OrderTypeCorrect`, `OrdersAreWellJoined` | `OrderSpec => []OrderInv`, `[]OrderTypeOK`, `[]OrdersWellJoined` |
| | `SearchFindsOrder` | `OrderSpec => []OrderFound` |

They hold for every value of the constants that satisfies the assumptions of the
modules. `StorageAssumption`: the bounds are numbers, the region starts below the
largest block, `None` is no block and `Unwritten` no page. `RegionAssumption` is the
same of a region whose pages are those of runs. `RunAssumption`: a row takes some
bytes, a batch of a writer has a page and is no longer than the longest extent asked for
in `TempStorage` (the length asked for is the batch, so this bounds nothing in the
code), and the row count of a page counts further than the page has bytes. The last is
true for blocks up to 64 KiB, and is the hazard at `temp_storage.rs:424` for larger
ones. `DiskAssumption`:
sizes and bounds are numbers, the region is no table, and a command is no longer
than a gap, else a read could start in one file and end in the next. With the
sizes of the code a gap is ten gigabytes. `SortAssumption`: a row takes some
bytes, sort keys are numbers, the bound on the input is a number, `NoRow` is no row
and `NoRun` no run. That keys are numbers stands for values of one kind that
compare; the hazard at `sort.rs:301` is about others. `ScanAssumption`: a block
has at least one row, the keys of the ordered column are numbers, and `NoBound` is
no bound. `JoinAssumption`: costs, sizes and the number of partitions are positive,
budgets and depths are numbers, and a hash function sends a key and a depth to a
partition: any function, so the theorems hold whether or not the salts tell the keys
apart. The join without an
equality needs of this only that the bound on its input is a number. `JoinOrderAssumption`:
the largest number of leaves is a number. `QueryRunAssumption` and `RowsAssumption`: the bounds
are numbers, the pipes hold something, answers are sequences, and no row is the line
`!` that ends them: the code closes every column of a row by a bar. `InheritedAssumption`
and `FilesAssumption`: what the monitor was started with is a finite set of numbers, and
`Files` has the ends of the pipes and `Other`, whatever is no pipe.

`JoinOrder` and `FdMapper` are proved with a specification of their own
(`OrderSpec`, `RemapSpec`), in which a search or a call starts with any arguments;
`Planner` and `ProcessSetup` take the same actions with theirs. For `ProcessSetup` the
theorems about the set-up are of the `Spec` of `QueryRun`, which contains it.

### Storage

*The inductive invariant.* `StorageInv` is the conjunction of the four, and none
is inductive alone. That no block is shared needs that all extents lie below the
end of the region (in `NoBlockLost`), or growth could hand out a block in use.
It needs the types, or a remainder could have no page. That every page is
located needs only that extents are pushed at `num_pages`, but its proof for
`delete` and `allocate` of *other* files rests on the types of `files`.

*The argument.* The layout facts are reduced to order: two extents are apart when
one ends before the other begins (`ApartIsOrdered`). `ReuseExtentCarves` and
`GrowRegionCarves` say the same of both ways to allocate: the new extent is
carved out of what was free or beyond the region, and what is left is exactly
the rest. `AllocateExtentKeepsLayout` then serves `allocate_page` and the append
alike. Deletion moves extents from one list to the other.

*The refinement.* The mapping reads every file through its extents. The steps
rest on `BlocksOfPagesDiffer` (two pages of live files are never in one block,
which is `NoBlockSharedTwice` and `EveryPageLocated` together). So a put changes
the pages it is for and no others (`BlockKept`, `StoredPagesKept`). A freshly
allocated page may hold anything the abstract store calls held.

### Runs

*The inductive invariant.* `RunInv` has the layout of the region and three parts of
its own. `WritersInv`: a page counts its rows, every sealed page that waits has some,
fewer wait than a batch, and a page under way has used at least a byte a row. The
last keeps the row count from wrapping. `FilesInv`: the pages of a file count their rows,
and only a finished run without rows has a page without any. `ReadersInv`: the pages of
a batch that a reader has not loaded are those that follow the page it is at, so that
batch, position and file never disagree, though a batch stops where an extent does.

*The layout is not proved again.* `TempRuns` is over `TempStorage` with pages of rows.
Its theorems are cited through an `INSTANCE` of `TempStorage_proofs` with the same
pages: what creating, appending to and deleting a file does to the pages of all files
(`FileCreated`, `FileFlushed`, `FileDeleted`).

*The refinement.* The rows of a run are those of its pages, of those that wait and of
the page under way; sealing and flushing move rows from one to the next
(`RowsInSealed`, `RunExtended`). What a reader has ahead is the rest of its
page, of its batch and of the file (`RowsAheadAreTheRest`), and loading a page or
refilling a batch changes where these rows are and not what they are
(`LoadingKeepsRows`). Before `next_row` returns it has passed the pages without rows, of
which there is one at most (`SettledFinds`), so it delivers the first row ahead, or
`None` when there is none.

### Disk

*The inductive invariant.* `DiskInv` has three parts, proved one on the other.
`LayoutInv` says of the loop over the files that each ends, with its gap, at or
before `current_position`, and that the mapped files are apart. An id that comes
again is given a later place and forgets the first. `CommandInv` relates what the
database was told and asked to where it is on the disk: block `k` of a command is
the page or the block of the table that was asked for, and what was answered is
what is there. `HeadInv` says how far the counts and the history have come inside
a command.

*The argument.* That the region is above every file needs the file that ends last.
Sets have no induction here, so `LayoutInv` names that file as the loop goes on.
A get over the end of a table meets no other file, because it starts below the end
and the next file is a gap away (`HolderIsTable`). For the counts, a step inside a
command moves the head by one block, which crosses at most one cylinder, and always
in one direction: distances add up because `\div` is monotone.

*The refinement.* A get, a put and a command map to steps of `BlockDevice`; the
layout, what is told and the counts are stutters.

### External sort

*Which runs exist.* `SortInv` follows the code from call to call: the ids the sort
has filed are live runs, all different, and with the one being written they are all
there is (`Filed`, of which `LiveRunsReferenced` is another form). `WriterPhase` and
`ListPhase` say which of them there can be at each point of `prepare`, `CursorPhase`
that the cursors open are those of the group being merged, in its order and within
the fan-in. `RowPhase` has the row between the heap and its next place.

*Memory.* The buffer holds no row that was not within the budget when it was pushed
(`RowsBelowBudget`). Sorting a buffer changes the order of its rows and not the sum
of their bytes, which takes the lemmas on sums and bijections of `SequenceLemmas`.
The batches of a merge are an equal part of the budget of the readers for each run
(`ReadersShareBudget`). A batch has at least a page, so this needs a budget of two blocks,
for the fan-in is at least two; a smaller one is passed by the code, and
`MemoryWithinBudget` says nothing of it.

*What is in the runs.* Rows have no identity in the code, two may be equal, so "no
row is lost" is said with a witness. `Places` are the places where a row can be: the
buffer, each run, the row under way, what was delivered. `RowsTraced` says that some
one-to-one function from the places onto the rows pulled so far finds in each place
the row it came from. Every step changes the trace by hand: a spill
moves places from the buffer to a run by the permutation of the sort, a merge moves
one from the heap to a run. `RunsInOrder`, `BufferInOrder` and `MergeInOrder` say of
runs, buffer and heap that they are sorted and that nothing that is still to come
from a cursor precedes what was written.

*The refinement.* What the abstract stream may still deliver is the bag of the source
without what was delivered. `RemainingPlaces` makes that bag the one of the other
places, and the order of the cursors makes the row on top of the heap a least of
them. Then `next` delivers what `SortedStream` may deliver; every other step stutters.

### Hash join

*Files and rows.* `JoinInv` says of the tasks waiting and being joined that each has
two files of its own, that all live files are theirs (`FilesOwned`), and of the files
that they hold rows of their side of the input, no row twice, are not empty, and that
the rows of a task hashed alike at every depth so far (`FilesFilled`). `SplitIntoFiles` is used
for the inputs and for a task, and one lemma serves both (`SplitKeepsFiles`): the files
that go away are replaced by those of the partitions kept, whose numbers are new and
differ (`FileNumbers`). `Underway` says how far the active partition has read its two
files, and that an outer batch is disjoint from the rows after it.

*Each match in one place.* `MatchInv` has two halves. `OnceInv`: no two tasks share
a row, and a pair that was found has nowhere left to be found. `KeptInv`: a pair
that matches is found or waits somewhere, in a pending task, in the active partition
or in the build map. Steps are of three kinds. Partitioning moves what waits
(`SplitSpots`): the rows of a match have one key, so every salted hash sends both to
the same partition, that partition is not one-sided and so is kept. The filter
drops no row of a match, since the key of its partner was entered
(`PartitionedRows`). Reading a row finds exactly the pairs that stop waiting
(`FindingKeeps`), once, for a file has no row twice. A delivery moves a pair from
the buffer to the output. That there is exactly one place follows, since one row
lies in one task (`OneSpot`, `PlacesFilled`).

*What is found beside the matches.* The code delivers pairs that do not match (section 5),
so the stream that the join implements allows them, and says which: the pairs of
`Colliding`, whose rows satisfy the other predicates, hash alike at every depth, and are
`Crowded`: of the rows of one input, those that hash like them take more than the build
budget. `OnlyOwedFound` is the invariant that what was found is a match or such a pair.
What hashing finds matches. A nested loop is started only at the last depth, on a build
side that overflowed its budget (`Underway`), and the rows of both its files hashed alike
at all depths from 0 to `MaxDepth` (`ActiveSpotRows`); as a file has no row twice, its
rows are a part of those counted (`NestedLoopCrowded`, with `ElementsCounted` of
`SequenceLemmas`).

*The refinement.* `PopOutput` delivers a pair that is owed and was not delivered; every
other step stutters. At the end nothing has still to be found, so every match is
delivered (`JoinResult`). When the build sides fit, or the hashes separate the keys at some
depth, `Colliding` is empty and the join is right.

### Block nested-loop join

It is proved beside the hash join, over the same inputs and outputs, as an
`INSTANCE` of its module. A pair is `Untried` as long as its outer row is still to come,
or is in the batch with its inner row still to be read. `BlockInv` says that outer rows
to come and in the batch are distinct, and that every pair that matches is found or
untried, never both, and is found once. A new batch leaves all pairs as they were,
since the file is read from its start; a row of the file finds exactly those of its
pairs with the batch that match. At the end nothing is untried, so all are delivered.
All the predicates are evaluated on every pair, so its stream allows no others.

### Scan

*The bounds.* A fold over the predicates keeps the tightest bound. `BoundRulesOut`
says that it rules out exactly the keys that some predicate rules out, by the
principle of `SequenceLemmas` for folds (`FoldPrefixes`): what one step of the fold
preserves holds of the result.

*The searches.* Over a table in order, "the first row of the block is beyond the upper
bound" and "the last row is below the lower bound" are monotone in the block
(`SearchMonotone`). `SearchInv` says of each search that the blocks before `lo`
and after `hi` are decided as the search has left them. When it ends, the range of
blocks is exactly those that neither bound rules out, which gives `NoMatchSkipped`
(a row that passes is in the range) and `RangeIsTight` (no block of the range is
ruled out) at once.

*What is delivered.* `DeliveredInv`: what was delivered, followed by the decoded
rows that wait, is what is kept of the blocks begun. The actual table is the flattened
sequence of its blocks, so what is kept of it is what is kept of each block, one
after the other (`KeptConcat`, `KeptTable`), and blocks out of the range give
nothing. The delivered rows are thus always a prefix of what `FilteredScan`
promises, and all of it at the end.

### Join order

`OrderInv` is that every order kept is well joined, for all sets at once. A
step appends a leaf outside of the set that a predicate joins to it
(`AppendWellJoined`), whatever was kept or replaced.

That an order is found needs the sequence of the loop over masks. `SearchInv` says that the
sets it has passed are smaller numbers than those it has not, and that an order of a
set it has passed was extended by every leaf that a predicate joins to the set. A set with one
leaf more is a larger number (`ExtensionNotSmaller`), so no set gets its order after the
loop has passed it. At the end, a largest set with an order that is not all the leaves
could have been extended if the predicates connect the leaves (`LeavesConnected`);
so it is all of them (`SearchedAll`, with `LargestSet` of `SequenceLemmas`). The planner
joins leaves as the query lists them, which may need cross products, only when there is
no order.

### Descriptors

`RemapInv` has a part for each loop. While files are parked, those before `index`
are above `remap_base`, their sources closed, and the others are where they were;
while they are placed, those before `index` are at their targets and the others
parked. A step disturbs no other file, since sources differ, targets differ, and
parking places are above both (`ParkedApart`). At or above `remap_base` it only holds
that nothing is added (`NothingAdded`): the code does not look whether these numbers
are free, so what was open there may be closed.

`SetupInv` says what the monitor holds at each stage: both ends of the pipes opened so
far, less those given to a process (`MonitorEnds`), each to be closed on exec, and none
under 0, 1 or 2 (`HoldsEnds`). That a new descriptor is none of the old ones is
`LowestFreeIsFree`, a pigeonhole argument. So the sources `SpawnDb` hands to `remap_fds`
are open, differ and are no standard stream (`DbEndsOpen`, `Handed`), which is what
`RemapInv` needs; with `NothingAdded` only the targets and standard error survive the
exec. `EndsAlwaysFollow` is the consequence the rest of the run depends on: an end that
was given to the database or the disk is open exactly while that process is there, so
every end of file and every broken pipe they rely on arrives.

### Query run

*The disk.* `Traffic` says that the items of the command pipe lead the disk from
where it is to a state `t` (`Course` is the list of states on the way), and
`InStep(t)` that `t` is what the database believes: the same pages, and every
command counted but the one in progress. So a pipe of any length is handled by
three lemmas: nothing leads nowhere else, an item more at the end leads one state
further (`LeadsAppend`), and an item taken leaves a course from the next state
(`LeadsTail`). `PipesFit` adds what makes a read synchronous: the database asks for
nothing new before the last block it waits for has arrived, so a get is the last
command of the pipe, and the disk that serves it has all the puts. At the end of
file the pipe is empty and the disk between two commands, so `t` is the disk itself
and its counts are final (`CountsFinal`), however the database ended.
`NeverCountsMore` reads from a course that no count exceeds what was sent, which
`TypeCorrect` needs.

*The answer.* `Dialogue` places the lines of the other pipe in one stream, the limit
request, `validate`, the rows and `!`: some number of them is read, those in the
pipe follow, and the database has the rest. The monitor's place determines the
number but for `command`, where it is 0 or 1. When `!` is read, every row was.

### Only model-checked

The planner but its search is checked on the instances above.
Out of the prover's reach are liveness and `ENABLED` (`EventuallyDrained`,
`EventuallyJoined`, `EventuallyScanned`, `EventuallyReported`), and modules with
`RECURSIVE` operators, which `QueryAlgebra` and `Planner` need for trees and no
other module declares. Induction theorems that take an operator as a parameter
cannot be applied either. `SequenceLemmas` therefore does induction over sets: a
set of numbers that has 0 and the successor of each of its elements has them all
(`SetInduction`, from the least number outside of it), and recursive functions and
`FoldLeft` are defined by their equations (`NaturalRecursion`, `FoldRecursion`).
That is enough for sums, folds and flattening. `SelectSeq` is defined in a form
that the provers do not expand, so modules that are proved about filter with a fold or
a recursive function (`Among`).

## 5. What was found

1. **A partition joined by nested loops forgets the keys** (`join_colliding`).
   The equality predicates are turned into key indices and only the others stay
   in `resolved_extra`; hash probing compares keys by looking them up, but the
   nested-loop path (`join.rs:1318`) evaluates `resolved_extra` alone. Two
   different keys that fall in one partition at every depth are then delivered
   as a match. That takes a crowd, more rows that hash alike than fit the build
   budget: `hash_join` and the theorem `JoinResult` show that it is the only way
   to a wrong pair. `src/README.md:181` presents the path as a slower way to the
   same join.
2. **A failed validation may be reported as missing metrics** (`query_refused`).
   A refused answer makes the monitor kill the database; when this cuts a
   command short the disk fails and prints no metrics, and `parse_disk_metrics`
   (`monitor/src/main.rs:444`) returns its own error before the result of the
   validation is looked at (`main.rs:458-461`).

3. **A projection of which only a part is used is refused** (`planner_narrowed`).
   A `Project` over a single relation passes down only the sources that are
   needed above it (`executor.rs:686-700`, `714-734`), the scan drops the others,
   and `ProjectOperator` then misses them (`project.rs:22`), although
   `src/README.md:139` says no more than that required columns are pushed down.

Weaknesses the models bound without calling them errors:

- The monitor reads the database's standard error only after its exit, so a query
  whose debug print fills that pipe stops the run for ever; `EventuallyReported`
  says that a run is reported if its text has room, and that this is the only
  way to stop.
- Without a projection on top, the sequence of the output columns follows the
  chosen order of the joins (`AnswerIsQuery` asks for it only under `ColumnsNamed`),
  and a name that two relations have means the last of them in that order.
- `remap_fds` closes what is open in its parking space, among it the pipe on which
  the standard library reports that a program could not be executed.

## 6. Plan

Done, in the order of what a wrong answer depends on: storage, runs, sort, joins,
scan, the query run, the planner, the disk, the descriptors; the proofs about
storage, runs, disk, sort, both joins, scan, join order, descriptors and query run.

Next, to model: the loop of the monitor over the queries of a configuration, which
stops at the first that fails, and the rows of metrics of those before it.

### Not modelled

- *Buffer manager*: `get_block` has no caller in the engine, and the manager is
  asked for nothing but its block size.
- *Statistics and estimates*: floating-point numbers that rank orders; `JoinOrder`
  lets any ranking be chosen. Their effect on `HashJoin` (which side is built) is an
  arbitrary hint there.
- *Times of the I/O metrics*: products of the counts with constants, printed and
  never read back.
- *Encodings, values, configuration files and command lines*: data and text. The
  models keep of a row its key, its length and its identity.
- *Generators and printers*: programs that run before or after the system.
- *Errors after which a query ends*, in the operators: `Crashes` of `QueryRun`
  stands for all of them. The limits set before the database is executed are one
  more reason for it.
