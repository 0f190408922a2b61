--------------------------- MODULE DiskSimulator ---------------------------
(***************************************************************************)
(* The disk process (disk/src/disk_simulation): it gives each data file of *)
(* the configuration a range of blocks, the anonymous pages the blocks     *)
(* above them, serves get and put commands one block after the other, and  *)
(* counts what the head of a disk would do.  The database asks where a     *)
(* table or the region starts and sends commands for blocks from there.    *)
(* Times are floating-point products of these counts and are left out.     *)
(***************************************************************************)
EXTENDS Naturals, Sequences

CONSTANTS
  FileLists,          \* configurations: sequences of an id and a size in bytes
  BlockSize,          \* bytes of a block
  MinGapBytes,        \* kept free above each file: 10_000_000_000 in the code
  BlocksPerCylinder,  \* blocks_per_track * heads_per_cylinder
  Region,             \* stands for the anonymous region among the ids
  Contents,           \* what a page may hold
  Unknown,            \* a place the database has not been told
  MaxPages,           \* bound: pages of the region that are used
  MaxCount,           \* bound: blocks of a command
  MaxCommands         \* bound: block commands

CeilDiv(a, b) == (a + b - 1) \div b

MinGap == CeilDiv(MinGapBytes, BlockSize)

ASSUME DiskAssumption ==
  /\ {BlockSize, MinGapBytes, BlocksPerCylinder} \subseteq Nat \ {0}
  /\ {MaxPages, MaxCount, MaxCommands} \subseteq Nat
  /\ MaxCount <= MinGap   \* no command runs over a whole gap
  /\ \A list \in FileLists :
       list \in Seq([id : {list[i].id : i \in DOMAIN list}, size : Nat])
  /\ \A list \in FileLists : \A i \in DOMAIN list : list[i].id # Region

VARIABLES
  files, phase,                \* the configuration, and what the process does
  mapped, current_position,    \* the loop over the files: how many are done, the next free block
  file_metadata_mapping, anon_start_index, anon_pages,         \* struct Disk
  command, offset,             \* the command that is served, and how many of its blocks are
  metrics, current_cylinder, last_end_block,                   \* DiskIOMetricsSimulator
  starts, lengths,             \* the database: what it knows of the tables and the region
  asked, replies,              \* the blocks it asked for, and what came back
  head                         \* history: how the head moved for each block served

layoutVars  == <<files, mapped, current_position, file_metadata_mapping, anon_start_index>>
metricsVars == <<metrics, current_cylinder, last_end_block>>
vars == <<layoutVars, phase, anon_pages, command, offset, metricsVars, starts, lengths, asked, replies, head>>

Ids(list) == {list[i].id : i \in DOMAIN list}

NoCommand == [start |-> 0, count |-> 0]

\* A function with one more, or another, value.
With(f, x, y) == [z \in DOMAIN f \cup {x} |-> IF z = x THEN y ELSE f[z]]

-----------------------------------------------------------------------------
(* The layout *)

Larger(a, b) == IF a >= b THEN a ELSE b

Blocks(file) == file.size \div BlockSize

EndOf(meta) == meta.start_block + meta.num_blocks

Init ==
  /\ files \in FileLists /\ phase = "validate"
  /\ mapped = 0 /\ current_position = 0 /\ file_metadata_mapping = << >>
  /\ anon_start_index = 0 /\ anon_pages = << >>
  /\ command = NoCommand /\ offset = 0
  /\ metrics = [reads |-> 0, writes |-> 0, blocks |-> 0, cylinders |-> 0, latencies |-> 0]
  /\ current_cylinder = 0 /\ last_end_block = 0
  /\ starts = [id \in Ids(files) \cup {Region} |-> Unknown]
  /\ lengths = [id \in Ids(files) \cup {Region} |-> IF id = Region THEN MaxPages ELSE Unknown]
  /\ asked = << >> /\ replies = << >>
  /\ head = [block |-> 0, blocks |-> 0, cylinders |-> 0, latencies |-> 0]

\* validate_disk_simulation_config: files are whole blocks, and not empty.
Validate ==
  /\ phase = "validate"
  /\ phase' = IF \A i \in DOMAIN files : files[i].size # 0 /\ files[i].size % BlockSize = 0
                THEN "map" ELSE "failed"
  /\ UNCHANGED <<layoutVars, anon_pages, command, offset, metricsVars, starts, lengths, asked, replies, head>>

\* Bug: the smaller one of the two is kept free.
RoomSmaller(num_blocks) == IF 4 * num_blocks <= MinGap THEN 4 * num_blocks ELSE MinGap

\* What is kept free above a file of some blocks.
Room(num_blocks) == Larger(4 * num_blocks, MinGap)

\* One turn of generate_file_metadata_mapping; an id that comes again replaces.
MapFile ==
  /\ phase = "map" /\ mapped < Len(files)
  /\ LET file == files[mapped + 1]
         num  == Blocks(file)
         meta == [file |-> mapped + 1, start_block |-> current_position, num_blocks |-> num]
     IN /\ file_metadata_mapping' = With(file_metadata_mapping, file.id, meta)
        /\ current_position' = current_position + num + Room(num)
  /\ mapped' = mapped + 1
  /\ UNCHANGED <<files, anon_start_index, phase, anon_pages, command, offset, metricsVars, starts, lengths,
                 asked, replies, head>>

\* The end of the last file in the order of blocks, 0 without files.
EndOfFiles ==
  LET ends == {EndOf(file_metadata_mapping[id]) : id \in DOMAIN file_metadata_mapping}
  IN CHOOSE end \in ends \cup {0} : \A other \in ends : other <= end

\* compute_anon_start_index, after which commands are read.
PlaceRegion ==
  /\ phase = "map" /\ mapped = Len(files)
  /\ anon_start_index' = EndOfFiles + MinGap
  /\ phase' = "command"
  /\ UNCHANGED <<files, mapped, current_position, file_metadata_mapping, anon_pages, command,
                 offset, metricsVars, starts, lengths, asked, replies, head>>

-----------------------------------------------------------------------------
(* Commands *)

\* get file start-block and get anon-start-block.
TellStart ==
  /\ phase = "command"
  /\ \E id \in DOMAIN starts :
       /\ starts[id] = Unknown
       /\ starts' = [starts EXCEPT ![id] = IF id = Region THEN anon_start_index
                                           ELSE file_metadata_mapping[id].start_block]
  /\ UNCHANGED <<layoutVars, phase, anon_pages, command, offset, metricsVars, lengths, asked, replies, head>>

\* get file num-blocks, which the database asks after where the table starts.
TellLength ==
  /\ phase = "command"
  /\ \E id \in Ids(files) :
       /\ starts[id] # Unknown /\ lengths[id] = Unknown
       /\ lengths' = [lengths EXCEPT ![id] = file_metadata_mapping[id].num_blocks]
  /\ UNCHANGED <<layoutVars, phase, anon_pages, command, offset, metricsVars, starts, asked, replies, head>>

\* The database asks for blocks of a table, or pages of the region, from where
\* they start; too many of a table run over its end.
SendCommand ==
  /\ phase = "command"
  /\ metrics.reads + metrics.writes < MaxCommands
  /\ \E id \in DOMAIN starts : starts[id] # Unknown /\ lengths[id] # Unknown /\
     \E at \in 0..(lengths[id] - 1), count \in 0..MaxCount :
       /\ id = Region => at + count <= MaxPages
       /\ command' = [start |-> starts[id] + at, count |-> count]
       /\ asked' = [k \in 1..count |-> [of |-> id, at |-> at + k - 1]]
  /\ phase' \in {"get", "put"} /\ offset' = 0 /\ replies' = << >>
  /\ UNCHANGED <<layoutVars, anon_pages, metricsVars, starts, lengths, head>>

Block == command.start + offset

Cylinder(block) == block \div BlocksPerCylinder

Distance(a, b) == Larger(a, b) - (IF a >= b THEN b ELSE a)

\* How the head gets from where it is to the next block.
Moved ==
  [block |-> Block, blocks |-> head.blocks + 1,
   cylinders |-> head.cylinders + Distance(Cylinder(head.block), Cylinder(Block)),
   latencies |-> head.latencies + (IF Block = head.block + 1 THEN 0 ELSE 1)]

\* get_file_id: any file whose range has the block; the map has no order.
Holders(block) ==
  {id \in DOMAIN file_metadata_mapping :
     /\ block >= file_metadata_mapping[id].start_block
     /\ block < EndOf(file_metadata_mapping[id])}

\* Bug: the block is read at its number, not at its distance from the start.
ReadBlockAtNumber(content) ==
  IF Block >= anon_start_index
    THEN Block \in DOMAIN anon_pages /\ content = anon_pages[Block]
    ELSE \E id \in Holders(Block) : content = <<file_metadata_mapping[id].file, Block>>

\* read_block and read_file_block: what is read of the next block, if anything is.
ReadBlock(content) ==
  IF Block >= anon_start_index
    THEN Block \in DOMAIN anon_pages /\ content = anon_pages[Block]
    ELSE \E id \in Holders(Block) :
           content = <<file_metadata_mapping[id].file,
                       Block - file_metadata_mapping[id].start_block>>

Readable ==
  IF Block >= anon_start_index THEN Block \in DOMAIN anon_pages ELSE Holders(Block) # {}

FileContents == {<<i, k>> : i \in 1..Len(files), k \in 0..current_position}

\* Bug: one block more than the command asks for.
ServingBeyond(kind) == phase = kind /\ offset <= command.count

Serving(kind) == phase = kind /\ offset < command.count

Served == offset' = offset + 1 /\ head' = Moved

GetBlock ==
  /\ Serving("get") /\ Readable
  /\ \E content \in Contents \cup FileContents :
       ReadBlock(content) /\ replies' = Append(replies, content)
  /\ Served
  /\ UNCHANGED <<layoutVars, phase, anon_pages, command, metricsVars, starts, lengths, asked>>

\* write_block: blocks below the region are write protected.
PutBlock ==
  /\ Serving("put") /\ Block >= anon_start_index
  /\ \E content \in Contents : anon_pages' = With(anon_pages, Block, content)
  /\ Served
  /\ UNCHANGED <<layoutVars, phase, command, metricsVars, starts, lengths, asked, replies>>

\* The process ends with an error, and nothing of the command is counted; a put
\* is also cut short when the database is gone, and the table a place is asked
\* of may be none of the files: the database has a configuration of its own.
Fails ==
  /\ \/ phase = "command"
     \/ Serving("get") /\ ~Readable
     \/ Serving("put")
  /\ phase' = "failed"
  /\ UNCHANGED <<layoutVars, anon_pages, command, offset, metricsVars, starts, lengths, asked, replies, head>>

\* simulate_io_time of a command of some blocks.  Without the early return it
\* would move the head for a command of none.
HeadMoves(kind) ==
  LET end_block == command.start + command.count - 1
  IN /\ metrics' = [metrics EXCEPT
          ![kind] = @ + 1,
          !.blocks = @ + command.count,
          !.cylinders = @ + Distance(current_cylinder, Cylinder(command.start))
                          + Distance(Cylinder(end_block), Cylinder(command.start)),
          !.latencies = @ + (IF command.start = last_end_block + 1 THEN 0 ELSE 1)]
     /\ current_cylinder' = Cylinder(end_block)
     /\ last_end_block' = end_block

\* update_read_on or update_write_on, and simulate_io_time.
Counted(kind) ==
  IF command.count = 0
    THEN /\ metrics' = [metrics EXCEPT ![kind] = @ + 1]
         /\ UNCHANGED <<current_cylinder, last_end_block>>
    ELSE HeadMoves(kind)

EndCommand ==
  /\ offset = command.count
  /\ \/ phase = "get" /\ Counted("reads")
     \/ phase = "put" /\ Counted("writes")
  /\ phase' = "command"
  /\ UNCHANGED <<layoutVars, anon_pages, command, offset, starts, lengths, asked, replies, head>>

\* The database closes its end, and the metrics are printed.
EndOfCommands ==
  /\ phase = "command"
  /\ phase' = "done"
  /\ UNCHANGED <<layoutVars, anon_pages, command, offset, metricsVars, starts, lengths, asked, replies, head>>

Ended == phase \in {"done", "failed"} /\ UNCHANGED vars

Next ==
  \/ Validate \/ MapFile \/ PlaceRegion
  \/ TellStart \/ TellLength \/ SendCommand \/ GetBlock \/ PutBlock \/ Fails \/ EndCommand \/ EndOfCommands
  \/ Ended

Spec == Init /\ [][Next]_vars

-----------------------------------------------------------------------------
(* Properties *)

\* A get answers no more blocks than it was asked for, and the places the database
\* knows are those on the disk.
TypeOK ==
  /\ phase \in {"validate", "map", "command", "get", "put", "done", "failed"}
  /\ mapped \in 0..Len(files) /\ current_position \in Nat
  /\ DOMAIN file_metadata_mapping = {files[i].id : i \in 1..mapped}
  /\ file_metadata_mapping \in [DOMAIN file_metadata_mapping ->
       [file : 1..mapped, start_block : Nat, num_blocks : Nat]]
  /\ anon_start_index \in Nat
  /\ DOMAIN anon_pages \subseteq {anon_start_index + p : p \in 0..(MaxPages - 1)}
  /\ anon_pages \in [DOMAIN anon_pages -> Contents]
  /\ command \in [start : Nat, count : 0..MaxCount] /\ offset \in 0..command.count
  /\ metrics \in [reads : Nat, writes : Nat, blocks : Nat, cylinders : Nat, latencies : Nat]
  /\ current_cylinder \in Nat /\ last_end_block \in Nat
  /\ Len(replies) \in 0..Len(asked)
  /\ \A id \in DOMAIN starts : starts[id] # Unknown =>
       starts[id] = (IF id = Region THEN anon_start_index ELSE file_metadata_mapping[id].start_block)

\* Between any two files, and between the files and the region, there are at least
\* the blocks of the gap, however many files there are and how long: a read over the
\* end of a file fails and does not return blocks of another (disk.rs:153-157, 174-183).
FilesApart ==
  /\ \A id, other \in DOMAIN file_metadata_mapping : id # other =>
       LET a == file_metadata_mapping[id]
           b == file_metadata_mapping[other]
       IN EndOf(a) + MinGap <= b.start_block \/ EndOf(b) + MinGap <= a.start_block
  /\ phase \notin {"validate", "map", "failed"} =>
       \A id \in DOMAIN file_metadata_mapping :
         EndOf(file_metadata_mapping[id]) + MinGap <= anon_start_index

\* The counts of the commands are those of a head that goes from block to block,
\* starting at block 0: it does not matter for the cylinders, the blocks and the
\* rotational latencies how a run of blocks is split into commands
\* (disk_io_metrics.rs:76-128).
MetricsFollowHead ==
  phase \in {"command", "done"} =>
    /\ metrics.blocks = head.blocks
    /\ metrics.cylinders = head.cylinders
    /\ metrics.latencies = head.latencies
    /\ last_end_block = head.block /\ current_cylinder = Cylinder(head.block)

\* The file behind an id is the last one configured for it.
FileOf(id) ==
  CHOOSE i \in DOMAIN files : files[i].id = id /\ \A j \in DOMAIN files : files[j].id = id => j <= i

\* What the database sees: of each table the file and its length, and its pages.
TablesSeen == [id \in Ids(files) |-> [file |-> FileOf(id), blocks |-> Blocks(files[FileOf(id)])]]

PagesSeen ==
  [p \in {b - anon_start_index : b \in DOMAIN anon_pages} |-> anon_pages[p + anon_start_index]]

Device == INSTANCE BlockDevice WITH tables <- TablesSeen, pages <- PagesSeen

\* The database reads of a table the blocks of its file, in order, whatever was put
\* before, and of the region the pages it put (disk.rs:77-123).
ImplementsBlockDevice == Device!DeviceSpec
=============================================================================
