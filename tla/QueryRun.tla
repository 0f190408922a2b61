------------------------------ MODULE QueryRun ------------------------------
(***************************************************************************)
(* One query of a run: the monitor (monitor/src/main.rs), the database     *)
(* (database/src/main.rs, execute_query in executor.rs) and the disk       *)
(* (disk/src/disk_simulation) as three processes over bounded pipes.  A    *)
(* write blocks while its pipe is full and fails when the reader is gone;  *)
(* a read blocks while its pipe is empty and sees the end of file when the *)
(* writer is gone, which is when no process has a descriptor of that end   *)
(* (ProcessSetup).  A pipe carries items: a command, a block, a batch of   *)
(* output rows, a line.                                                    *)
(***************************************************************************)
EXTENDS BagsExt, SequencesExt, ProcessSetup

CONSTANTS
  MaxBlock,     \* anonymous blocks 1..MaxBlock
  MaxCommands,  \* bound: block commands the operators send
  PipeItems,    \* items a pipe holds
  StderrItems,  \* items the pipe of the database's standard error holds
  QueryLines,   \* bound: items the pretty-printed query fills
  Answers,      \* what the database may answer: sequences of batches
  Expected,     \* the batches of the expected output file
  NoReport      \* nothing reported yet

ASSUME QueryRunAssumption ==
  /\ {MaxBlock, MaxCommands, QueryLines} \subseteq Nat
  /\ {PipeItems, StderrItems} \subseteq Nat \ {0}

\* The last column of a row is closed by a bar, so no row is the line that ends them.
ASSUME RowsAssumption ==
  \A rows \in Answers \cup {Expected} :
    LET texts == {rows[i] : i \in DOMAIN rows}
    IN rows \in Seq(texts) /\ "!" \notin texts

VARIABLES
  monitor, sort_before_check, db_output_rows, db_result,  \* the monitor: where it is, handle_db
  metrics_csv, report,                                    \* the row of the CSV, and the outcome
  db, killed, to_print, rest, job,                        \* the database: where it is, its command
  answer, written, issued,          \* the whole answer, the blocks it put, the commands it sent
  disk, disk_job, anon_pages, metrics,                    \* the disk process
  monitor_to_db, db_to_monitor, disk_inbound, disk_outbound, db_stderr

monitorVars == <<monitor, sort_before_check, db_output_rows, db_result, metrics_csv, report>>
dbVars      == <<db, to_print, rest, job, answer, written, issued>>
diskVars    == <<disk, disk_job, anon_pages, metrics>>
pipeVars    == <<monitor_to_db, db_to_monitor, disk_inbound, disk_outbound, db_stderr>>
runVars     == <<monitorVars, dbVars, killed, diskVars, pipeVars>>
vars        == <<setupVars, runVars>>

DbUp   == db # "exited"
DiskUp == disk \notin {"done", "failed"}

\* The processes run once they are set up.
Runs == setup = "run" /\ UNCHANGED setupVars

Has(fds, file) == \E fd \in DOMAIN fds : fds[fd].file = file

\* A process that is there has a descriptor of the end of a pipe.
IsOpen(file) ==
  \/ Has(monitor_fds, file)
  \/ DbUp /\ Has(db_fds, file)
  \/ DiskUp /\ Has(disk_fds, file)

\* Each finds its pipes under the numbers it reads and writes, or gets nowhere.
HasAt(fds, fd, file) == fd \in DOMAIN fds /\ fds[fd].file = file

DbWired   == \A k \in DOMAIN DbEnds : HasAt(db_fds, DbFds[k], DbEnds[k])
DiskWired == HasAt(disk_fds, 0, Reader("disk_inbound")) /\ HasAt(disk_fds, 1, Writer("disk_outbound"))

Writable(pipe)   == Len(pipe) < PipeItems
HasItem(pipe, i) == pipe # << >> /\ Head(pipe) = i

Counts    == [reads : 0..MaxCommands, writes : 0..MaxCommands]
NoBlocks  == [op |-> "none", block |-> 0, len |-> 0, at |-> 0]
Command(op, block, len) == [op |-> op, block |-> block, len |-> len, at |-> 0]
Data(stamp)             == [op |-> "data", stamp |-> stamp]

-----------------------------------------------------------------------------
(* The monitor *)

\* Bug: a database whose answer is refused is left running.
HandleDbReturnsAlone(outcome) ==
  /\ db_result' = outcome
  /\ monitor' = "wait_db"
  /\ UNCHANGED killed

HandleDbReturns(outcome) ==
  /\ db_result' = outcome
  /\ killed' = (outcome # "ok")
  /\ monitor' = "wait_db"

\* write_all to the database: it fails once the database is gone.
Send(line, next) ==
  /\ IF IsOpen(Reader("monitor_to_db"))
     THEN /\ Writable(monitor_to_db)
          /\ monitor_to_db' = Append(monitor_to_db, line)
          /\ monitor' = next
          /\ UNCHANGED <<db_result, killed>>
     ELSE HandleDbReturns("no_answer") /\ UNCHANGED monitor_to_db
  /\ UNCHANGED <<sort_before_check, db_output_rows, metrics_csv, report, dbVars, diskVars,
                 db_to_monitor, disk_inbound, disk_outbound, db_stderr>>

SendQuery == monitor = "query" /\ Send("query", "command")
SendLimit == monitor = "limit" /\ Send("limit", "command")

\* An item of the database's output is taken, or its end.
Receive ==
  /\ db_to_monitor # << >>
  /\ db_to_monitor' = Tail(db_to_monitor)
  /\ UNCHANGED <<sort_before_check, metrics_csv, report, dbVars, diskVars,
                 monitor_to_db, disk_inbound, disk_outbound, db_stderr>>

ReadCommand ==
  /\ monitor = "command"
  /\ Receive
  /\ monitor' = IF Head(db_to_monitor) = "get_memory_limit" THEN "limit" ELSE "validate"
  /\ UNCHANGED <<db_output_rows, db_result, killed>>

\* validate_presorted compares as it reads; validate_bysorting only counts.
RowAccepted(row) ==
  LET n == Len(db_output_rows)
  IN n < Len(Expected) /\ (sort_before_check \/ row = Expected[n + 1])

BagOf(rows) == FoldLeft(LAMBDA bag, row : bag (+) SetToBag({row}), EmptyBag, rows)

\* Bug: zip compares no more rows than the database sent.
EndAcceptedShort ==
  IF sort_before_check
  THEN LET n == Len(db_output_rows)
       IN BagOf(db_output_rows) = BagOf(SubSeq(Expected, 1, n))
  ELSE Len(db_output_rows) = Len(Expected)

EndAccepted ==
  /\ Len(db_output_rows) = Len(Expected)
  /\ BagOf(db_output_rows) = BagOf(Expected)

ReadRow ==
  /\ monitor = "validate"
  /\ Receive /\ Head(db_to_monitor) # "!"
  /\ IF RowAccepted(Head(db_to_monitor))
     THEN /\ db_output_rows' = Append(db_output_rows, Head(db_to_monitor))
          /\ UNCHANGED <<monitor, db_result, killed>>
     ELSE HandleDbReturns("mismatch") /\ UNCHANGED db_output_rows

ReadEnd ==
  /\ monitor = "validate"
  /\ Receive /\ Head(db_to_monitor) = "!"
  /\ HandleDbReturns(IF EndAccepted THEN "ok" ELSE "mismatch")
  /\ UNCHANGED db_output_rows

\* The database is gone before its answer is complete.
EndOfOutput ==
  /\ monitor \in {"command", "validate"}
  /\ db_to_monitor = << >> /\ ~IsOpen(Writer("db_to_monitor"))
  /\ HandleDbReturns("no_answer")
  /\ UNCHANGED <<sort_before_check, db_output_rows, metrics_csv, report, dbVars, diskVars,
                 pipeVars>>

\* Standard error is read only after the database has exited.
WaitDb ==
  /\ monitor = "wait_db" /\ ~DbUp /\ ~IsOpen(Writer("db_stderr"))
  /\ monitor' = "wait_disk"
  /\ db_stderr' = 0
  /\ UNCHANGED <<sort_before_check, db_output_rows, db_result, metrics_csv, report, killed,
                 dbVars, diskVars, monitor_to_db, db_to_monitor, disk_inbound, disk_outbound>>

\* parse_disk_metrics returns before the result of handle_db is looked at.
WaitDisk ==
  /\ monitor = "wait_disk" /\ ~DiskUp /\ ~IsOpen(Writer("disk_stderr"))
  /\ monitor' = "done"
  /\ IF disk = "done"
     THEN /\ metrics_csv' = metrics
          /\ report' = IF db_result = "ok" THEN "success" ELSE "validation_failed"
     ELSE report' = "no_disk_metrics" /\ UNCHANGED metrics_csv
  /\ UNCHANGED <<sort_before_check, db_output_rows, db_result, killed, dbVars, diskVars,
                 pipeVars>>

Monitor ==
  /\ Runs
  /\ \/ SendQuery \/ SendLimit \/ ReadCommand \/ ReadRow \/ ReadEnd
     \/ EndOfOutput \/ WaitDb \/ WaitDisk

-----------------------------------------------------------------------------
(* The database *)

\* The items of dbVars but the ones a step of the protocol moves.
KeepsEngine == UNCHANGED <<rest, answer, written, issued>>

PrintsTo(next) ==
  /\ db_stderr < StderrItems
  /\ db_stderr' = db_stderr + 1
  /\ db' = next

ReadQuery ==
  /\ db = "start" /\ HasItem(monitor_to_db, "query")
  /\ monitor_to_db' = Tail(monitor_to_db)
  /\ db' = "printing"
  /\ KeepsEngine /\ UNCHANGED <<to_print, job, db_to_monitor, disk_inbound, disk_outbound, db_stderr>>

PrintQuery ==
  /\ db = "printing" /\ to_print > 0
  /\ PrintsTo("printing") /\ to_print' = to_print - 1
  /\ KeepsEngine /\ UNCHANGED <<job, monitor_to_db, db_to_monitor, disk_inbound, disk_outbound>>

\* A line for the monitor.
Tell(line, next) ==
  /\ Writable(db_to_monitor)
  /\ db_to_monitor' = Append(db_to_monitor, line)
  /\ db' = next
  /\ UNCHANGED <<to_print, job, written, issued, answer,
                 monitor_to_db, disk_inbound, disk_outbound, db_stderr>>

AskLimit ==
  /\ db = "printing" /\ to_print = 0
  /\ Tell("get_memory_limit", "ask_limit") /\ UNCHANGED rest

\* The limit is read, printed, and the disk is asked for its block size.
ReadLimit ==
  /\ db = "ask_limit" /\ HasItem(monitor_to_db, "limit")
  /\ monitor_to_db' = Tail(monitor_to_db)
  /\ PrintsTo("receiving")
  /\ job' = Command("block-size", 0, 1)
  /\ disk_inbound' = Append(disk_inbound, job')
  /\ KeepsEngine /\ UNCHANGED <<to_print, db_to_monitor, disk_outbound>>

\* A block of the answer to a get, or the block size, after which the answer starts.
ReceiveBlock ==
  /\ db = "receiving" /\ disk_outbound # << >>
  /\ disk_outbound' = Tail(disk_outbound)
  /\ job' = [job EXCEPT !.at = @ + 1]
  /\ db' = IF job'.at < job.len THEN "receiving"
            ELSE IF job.op = "block-size" THEN "validate" ELSE "running"
  /\ KeepsEngine /\ UNCHANGED <<to_print, monitor_to_db, db_to_monitor, disk_inbound, db_stderr>>

StartOutput == db = "validate" /\ Tell("validate", "running") /\ UNCHANGED rest

Extents == {e \in (1..MaxBlock) \X (1..MaxBlock) : e[1] + e[2] - 1 <= MaxBlock}

\* Between two rows the operators read and write blocks.
SendCommand(op, block, len) ==
  /\ db = "running"
  /\ issued.reads + issued.writes < MaxCommands
  /\ Writable(disk_inbound) /\ IsOpen(Reader("disk_inbound"))
  /\ job' = Command(op, block, len)
  /\ disk_inbound' = Append(disk_inbound, job')
  /\ UNCHANGED <<to_print, rest, answer, written, monitor_to_db, db_to_monitor, disk_outbound,
                 db_stderr>>

Get(block, len) ==
  /\ \A b \in block..(block + len - 1) : written[b] # 0
  /\ SendCommand("get", block, len)
  /\ issued' = [issued EXCEPT !.reads = @ + 1]
  /\ db' = "receiving"

\* A put is not acknowledged.
Put(block, len) ==
  /\ SendCommand("put", block, len)
  /\ issued' = [issued EXCEPT !.writes = @ + 1]
  /\ db' = "sending"

\* Bug: a block more than the command announced.
SendBlockBeyond ==
  /\ db = "sending" /\ Writable(disk_inbound) /\ IsOpen(Reader("disk_inbound"))
  /\ disk_inbound' = Append(disk_inbound, Data(issued.writes))
  /\ written' = [written EXCEPT ![job.block + job.at] = issued.writes]
  /\ job' = [job EXCEPT !.at = @ + 1]
  /\ db' = IF job'.at <= job.len THEN "sending" ELSE "running"
  /\ UNCHANGED <<to_print, rest, answer, issued, monitor_to_db, db_to_monitor, disk_outbound,
                 db_stderr>>

SendBlock ==
  /\ db = "sending" /\ Writable(disk_inbound) /\ IsOpen(Reader("disk_inbound"))
  /\ disk_inbound' = Append(disk_inbound, Data(issued.writes))
  /\ written' = [written EXCEPT ![job.block + job.at] = issued.writes]
  /\ job' = [job EXCEPT !.at = @ + 1]
  /\ db' = IF job'.at < job.len THEN "sending" ELSE "running"
  /\ UNCHANGED <<to_print, rest, answer, issued, monitor_to_db, db_to_monitor, disk_outbound,
                 db_stderr>>

OutputBatch ==
  /\ db = "running" /\ rest # << >>
  /\ Tell(Head(rest), "running")
  /\ rest' = Tail(rest)

EndOutput ==
  /\ db = "running" /\ rest = << >>
  /\ Tell("!", "metrics") /\ UNCHANGED rest

PrintMetrics ==
  /\ db = "metrics"
  /\ PrintsTo("exited")
  /\ KeepsEngine
  /\ UNCHANGED <<to_print, job, monitor_to_db, db_to_monitor, disk_inbound, disk_outbound>>

Exits ==
  /\ DbUp /\ db' = "exited"
  /\ KeepsEngine /\ UNCHANGED <<to_print, job, pipeVars>>

\* The signal of kill arrives.
Killed == killed /\ Exits

\* The disk is gone under a command, and main prints the error.
LosesDisk ==
  /\ \/ db = "sending" /\ ~IsOpen(Reader("disk_inbound"))
     \/ db = "receiving" /\ disk_outbound = << >> /\ ~IsOpen(Writer("disk_outbound"))
  /\ PrintsTo("exited")
  /\ KeepsEngine
  /\ UNCHANGED <<to_print, job, monitor_to_db, db_to_monitor, disk_inbound, disk_outbound>>

\* An operator fails, or the memory limit ends the process.
Crashes == Runs /\ Exits /\ UNCHANGED <<killed, diskVars, monitorVars>>

Database ==
  /\ Runs /\ DbWired
  /\ \/ ReadQuery \/ PrintQuery \/ AskLimit \/ ReadLimit \/ ReceiveBlock
     \/ StartOutput \/ SendBlock \/ OutputBatch \/ EndOutput \/ PrintMetrics
     \/ Killed \/ LosesDisk
     \/ \E e \in Extents : Get(e[1], e[2]) \/ Put(e[1], e[2])
  /\ UNCHANGED <<killed, diskVars, monitorVars>>

-----------------------------------------------------------------------------
(* The disk process *)

\* simulate returns: its metrics are printed when it succeeds.
DiskReturns(outcome) == disk' = outcome /\ UNCHANGED <<disk_job, anon_pages, metrics>>

\* The next item of the command pipe is taken.
TakeItem == disk_inbound # << >> /\ disk_inbound' = Tail(disk_inbound)

\* write_all to the database, which fails once the database is gone.
Reply(item) ==
  /\ IsOpen(Reader("disk_outbound")) /\ Writable(disk_outbound)
  /\ disk_outbound' = Append(disk_outbound, item)

StartCommand ==
  /\ disk = "command" /\ TakeItem
  /\ Head(disk_inbound).op \in {"get", "put"}
  /\ disk' = Head(disk_inbound).op
  /\ disk_job' = Head(disk_inbound)
  /\ UNCHANGED <<anon_pages, metrics, disk_outbound>>

TellBlockSize ==
  /\ disk = "command" /\ TakeItem
  /\ Head(disk_inbound).op = "block-size"
  /\ Reply("block-size")
  /\ UNCHANGED diskVars

EndOfCommands ==
  /\ disk = "command" /\ disk_inbound = << >> /\ ~IsOpen(Writer("disk_inbound"))
  /\ DiskReturns("done") /\ UNCHANGED <<disk_inbound, disk_outbound>>

\* The command is counted with its last block.
NextBlock(count) ==
  /\ disk_job' = [disk_job EXCEPT !.at = @ + 1]
  /\ IF disk_job'.at = disk_job.len
     THEN disk' = "command" /\ metrics' = [metrics EXCEPT ![count] = @ + 1]
     ELSE UNCHANGED <<disk, metrics>>

\* Bug: every block of the command is written to its first one.
PutBlockFirst ==
  /\ disk = "put" /\ TakeItem
  /\ anon_pages' = [anon_pages EXCEPT ![disk_job.block] = Head(disk_inbound).stamp]
  /\ NextBlock("writes") /\ UNCHANGED disk_outbound

PutBlock ==
  /\ disk = "put" /\ TakeItem
  /\ anon_pages' = [anon_pages EXCEPT ![disk_job.block + disk_job.at] = Head(disk_inbound).stamp]
  /\ NextBlock("writes") /\ UNCHANGED disk_outbound

\* Bug: the end of file inside a put ends the process as between two commands.
PutCutShortQuietly ==
  /\ disk = "put" /\ disk_inbound = << >> /\ ~IsOpen(Writer("disk_inbound"))
  /\ DiskReturns("done") /\ UNCHANGED <<disk_inbound, disk_outbound>>

PutCutShort ==
  /\ disk = "put" /\ disk_inbound = << >> /\ ~IsOpen(Writer("disk_inbound"))
  /\ DiskReturns("failed") /\ UNCHANGED <<disk_inbound, disk_outbound>>

GetBlock ==
  /\ disk = "get" /\ anon_pages[disk_job.block + disk_job.at] # 0
  /\ Reply(anon_pages[disk_job.block + disk_job.at])
  /\ NextBlock("reads") /\ UNCHANGED <<anon_pages, disk_inbound>>

\* The block cannot be read (its data file, a page never put), or the database is gone.
GetFails ==
  /\ \/ disk = "get"
     \/ disk = "command" /\ ~IsOpen(Reader("disk_outbound")) /\ disk_inbound # << >> /\ Head(disk_inbound).op = "block-size"
  /\ DiskReturns("failed") /\ UNCHANGED <<disk_inbound, disk_outbound>>

Disk ==
  /\ Runs /\ DiskWired
  /\ \/ StartCommand \/ TellBlockSize \/ EndOfCommands
     \/ PutBlock \/ PutCutShort \/ GetBlock \/ GetFails
  /\ UNCHANGED <<monitorVars, dbVars, killed, monitor_to_db, db_to_monitor, db_stderr>>

-----------------------------------------------------------------------------

Init ==
  /\ SetupInit
  /\ monitor = "query" /\ sort_before_check \in BOOLEAN
  /\ db_output_rows = << >> /\ db_result = "none"
  /\ metrics_csv = NoReport /\ report = "none"
  /\ db = "start" /\ killed = FALSE /\ to_print \in 1..QueryLines /\ job = NoBlocks
  /\ answer \in Answers /\ rest = answer
  /\ written = [b \in 1..MaxBlock |-> 0] /\ issued = [reads |-> 0, writes |-> 0]
  /\ disk = "command" /\ disk_job = NoBlocks
  /\ anon_pages = [b \in 1..MaxBlock |-> 0] /\ metrics = [reads |-> 0, writes |-> 0]
  /\ monitor_to_db = << >> /\ db_to_monitor = << >>
  /\ disk_inbound = << >> /\ disk_outbound = << >> /\ db_stderr = 0

\* The run is reported.
Reported == report # "none" /\ UNCHANGED vars

Start == SetUp /\ UNCHANGED runVars

Next == Start \/ Monitor \/ Database \/ Disk \/ Crashes \/ Reported

\* The three processes are scheduled; nothing makes the database crash.
Spec == Init /\ [][Next]_vars /\ WF_vars(Start) /\ WF_vars(Monitor) /\ WF_vars(Database) /\ WF_vars(Disk)

-----------------------------------------------------------------------------
(* Properties *)

Job  == [op : {"none", "block-size", "get", "put"}, block : 0..MaxBlock, len : 0..MaxBlock + 1,
         at : 0..MaxBlock + 1]
Item == Job \cup [op : {"data"}, stamp : 1..MaxCommands]

\* The state is well typed, and neither side of a command passes its last block.
TypeOK ==
  /\ monitor \in {"query", "command", "limit", "validate", "wait_db", "wait_disk", "done"}
  /\ db_result \in {"none", "ok", "mismatch", "no_answer"}
  /\ report \in {"none", "success", "validation_failed", "no_disk_metrics"}
  /\ metrics_csv \in Counts \cup {NoReport}
  /\ db \in {"start", "printing", "ask_limit", "receiving", "validate", "running", "sending",
             "metrics", "exited"}
  /\ disk \in {"command", "get", "put", "done", "failed"}
  /\ {job, disk_job} \subseteq Job /\ job.at <= job.len /\ disk_job.at <= disk_job.len
  /\ {issued, metrics} \subseteq Counts
  /\ {written, anon_pages} \subseteq [1..MaxBlock -> 0..MaxCommands]
  /\ disk_inbound \in Seq(Item)
  /\ \A i \in 1..4 :
       Len(<<monitor_to_db, db_to_monitor, disk_inbound, disk_outbound>>[i]) <= PipeItems
  /\ db_stderr <= StderrItems

\* A put is not acknowledged, and still every block on its way to the database is
\* the one it put there last.
GetsSeePuts ==
  db = "receiving" /\ job.op = "get" =>
    \A i \in 1..Len(disk_outbound) : disk_outbound[i] = written[job.block + job.at + i - 1]

\* A run that is reported as a success answered what was expected, in the order
\* that was asked for.
SuccessIsRight ==
  report = "success" =>
    IF sort_before_check THEN BagOf(answer) = BagOf(Expected)
    ELSE answer = Expected

\* A row of the CSV counts every command the database sent, whether the database
\* finished, crashed or was killed.
MetricsComplete == metrics_csv # NoReport => metrics_csv = issued

AtPrint ==
  \/ db = "printing" /\ to_print > 0
  \/ db = "ask_limit" /\ monitor_to_db # << >>
  \/ db = "metrics"
  \/ db \in {"sending", "receiving"} /\ ~DiskUp

\* Every query is reported in the end, or the processes wait for each other for
\* ever, with the database at a full standard error: the monitor reads it only
\* after the exit (monitor/src/main.rs:429-434).  A query is always reported when
\* the pipe has room for its text and the two lines printed besides.
EventuallyReported ==
  /\ to_print + 2 <= StderrItems => <>(report # "none")
  /\ <>(report # "none") \/ <>[](AtPrint /\ db_stderr = StderrItems)

\* An answer that is refused is reported as a failed validation.
FailedValidationReported ==
  db_result = "mismatch" /\ report # "none" => report = "validation_failed"
=============================================================================
