---------------------------- MODULE ProcessSetup ----------------------------
(***************************************************************************)
(* setup_disk_process and setup_db_process (monitor/src/main.rs): the      *)
(* monitor opens the pipes, starts the two other processes with their      *)
(* ends, and lets go of its copies.  pipe() and Command are of the         *)
(* standard library: new descriptors are the lowest free ones and are      *)
(* closed when a program is executed.                                      *)
(***************************************************************************)
EXTENDS FdMapper, FiniteSets

CONSTANT Inherited  \* what the monitor may have been started with besides 0, 1 and 2

ASSUME InheritedAssumption == \A others \in Inherited : others \subseteq Nat /\ IsFiniteSet(others)

VARIABLES
  setup,        \* what the monitor does next
  monitor_fds,  \* the descriptors of the three processes
  disk_fds,
  db_fds        \* before it is executed, they are FdMapper's table

setupVars == <<setup, monitor_fds, disk_fds, db_fds, remapVars>>

Pipes == {"disk_outbound", "disk_inbound", "disk_stderr", "monitor_to_db", "db_to_monitor",
          "db_stderr"}

Reader(pipe) == [pipe |-> pipe, end |-> "reader"]
Writer(pipe) == [pipe |-> pipe, end |-> "writer"]

Ends  == [pipe : Pipes, end : {"reader", "writer"}]
Other == [pipe |-> "none", end |-> "none"]

ASSUME FilesAssumption == Ends \cup {Other} \subseteq Files

LowestFree(fds) ==
  CHOOSE fd \in 0..Cardinality(fds) : fd \notin fds /\ \A lower \in 0..(fd - 1) : lower \in fds

\* A table with more, or other, entries.
Extended(t, entries) ==
  [fd \in DOMAIN t \cup DOMAIN entries |-> IF fd \in DOMAIN entries THEN entries[fd] ELSE t[fd]]

OpenPipe(t, pipe) ==
  LET reader == LowestFree(DOMAIN t)
      writer == LowestFree(DOMAIN t \cup {reader})
  IN Extended(t, [fd \in {reader, writer} |->
                    [file |-> IF fd = reader THEN Reader(pipe) ELSE Writer(pipe),
                     close_on_exec |-> TRUE]])

FdOf(t, file) == CHOOSE fd \in DOMAIN t : t[fd].file = file

CloseFiles(t, files) == [fd \in {fd \in DOMAIN t : t[fd].file \notin files} |-> t[fd]]

\* The descriptors a program starts with.
Executed(t) == [fd \in {fd \in DOMAIN t : ~t[fd].close_on_exec} |-> t[fd]]

\* The standard streams of a child, under 0, 1 and 2.
WithStreams(t, files) ==
  Extended(t, [fd \in DOMAIN files |-> [file |-> files[fd], close_on_exec |-> FALSE]])

-----------------------------------------------------------------------------

\* The file of the metrics is open besides what the monitor was started with.
SetupInit ==
  /\ setup = "disk_outbound"
  /\ \E others \in Inherited :
       LET fds == {0, 1, 2} \cup others
       IN monitor_fds = [fd \in fds \cup {LowestFree(fds)} |->
                           [file |-> Other, close_on_exec |-> fd \notin fds]]
  /\ disk_fds = << >> /\ db_fds = << >>
  /\ Idle

\* The pipe of standard error is opened by spawn, after the two others.
AfterPipe ==
  [disk_outbound |-> "disk_inbound", disk_inbound |-> "disk_stderr", disk_stderr |-> "spawn_disk",
   monitor_to_db |-> "db_to_monitor", db_to_monitor |-> "db_stderr", db_stderr |-> "spawn_db"]

OpenNextPipe ==
  /\ setup \in Pipes
  /\ monitor_fds' = OpenPipe(monitor_fds, setup)
  /\ setup' = AfterPipe[setup]
  /\ UNCHANGED <<disk_fds, db_fds, remapVars>>

DiskStreams == [fd \in 0..2 |-> CASE fd = 0 -> Reader("disk_inbound")
                                  [] fd = 1 -> Writer("disk_outbound")
                                  [] fd = 2 -> Writer("disk_stderr")]

\* The ends given to Command are gone from the monitor with it.
SpawnDisk ==
  /\ setup = "spawn_disk" /\ setup' = "monitor_to_db"
  /\ disk_fds' = Executed(WithStreams(monitor_fds, DiskStreams))
  /\ monitor_fds' = CloseFiles(monitor_fds, {DiskStreams[fd] : fd \in 0..2})
  /\ UNCHANGED <<db_fds, remapVars>>

\* The ends the closure of pre_exec owns, in the order of its mappings, and the
\* descriptors of io_setup.rs.
DbEnds == <<Reader("disk_outbound"), Writer("disk_inbound"), Reader("monitor_to_db"),
            Writer("db_to_monitor")>>
DbFds  == <<3, 4, 5, 6>>

SpawnDb ==
  /\ setup = "spawn_db" /\ setup' = "pre_exec"
  /\ StartRemap([k \in 1..4 |-> [source |-> FdOf(monitor_fds, DbEnds[k]), target |-> DbFds[k],
                                 close_on_exec |-> FALSE]],
                WithStreams(monitor_fds, [fd \in {2} |-> Writer("db_stderr")]))
  /\ UNCHANGED <<monitor_fds, disk_fds, db_fds>>

PreExec ==
  /\ setup = "pre_exec" /\ RemapStep
  /\ UNCHANGED <<setup, monitor_fds, disk_fds, db_fds>>

\* The closure is dropped with the Command that owns it.
Released(t) ==
  CloseFiles(t, {Writer("db_stderr")} \cup {DbEnds[k] : k \in DOMAIN DbEnds})

\* The program of the database is executed.
ExecDb ==
  /\ setup = "pre_exec" /\ remap = "done" /\ setup' = "run"
  /\ db_fds' = Executed(table)
  /\ monitor_fds' = Released(monitor_fds)
  /\ UNCHANGED <<disk_fds, remapVars>>

SetUp == OpenNextPipe \/ SpawnDisk \/ SpawnDb \/ PreExec \/ ExecDb
=============================================================================
