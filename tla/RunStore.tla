------------------------------ MODULE RunStore ------------------------------
(***************************************************************************)
(* What temporary runs promise the operators that spill to them, with no   *)
(* pages in it: a run is a sequence of rows that a writer extends until it *)
(* finishes, and a cursor delivers the rows of a finished run in order,    *)
(* each once, whatever is written, read or deleted around it.              *)
(***************************************************************************)
EXTENDS Naturals, Sequences

CONSTANTS
  RunIds,   \* the ids a run may be given
  Readers,  \* the cursors
  Rows,     \* the rows
  NoRow     \* what a cursor last delivered when it delivered nothing

VARIABLES
  runs,    \* id -> the rows of the run and whether its writer is open
  cursors  \* the open cursors: the run, the rows to come and the last one delivered

runVars == <<runs, cursors>>

RunStoreInit == runs = << >> /\ cursors = << >>

Create(f) ==
  /\ f \notin DOMAIN runs
  /\ runs' = [g \in DOMAIN runs \cup {f} |->
                IF g = f THEN [rows |-> << >>, open |-> TRUE] ELSE runs[g]]
  /\ UNCHANGED cursors

AppendRow(f, row) ==
  /\ f \in DOMAIN runs /\ runs[f].open
  /\ runs' = [runs EXCEPT ![f].rows = Append(@, row)]
  /\ UNCHANGED cursors

Finish(f) ==
  /\ f \in DOMAIN runs /\ runs[f].open
  /\ runs' = [runs EXCEPT ![f].open = FALSE]
  /\ UNCHANGED cursors

Delete(f) ==
  /\ f \in DOMAIN runs
  /\ \A r \in DOMAIN cursors : cursors[r].run # f
  /\ runs' = [g \in DOMAIN runs \ {f} |-> runs[g]]
  /\ UNCHANGED cursors

Open(r, f) ==
  /\ r \notin DOMAIN cursors
  /\ f \in DOMAIN runs /\ ~runs[f].open
  /\ cursors' = [q \in DOMAIN cursors \cup {r} |->
                   IF q = r THEN [run |-> f, rest |-> runs[f].rows, row |-> NoRow]
                            ELSE cursors[q]]
  /\ UNCHANGED runs

NextRow(r) ==
  /\ r \in DOMAIN cursors
  /\ LET rest == cursors[r].rest IN
     cursors' =
       IF rest = << >> THEN [cursors EXCEPT ![r].row = NoRow]
       ELSE [cursors EXCEPT ![r].row = Head(rest), ![r].rest = Tail(rest)]
  /\ UNCHANGED runs

Close(r) ==
  /\ r \in DOMAIN cursors
  /\ cursors' = [q \in DOMAIN cursors \ {r} |-> cursors[q]]
  /\ UNCHANGED runs

RunStoreNext ==
  \/ \E f \in RunIds : Create(f) \/ Finish(f) \/ Delete(f)
  \/ \E f \in RunIds, row \in Rows : AppendRow(f, row)
  \/ \E r \in Readers, f \in RunIds : Open(r, f)
  \/ \E r \in Readers : NextRow(r) \/ Close(r)

RunStoreSpec == RunStoreInit /\ [][RunStoreNext]_runVars
=============================================================================
