------------------------------ MODULE FdMapper ------------------------------
(***************************************************************************)
(* remap_fds (monitor/src/fd_mapper.rs): in the forked child, open files   *)
(* are moved from the descriptors the monitor had them under to the ones   *)
(* the database expects.  A target may be the source of another mapping,   *)
(* so all are first parked above every number that is mentioned.  A table  *)
(* of descriptors gives each the file it stands for.                       *)
(***************************************************************************)
EXTENDS Naturals, Sequences

CONSTANT Files  \* what a descriptor may stand for

VARIABLES
  remap,       \* "idle", "base", "park", "place" or "done": the loop that runs
  mappings,    \* the argument
  index,       \* the mapping whose turn it is
  remap_base,  \* where the files are parked
  table,       \* the descriptors of the child
  before       \* history: the descriptors when the call began

remapVars == <<remap, mappings, index, remap_base, table, before>>

FdMapping == [source : Nat, target : Nat, close_on_exec : BOOLEAN]

Entry == [file : Files, close_on_exec : BOOLEAN]

IsTable(t) == DOMAIN t \subseteq Nat /\ t \in [DOMAIN t -> Entry]

Sources == {mappings[k].source : k \in 1..Len(mappings)}
Targets == {mappings[k].target : k \in 1..Len(mappings)}

\* The files have descriptors of their own, and get different ones.
Mappable(maps, t) ==
  /\ maps \in Seq(FdMapping)
  /\ \A j, k \in 1..Len(maps) : j # k =>
       maps[j].source # maps[k].source /\ maps[j].target # maps[k].target
  /\ \A k \in 1..Len(maps) : maps[k].source \in DOMAIN t

\* What the calls return is not looked at: they do nothing for a number that is
\* not open.  The new descriptor stays open when a program is executed.
Dup2(t, from, to) ==
  IF from \in DOMAIN t
    THEN [fd \in DOMAIN t \cup {to} |->
            IF fd = to THEN [file |-> t[from].file, close_on_exec |-> FALSE] ELSE t[fd]]
    ELSE t

Close(t, fd) == [other \in DOMAIN t \ {fd} |-> t[other]]

SetFlag(t, fd, flag) ==
  [other \in DOMAIN t |->
     IF other = fd THEN [file |-> t[fd].file, close_on_exec |-> flag] ELSE t[other]]

-----------------------------------------------------------------------------

Idle ==
  /\ remap = "idle" /\ mappings = << >> /\ index = 1 /\ remap_base = 1
  /\ table = << >> /\ before = << >>

StartRemap(maps, t) ==
  /\ remap = "idle"
  /\ remap' = "base" /\ mappings' = maps /\ table' = t /\ before' = t
  /\ UNCHANGED <<index, remap_base>>

\* Bug: only the targets are looked at.
BaseAboveTargets(mapping) ==
  IF remap_base <= mapping.target THEN mapping.target + 1 ELSE remap_base

\* One more than the numbers seen so far.
BaseAbove(mapping) ==
  LET larger == IF mapping.source >= mapping.target THEN mapping.source ELSE mapping.target
  IN IF remap_base <= larger THEN larger + 1 ELSE remap_base

Parked(k) == remap_base + k - 1

\* A turn of a loop for the mapping whose turn it is, or the step to the next one.
Turn(loop) == remap = loop /\ index <= Len(mappings) /\ index' = index + 1 /\ UNCHANGED remap

After(loop, next) == remap = loop /\ index > Len(mappings) /\ index' = 1 /\ remap' = next

RaiseBase ==
  /\ \/ Turn("base") /\ remap_base' = BaseAbove(mappings[index])
     \/ After("base", "park") /\ UNCHANGED remap_base
  /\ UNCHANGED <<mappings, table, before>>

Park ==
  /\ \/ /\ Turn("park")
        /\ LET source == mappings[index].source
           IN table' = Close(Dup2(table, source, Parked(index)), source)
     \/ After("park", "place") /\ UNCHANGED table
  /\ UNCHANGED <<mappings, remap_base, before>>

Place ==
  /\ \/ /\ Turn("place")
        /\ LET mapping == mappings[index]
               moved   == Close(Dup2(table, Parked(index), mapping.target), Parked(index))
           IN table' = SetFlag(moved, mapping.target, mapping.close_on_exec)
     \/ After("place", "done") /\ UNCHANGED table
  /\ UNCHANGED <<mappings, remap_base, before>>

RemapStep == RaiseBase \/ Park \/ Place

RemapNext ==
  \/ \E D \in SUBSET Nat : \E t \in [D -> Entry] : \E maps \in Seq(FdMapping) :
       Mappable(maps, t) /\ StartRemap(maps, t)
  \/ RemapStep

RemapSpec == Idle /\ [][RemapNext]_remapVars

-----------------------------------------------------------------------------

\* When the call returns, each target stands for the file its source stood for,
\* with the flag that was asked for, although targets may be sources that still
\* had to be moved (fd_mapper.rs:28-49); the sources are closed, and below the
\* parking space every other descriptor stands for what it did.
EachInPlace ==
  remap = "done" =>
    /\ \A k \in 1..Len(mappings) :
         /\ mappings[k].target \in DOMAIN table
         /\ table[mappings[k].target] = [file |-> before[mappings[k].source].file,
                                         close_on_exec |-> mappings[k].close_on_exec]
    /\ \A fd \in Sources \ Targets : fd \notin DOMAIN table
    /\ \A fd \in 0..(remap_base - 1) \ (Sources \cup Targets) :
         /\ fd \in DOMAIN table <=> fd \in DOMAIN before
         /\ fd \in DOMAIN table => table[fd] = before[fd]
=============================================================================
