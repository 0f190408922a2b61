-------------------------- MODULE QueryRun_proofs ---------------------------
(***************************************************************************)
(* Proofs about a query run.  remap_fds moves every file to its place,     *)
(* whatever the numbers of sources and targets and whatever else is open;  *)
(* so the set-up leaves each process its ends of the pipes and no copy of  *)
(* another's, whatever the monitor was started with.                       *)
(* Then the traffic between the database and the disk, for pipes of any    *)
(* size and any number of blocks and commands: a block that is read is the *)
(* one that was put last although puts are not acknowledged, and the       *)
(* counts that are reported are those of all commands, whichever process   *)
(* ends when.  Last, the search of JoinOrder, which plans the joins before *)
(* the run reads a block, for every number of leaves, every join graph and *)
(* whatever the estimates prefer.                                          *)
(***************************************************************************)
EXTENDS JoinOrder, QueryRun, SequenceLemmas

-----------------------------------------------------------------------------
(* Descriptors: the inductive invariant of remap_fds *)

Source(k) == mappings[k].source
Target(k) == mappings[k].target

Holds(fd, k) == fd \in DOMAIN table /\ table[fd].file = before[Source(k)].file

Settled(k) ==
  /\ Target(k) \in DOMAIN table
  /\ table[Target(k)] = [file |-> before[Source(k)].file,
                         close_on_exec |-> mappings[k].close_on_exec]

KeptAt(fd) ==
  /\ fd \in DOMAIN table <=> fd \in DOMAIN before
  /\ fd \in DOMAIN table => table[fd] = before[fd]

BelowBase(k) == Source(k) < remap_base /\ Target(k) < remap_base

ArgumentOK ==
  /\ mappings \in Seq(FdMapping) /\ remap_base \in Nat /\ index \in Nat \ {0}
  /\ IsTable(table) /\ IsTable(before)
  /\ remap \in {"idle", "base", "park", "place", "done"}
  /\ \A j, k \in 1..Len(mappings) : j # k => Source(j) # Source(k) /\ Target(j) # Target(k)
  /\ \A k \in 1..Len(mappings) : Source(k) \in DOMAIN before

\* Nothing moves before the base is above all numbers.
BaseInv ==
  /\ remap = "idle" => index = 1 /\ mappings = << >>
  /\ remap = "base" => /\ table = before
                       /\ \A k \in 1..Len(mappings) : k < index => BelowBase(k)
  /\ remap \in {"park", "place", "done"} => \A k \in 1..Len(mappings) : BelowBase(k)

\* The first files are parked, their sources closed, the others where they were.
ParkInv ==
  remap = "park" =>
    /\ \A k \in 1..Len(mappings) : k < index => Holds(Parked(k), k) /\ Source(k) \notin DOMAIN table
    /\ \A k \in 1..Len(mappings) : k >= index => Holds(Source(k), k)
    /\ \A fd \in 0..(remap_base - 1) \ Sources : KeptAt(fd)

\* The first files are in place, the others still parked.
PlaceInv ==
  remap \in {"place", "done"} =>
    /\ \A k \in 1..Len(mappings) : k < index \/ remap = "done" => Settled(k)
    /\ \A k \in 1..Len(mappings) : k >= index /\ remap = "place" => Holds(Parked(k), k)
    /\ \A fd \in Sources \ Targets : fd \notin DOMAIN table
    /\ \A fd \in 0..(remap_base - 1) \ (Sources \cup Targets) : KeptAt(fd)

RemapInv == ArgumentOK /\ BaseInv /\ ParkInv /\ PlaceInv

-----------------------------------------------------------------------------
(* Tables *)

LEMMA MappingTypes ==
  ASSUME ArgumentOK, NEW k \in 1..Len(mappings)
  PROVE  /\ Source(k) \in Nat /\ Target(k) \in Nat /\ mappings[k].close_on_exec \in BOOLEAN
         /\ Source(k) \in Sources /\ Target(k) \in Targets /\ Len(mappings) \in Nat
<1>1. mappings[k] \in FdMapping /\ Len(mappings) \in Nat
  BY DEF ArgumentOK
<1> QED BY <1>1 DEF FdMapping, Source, Target, Sources, Targets

LEMMA Dup2Table ==
  ASSUME NEW t, IsTable(t), NEW from \in DOMAIN t, NEW to \in Nat
  PROVE  /\ IsTable(Dup2(t, from, to))
         /\ DOMAIN Dup2(t, from, to) = DOMAIN t \cup {to}
         /\ Dup2(t, from, to)[to] = [file |-> t[from].file, close_on_exec |-> FALSE]
         /\ \A fd \in DOMAIN t \ {to} : Dup2(t, from, to)[fd] = t[fd]
<1>1. t[from] \in Entry
  BY DEF IsTable
<1>2. [file |-> t[from].file, close_on_exec |-> FALSE] \in Entry
  BY <1>1 DEF Entry
<1> QED BY <1>2 DEF IsTable, Dup2

LEMMA CloseTable ==
  ASSUME NEW t, IsTable(t), NEW fd
  PROVE  /\ IsTable(Close(t, fd))
         /\ DOMAIN Close(t, fd) = DOMAIN t \ {fd}
         /\ \A other \in DOMAIN t \ {fd} : Close(t, fd)[other] = t[other]
  BY DEF IsTable, Close

LEMMA SetFlagTable ==
  ASSUME NEW t, IsTable(t), NEW fd \in DOMAIN t, NEW flag \in BOOLEAN
  PROVE  /\ IsTable(SetFlag(t, fd, flag))
         /\ DOMAIN SetFlag(t, fd, flag) = DOMAIN t
         /\ SetFlag(t, fd, flag)[fd] = [file |-> t[fd].file, close_on_exec |-> flag]
         /\ \A other \in DOMAIN t \ {fd} : SetFlag(t, fd, flag)[other] = t[other]
<1>1. t[fd] \in Entry
  BY DEF IsTable
<1>2. [file |-> t[fd].file, close_on_exec |-> flag] \in Entry
  BY <1>1 DEF Entry
<1> QED BY <1>2 DEF IsTable, SetFlag

-----------------------------------------------------------------------------
(* The start and the first loop *)

LEMMA IdleInv == Idle => RemapInv
<1> SUFFICES ASSUME Idle PROVE RemapInv
  OBVIOUS
<1>1. mappings = << >> /\ Len(mappings) = 0 /\ mappings \in Seq(FdMapping)
  BY DEF Idle
<1>2. IsTable(<< >>)
  BY DEF IsTable
<1> QED BY <1>1, <1>2 DEF Idle, RemapInv, ArgumentOK, BaseInv, ParkInv, PlaceInv

LEMMA StartRemapInv ==
  ASSUME RemapInv, NEW maps \in Seq(FdMapping), NEW t, IsTable(t), Mappable(maps, t),
         StartRemap(maps, t)
  PROVE  RemapInv'
<1>1. /\ remap' = "base" /\ mappings' = maps /\ table' = t /\ before' = t
      /\ index' = 1 /\ remap_base' = remap_base
  BY DEF StartRemap, RemapInv, BaseInv
<1>2. ArgumentOK'
  BY <1>1 DEF RemapInv, ArgumentOK, Mappable, Source, Target
<1>3. BaseInv' /\ ParkInv' /\ PlaceInv'
  BY <1>1 DEF BaseInv, ParkInv, PlaceInv
<1> QED BY <1>2, <1>3 DEF RemapInv

LEMMA RaiseBaseInv == RemapInv /\ RaiseBase => RemapInv'
<1> SUFFICES ASSUME RemapInv, RaiseBase PROVE RemapInv'
  OBVIOUS
<1>1. UNCHANGED <<mappings, table, before>> /\ remap = "base" /\ table = before
  BY DEF RaiseBase, Turn, After, RemapInv, BaseInv
<1>2. CASE Turn("base") /\ remap_base' = BaseAbove(mappings[index])
  <2>1. index \in 1..Len(mappings) /\ index' = index + 1 /\ remap' = remap
    BY <1>2 DEF Turn, RemapInv, ArgumentOK
  <2>2. Source(index) \in Nat /\ Target(index) \in Nat
    BY <2>1, MappingTypes DEF RemapInv
  <2>3. /\ remap_base' \in Nat /\ remap_base <= remap_base'
        /\ Source(index) < remap_base' /\ Target(index) < remap_base'
    <3>1. remap_base \in Nat
      BY DEF RemapInv, ArgumentOK
    <3> QED BY <1>2, <2>2, <3>1 DEF BaseAbove, Source, Target
  <2>4. ArgumentOK'
    BY <1>1, <2>1, <2>3 DEF RemapInv, ArgumentOK, Source, Target
  <2>5. ASSUME NEW k \in 1..Len(mappings), k < index + 1
        PROVE  BelowBase(k)'
    <3>1. Source(k) \in Nat /\ Target(k) \in Nat
      BY MappingTypes DEF RemapInv
    <3>2. CASE k = index
      BY <3>2, <2>3, <1>1 DEF BelowBase, Source, Target
    <3>3. CASE k < index
      <4>1. BelowBase(k)
        BY <3>3, <1>1 DEF RemapInv, BaseInv
      <4> QED BY <4>1, <3>1, <2>3, <1>1 DEF BelowBase, Source, Target, RemapInv, ArgumentOK
    <3> QED BY <3>2, <3>3, <2>1, <2>5
  <2> QED BY <1>1, <2>1, <2>4, <2>5 DEF RemapInv, BaseInv, ParkInv, PlaceInv
<1>3. CASE After("base", "park") /\ UNCHANGED remap_base
  <2>1. index > Len(mappings) /\ index' = 1 /\ remap' = "park" /\ remap_base' = remap_base
    BY <1>3 DEF After
  <2>2. ArgumentOK'
    BY <1>1, <2>1 DEF RemapInv, ArgumentOK, Source, Target
  <2>3. \A k \in 1..Len(mappings) : BelowBase(k)
    BY <1>1, <2>1 DEF RemapInv, ArgumentOK, BaseInv
  <2>4. BaseInv'
    BY <1>1, <2>1, <2>3 DEF BaseInv, BelowBase, Source, Target
  <2>5. ParkInv'
    BY <1>1, <2>1 DEF RemapInv, ArgumentOK, ParkInv, Holds, KeptAt, Source, Sources
  <2> QED BY <2>1, <2>2, <2>4, <2>5 DEF RemapInv, PlaceInv
<1> QED BY <1>2, <1>3 DEF RaiseBase

-----------------------------------------------------------------------------
(* Parking *)

\* The parking place of a mapping is above all numbers, and no other's.
LEMMA ParkedApart ==
  ASSUME ArgumentOK, NEW k \in 1..Len(mappings)
  PROVE  /\ Parked(k) \in Nat /\ Parked(k) >= remap_base
         /\ \A j \in 1..Len(mappings) : j # k => Parked(j) # Parked(k)
  BY DEF ArgumentOK, Parked

LEMMA ParkOneInv ==
  ASSUME RemapInv, Turn("park"),
         table' = Close(Dup2(table, Source(index), Parked(index)), Source(index)),
         UNCHANGED <<mappings, remap_base, before>>
  PROVE  RemapInv'
<1>1. /\ index \in 1..Len(mappings) /\ index' = index + 1 /\ remap = "park" /\ remap' = "park"
      /\ ArgumentOK /\ Holds(Source(index), index)
  BY DEF Turn, RemapInv, ArgumentOK, ParkInv
<1>2. /\ Source(index) \in Nat /\ Source(index) \in Sources /\ Source(index) < remap_base
      /\ \A k \in 1..Len(mappings) : BelowBase(k) /\ Source(k) \in Nat /\ Source(k) \in Sources
  BY <1>1, MappingTypes DEF RemapInv, BaseInv, BelowBase
<1> DEFINE source == Source(index)
           parked == Parked(index)
           dup    == Dup2(table, source, parked)
<1>3. /\ IsTable(table) /\ source \in DOMAIN table /\ parked \in Nat /\ parked >= remap_base
      /\ table[source].file = before[source].file /\ remap_base \in Nat
  BY <1>1, ParkedApart DEF ArgumentOK, Holds
<1>4. /\ IsTable(dup) /\ DOMAIN dup = DOMAIN table \cup {parked}
      /\ dup[parked].file = table[source].file
      /\ \A fd \in DOMAIN table \ {parked} : dup[fd] = table[fd]
  <2>1. /\ IsTable(dup) /\ DOMAIN dup = DOMAIN table \cup {parked}
        /\ dup[parked] = [file |-> table[source].file, close_on_exec |-> FALSE]
        /\ \A fd \in DOMAIN table \ {parked} : dup[fd] = table[fd]
    <3> HIDE DEF source, parked
    <3> QED BY <1>3, Dup2Table
  <2> QED BY <2>1
<1>5. /\ IsTable(table') /\ DOMAIN table' = DOMAIN dup \ {source}
      /\ \A fd \in DOMAIN dup \ {source} : table'[fd] = dup[fd]
  <2>1. table' = Close(dup, source)
    OBVIOUS
  <2>2. PICK d : d = dup
    OBVIOUS
  <2>3. IsTable(d) /\ table' = Close(d, source)
    BY <1>4, <2>1, <2>2
  <2> HIDE DEF dup, source
  <2>4. /\ IsTable(Close(d, source)) /\ DOMAIN Close(d, source) = DOMAIN d \ {source}
        /\ \A fd \in DOMAIN d \ {source} : Close(d, source)[fd] = d[fd]
    BY <2>3, CloseTable
  <2> QED BY <2>2, <2>3, <2>4
<1>6. source # parked
  BY <1>2, <1>3
<1>7. /\ IsTable(table') /\ DOMAIN table' = (DOMAIN table \cup {parked}) \ {source}
      /\ parked \in DOMAIN table' /\ table'[parked].file = before[source].file
      /\ \A fd \in DOMAIN table \ {parked, source} : fd \in DOMAIN table' /\ table'[fd] = table[fd]
  BY <1>3, <1>4, <1>5, <1>6
<1> HIDE DEF source, parked, dup
<1>8. ArgumentOK'
  BY <1>1, <1>7 DEF ArgumentOK, Source, Target
<1>9. \A k \in 1..Len(mappings) : BelowBase(k)'
  BY <1>2 DEF BelowBase, Source, Target
<1>10. ASSUME NEW k \in 1..Len(mappings), k < index + 1
       PROVE  Holds(Parked(k), k)' /\ Source(k)' \notin DOMAIN table'
  <2>1. CASE k = index
    BY <2>1, <1>6, <1>7 DEF Holds, Parked, Source, source, parked
  <2>2. CASE k # index
    <3>1. k < index
      BY <1>1, <1>10, <2>2
    <3>2. Holds(Parked(k), k) /\ Source(k) \notin DOMAIN table
      BY <1>1, <3>1 DEF RemapInv, ParkInv
    <3>3. Parked(k) # parked /\ Parked(k) # source /\ Source(k) # parked
      BY <1>1, <1>2, <1>3, <2>2, ParkedApart DEF parked, source, BelowBase
    <3> QED BY <3>2, <3>3, <1>7 DEF Holds, Parked, Source
  <2> QED BY <2>1, <2>2
<1>11. ASSUME NEW k \in 1..Len(mappings), k >= index + 1
       PROVE  Holds(Source(k), k)'
  <2>1. k >= index /\ k # index
    BY <1>1, <1>11
  <2>2. Holds(Source(k), k)
    BY <1>1, <2>1 DEF RemapInv, ParkInv
  <2>3. Source(k) # source /\ Source(k) # parked
    BY <1>1, <1>2, <1>3, <2>1 DEF ArgumentOK, source, BelowBase
  <2> QED BY <2>2, <2>3, <1>7 DEF Holds, Source
<1>12. ASSUME NEW fd \in 0..(remap_base - 1) \ Sources
       PROVE  KeptAt(fd)'
  <2>1. KeptAt(fd)
    BY <1>1 DEF RemapInv, ParkInv
  <2>2. fd # source /\ fd # parked
    BY <1>2, <1>3 DEF source
  <2> QED BY <2>1, <2>2, <1>7 DEF KeptAt
<1>13. ParkInv'
  BY <1>1, <1>10, <1>11, <1>12 DEF ParkInv, Sources, Source
<1>14. BaseInv' /\ PlaceInv'
  BY <1>1, <1>9 DEF BaseInv, PlaceInv
<1> QED BY <1>8, <1>13, <1>14 DEF RemapInv

LEMMA ParkInvKept == RemapInv /\ Park => RemapInv'
<1> SUFFICES ASSUME RemapInv, Park PROVE RemapInv'
  OBVIOUS
<1>1. CASE After("park", "place") /\ UNCHANGED table
  <2>1. /\ remap = "park" /\ index > Len(mappings) /\ index' = 1 /\ remap' = "place"
        /\ UNCHANGED <<mappings, remap_base, before, table>>
    BY <1>1 DEF After, Park
  <2>2. /\ \A k \in 1..Len(mappings) : Holds(Parked(k), k) /\ Source(k) \notin DOMAIN table
        /\ \A k \in 1..Len(mappings) : BelowBase(k)
        /\ \A fd \in 0..(remap_base - 1) \ Sources : KeptAt(fd)
    BY <2>1 DEF RemapInv, ParkInv, BaseInv, ArgumentOK
  <2>3. ArgumentOK'
    BY <2>1 DEF RemapInv, ArgumentOK, Source, Target
  <2>4. BaseInv' /\ ParkInv'
    BY <2>1, <2>2 DEF BaseInv, ParkInv, BelowBase, Source, Target
  <2>5. \A fd \in Sources : fd \notin DOMAIN table
    BY <2>2 DEF Sources, Source
  <2>6. PlaceInv'
    BY <2>1, <2>2, <2>5 DEF PlaceInv, Holds, Parked, KeptAt, Sources, Targets, Source
  <2> QED BY <2>3, <2>4, <2>6 DEF RemapInv
<1>2. CASE Turn("park") /\ table' = Close(Dup2(table, Source(index), Parked(index)), Source(index))
  BY <1>2, ParkOneInv DEF Park
<1> QED BY <1>1, <1>2 DEF Park, Source

-----------------------------------------------------------------------------
(* Placing *)

LEMMA PlaceOneInv ==
  ASSUME RemapInv, Turn("place"),
         table' = SetFlag(Close(Dup2(table, Parked(index), Target(index)), Parked(index)),
                          Target(index), mappings[index].close_on_exec),
         UNCHANGED <<mappings, remap_base, before>>
  PROVE  RemapInv'
<1>1. /\ index \in 1..Len(mappings) /\ index' = index + 1 /\ remap = "place" /\ remap' = "place"
      /\ ArgumentOK /\ Holds(Parked(index), index)
  BY DEF Turn, RemapInv, ArgumentOK, PlaceInv
<1>2. /\ Target(index) \in Nat /\ Target(index) \in Targets /\ Target(index) < remap_base
      /\ mappings[index].close_on_exec \in BOOLEAN
      /\ \A k \in 1..Len(mappings) : BelowBase(k) /\ Target(k) \in Nat /\ Target(k) \in Targets
  BY <1>1, MappingTypes DEF RemapInv, BaseInv, BelowBase
<1> DEFINE target == Target(index)
           parked == Parked(index)
           flag   == mappings[index].close_on_exec
           dup    == Dup2(table, parked, target)
           closed == Close(dup, parked)
<1>3. /\ IsTable(table) /\ parked \in DOMAIN table /\ parked \in Nat /\ parked >= remap_base
      /\ table[parked].file = before[Source(index)].file /\ remap_base \in Nat
  BY <1>1, ParkedApart DEF ArgumentOK, Holds
<1>4. /\ IsTable(dup) /\ DOMAIN dup = DOMAIN table \cup {target}
      /\ dup[target] = [file |-> table[parked].file, close_on_exec |-> FALSE]
      /\ \A fd \in DOMAIN table \ {target} : dup[fd] = table[fd]
  <2> HIDE DEF target, parked
  <2>1. target \in Nat
    BY <1>2 DEF target
  <2> QED BY <1>3, <2>1, Dup2Table
<1>5. /\ IsTable(closed) /\ DOMAIN closed = DOMAIN dup \ {parked}
      /\ \A fd \in DOMAIN dup \ {parked} : closed[fd] = dup[fd]
  BY <1>4, CloseTable
<1>6. target # parked
  BY <1>2, <1>3
<1>7. /\ IsTable(table') /\ DOMAIN table' = DOMAIN closed
      /\ table'[target] = [file |-> closed[target].file, close_on_exec |-> flag]
      /\ \A fd \in DOMAIN closed \ {target} : table'[fd] = closed[fd]
  <2>1. target \in DOMAIN closed /\ flag \in BOOLEAN
    BY <1>2, <1>4, <1>5, <1>6
  <2>2. table' = SetFlag(closed, target, flag)
    OBVIOUS
  <2> HIDE DEF closed, target, flag
  <2> QED BY <1>5, <2>1, <2>2, SetFlagTable
<1>8. /\ IsTable(table') /\ DOMAIN table' = (DOMAIN table \cup {target}) \ {parked}
      /\ target \in DOMAIN table'
      /\ table'[target] = [file |-> before[Source(index)].file, close_on_exec |-> flag]
      /\ \A fd \in DOMAIN table \ {parked, target} : fd \in DOMAIN table' /\ table'[fd] = table[fd]
  <2>1. closed[target].file = before[Source(index)].file
    BY <1>3, <1>4, <1>5, <1>6
  <2> HIDE DEF closed, dup, target, parked, flag
  <2> QED BY <1>3, <1>4, <1>5, <1>6, <1>7, <2>1
<1> HIDE DEF target, parked, dup, closed, flag
<1>9. ArgumentOK'
  BY <1>1, <1>8 DEF ArgumentOK, Source, Target
<1>10. \A k \in 1..Len(mappings) : BelowBase(k)'
  BY <1>2 DEF BelowBase, Source, Target
<1>11. ASSUME NEW k \in 1..Len(mappings), k < index + 1
       PROVE  Settled(k)'
  <2>1. CASE k = index
    BY <2>1, <1>8 DEF Settled, Target, Source, target, flag
  <2>2. CASE k # index
    <3>1. Settled(k)
      BY <1>1, <1>11, <2>2 DEF RemapInv, PlaceInv
    <3>2. Target(k) # target /\ Target(k) # parked
      BY <1>1, <1>2, <1>3, <2>2 DEF ArgumentOK, target, BelowBase
    <3> QED BY <3>1, <3>2, <1>8 DEF Settled, Target, Source
  <2> QED BY <2>1, <2>2
<1>12. ASSUME NEW k \in 1..Len(mappings), k >= index + 1
       PROVE  Holds(Parked(k), k)'
  <2>1. k >= index /\ k # index
    BY <1>1, <1>12
  <2>2. Holds(Parked(k), k)
    BY <1>1, <2>1 DEF RemapInv, PlaceInv
  <2>3. Parked(k) # parked /\ Parked(k) # target
    BY <1>1, <1>2, <1>3, <2>1, ParkedApart DEF parked, target
  <2> QED BY <2>2, <2>3, <1>8 DEF Holds, Parked, Source
<1>13. \A fd \in Sources \ Targets : fd \notin DOMAIN table'
  BY <1>1, <1>2, <1>8 DEF RemapInv, PlaceInv, target
<1>14. ASSUME NEW fd \in 0..(remap_base - 1) \ (Sources \cup Targets)
       PROVE  KeptAt(fd)'
  <2>1. KeptAt(fd)
    BY <1>1 DEF RemapInv, PlaceInv
  <2>2. fd # target /\ fd # parked
    BY <1>2, <1>3 DEF target
  <2> QED BY <2>1, <2>2, <1>8 DEF KeptAt
<1>15. PlaceInv'
  BY <1>1, <1>11, <1>12, <1>13, <1>14 DEF PlaceInv, Sources, Targets
<1>16. BaseInv' /\ ParkInv'
  BY <1>1, <1>10 DEF BaseInv, ParkInv
<1> QED BY <1>9, <1>15, <1>16 DEF RemapInv

LEMMA PlaceInvKept == RemapInv /\ Place => RemapInv'
<1> SUFFICES ASSUME RemapInv, Place PROVE RemapInv'
  OBVIOUS
<1>1. CASE After("place", "done") /\ UNCHANGED table
  <2>1. /\ remap = "place" /\ index > Len(mappings) /\ index' = 1 /\ remap' = "done"
        /\ UNCHANGED <<mappings, remap_base, before, table>>
    BY <1>1 DEF After, Place
  <2>2. \A k \in 1..Len(mappings) : Settled(k) /\ BelowBase(k)
    BY <2>1 DEF RemapInv, PlaceInv, BaseInv, ArgumentOK
  <2>3. ArgumentOK'
    BY <2>1 DEF RemapInv, ArgumentOK, Source, Target
  <2>4. BaseInv' /\ ParkInv'
    BY <2>1, <2>2 DEF BaseInv, ParkInv, BelowBase, Source, Target
  <2>5. PlaceInv'
    BY <2>1, <2>2 DEF RemapInv, PlaceInv, Settled, KeptAt, Sources, Targets, Source, Target
  <2> QED BY <2>3, <2>4, <2>5 DEF RemapInv
<1>2. CASE /\ Turn("place")
           /\ table' = SetFlag(Close(Dup2(table, Parked(index), Target(index)), Parked(index)),
                               Target(index), mappings[index].close_on_exec)
  BY <1>2, PlaceOneInv DEF Place
<1> QED BY <1>1, <1>2 DEF Place, Target

-----------------------------------------------------------------------------
(* Theorems *)

LEMMA StutterInv == RemapInv /\ UNCHANGED remapVars => RemapInv'
<1> SUFFICES ASSUME RemapInv, UNCHANGED remapVars PROVE RemapInv'
  OBVIOUS
<1>1. UNCHANGED <<remap, mappings, index, remap_base, table, before>>
  BY DEF remapVars
<1>2. ArgumentOK' /\ BaseInv'
  BY <1>1 DEF RemapInv, ArgumentOK, BaseInv, BelowBase, Source, Target
<1>3. ParkInv'
  BY <1>1 DEF RemapInv, ParkInv, Holds, KeptAt, Parked, Source, Sources
<1>4. PlaceInv'
  BY <1>1 DEF RemapInv, PlaceInv, Holds, Settled, KeptAt, Parked, Source, Target, Sources, Targets
<1> QED BY <1>2, <1>3, <1>4 DEF RemapInv

\* What each loop of remap_fds has reached.
THEOREM RemapInvariant == RemapSpec => []RemapInv
<1>1. RemapInv /\ [RemapNext]_remapVars => RemapInv'
  <2> SUFFICES ASSUME RemapInv, [RemapNext]_remapVars PROVE RemapInv'
    OBVIOUS
  <2>1. ASSUME NEW D \in SUBSET Nat, NEW t \in [D -> Entry], NEW maps \in Seq(FdMapping),
               Mappable(maps, t), StartRemap(maps, t)
        PROVE  RemapInv'
    <3>1. IsTable(t)
      BY DEF IsTable
    <3> QED BY <2>1, <3>1, StartRemapInv
  <2> QED BY <2>1, RaiseBaseInv, ParkInvKept, PlaceInvKept, StutterInv DEF RemapNext, RemapStep
<1> QED BY <1>1, IdleInv, PTL DEF RemapSpec

LEMMA InvInPlace == RemapInv => EachInPlace
<1> SUFFICES ASSUME RemapInv, remap = "done" PROVE EachInPlace
  BY DEF EachInPlace
<1>1. /\ \A k \in 1..Len(mappings) : Settled(k)
      /\ \A fd \in Sources \ Targets : fd \notin DOMAIN table
      /\ \A fd \in 0..(remap_base - 1) \ (Sources \cup Targets) : KeptAt(fd)
  BY DEF RemapInv, PlaceInv
<1> QED BY <1>1 DEF EachInPlace, Settled, KeptAt, Source, Target

\* Every file is in its place when the call returns, and no other is touched
\* below the parking space (fd_mapper.rs:28-49).
THEOREM FilesInPlace == RemapSpec => []EachInPlace
  BY RemapInvariant, InvInPlace, PTL

-----------------------------------------------------------------------------
(* Set-up: the descriptors of the three processes *)

\* Besides descriptors that are no pipe, a table has these ends, each to be
\* closed when a program is executed, and none of them under 0, 1 or 2.
HoldsEnds(t, ends) ==
  /\ IsTable(t) /\ IsFiniteSet(DOMAIN t)
  /\ \A fd \in 0..2 : fd \in DOMAIN t /\ t[fd].file = Other
  /\ \A fd \in DOMAIN t : t[fd].file # Other => t[fd].file \in ends /\ t[fd].close_on_exec
  /\ \A file \in ends : Has(t, file)

LEMMA LowestFreeIsFree ==
  ASSUME NEW fds \in SUBSET Nat, IsFiniteSet(fds)
  PROVE  LowestFree(fds) \in Nat \ fds
<1> DEFINE free == {fd \in 0..Cardinality(fds) : fd \notin fds}
<1>1. Cardinality(fds) \in Nat
  BY FS_CardinalityType
<1>2. free # {}
  <2> SUFFICES ASSUME 0..Cardinality(fds) \subseteq fds PROVE FALSE
    OBVIOUS
  <2>1. Cardinality(0..Cardinality(fds)) <= Cardinality(fds)
    BY FS_Subset
  <2>2. Cardinality(0..Cardinality(fds)) = Cardinality(fds) + 1
    BY <1>1, FS_Interval
  <2> QED BY <1>1, <2>1, <2>2
<1>3. free \in SUBSET Nat
  BY <1>1
<1>4. PICK least \in free : \A fd \in free : least <= fd
  <2> HIDE DEF free
  <2> QED BY <1>2, <1>3, LeastNatural
<1>5. /\ least \in 0..Cardinality(fds) /\ least \notin fds
      /\ \A lower \in 0..(least - 1) : lower \in fds
  BY <1>1, <1>4
<1>6. LowestFree(fds) \in 0..Cardinality(fds) /\ LowestFree(fds) \notin fds
  BY <1>5 DEF LowestFree
<1> QED BY <1>1, <1>6

\* A table with more entries.
LEMMA ExtendedTable ==
  ASSUME NEW t, IsTable(t), IsFiniteSet(DOMAIN t),
         NEW D \in SUBSET Nat, IsFiniteSet(D), NEW entries \in [D -> Entry]
  PROVE  /\ IsTable(Extended(t, entries)) /\ IsFiniteSet(DOMAIN Extended(t, entries))
         /\ DOMAIN Extended(t, entries) = DOMAIN t \cup D
         /\ \A fd \in D : Extended(t, entries)[fd] = entries[fd]
         /\ \A fd \in DOMAIN t \ D : Extended(t, entries)[fd] = t[fd]
<1>1. IsFiniteSet(DOMAIN t \cup D)
  BY FS_Union
<1>2. DOMAIN Extended(t, entries) = DOMAIN t \cup D
  BY DEF Extended
<1>3. /\ \A fd \in D : Extended(t, entries)[fd] = entries[fd]
      /\ \A fd \in DOMAIN t \ D : Extended(t, entries)[fd] = t[fd]
  BY DEF Extended
<1>4. \A fd \in DOMAIN t \cup D : Extended(t, entries)[fd] \in Entry
  BY <1>3 DEF IsTable
<1>5. IsTable(Extended(t, entries))
  BY <1>2, <1>4 DEF IsTable, Extended
<1> QED BY <1>1, <1>2, <1>3, <1>5

LEMMA EndFacts ==
  /\ Ends \subseteq Files /\ Other \in Files /\ Other \notin Ends
  /\ \A pipe \in Pipes : Reader(pipe) \in Ends /\ Writer(pipe) \in Ends
  /\ \A file \in Files, flag \in BOOLEAN : [file |-> file, close_on_exec |-> flag] \in Entry
  BY FilesAssumption DEF Ends, Other, Pipes, Reader, Writer, Entry

\* A pipe that is opened adds its two ends.
LEMMA OpenPipeEnds ==
  ASSUME NEW t, NEW ends, HoldsEnds(t, ends), NEW pipe \in Pipes
  PROVE  HoldsEnds(OpenPipe(t, pipe), ends \cup {Reader(pipe), Writer(pipe)})
<1> DEFINE reader  == LowestFree(DOMAIN t)
           writer  == LowestFree(DOMAIN t \cup {reader})
           entries == [fd \in {reader, writer} |->
                         [file |-> IF fd = reader THEN Reader(pipe) ELSE Writer(pipe),
                          close_on_exec |-> TRUE]]
<1>1. IsTable(t) /\ IsFiniteSet(DOMAIN t) /\ DOMAIN t \in SUBSET Nat
  BY DEF HoldsEnds, IsTable
<1>2. reader \in Nat \ DOMAIN t
  BY <1>1, LowestFreeIsFree
<1>3. DOMAIN t \cup {reader} \in SUBSET Nat /\ IsFiniteSet(DOMAIN t \cup {reader})
  BY <1>1, <1>2, FS_AddElement
<1>4. writer \in Nat \ (DOMAIN t \cup {reader})
  <2> HIDE DEF reader
  <2> QED BY <1>3, LowestFreeIsFree
<1> HIDE DEF reader, writer
<1>5. /\ {reader, writer} \in SUBSET Nat /\ IsFiniteSet({reader, writer})
      /\ entries \in [{reader, writer} -> Entry]
      /\ entries[reader] = [file |-> Reader(pipe), close_on_exec |-> TRUE]
      /\ entries[writer] = [file |-> Writer(pipe), close_on_exec |-> TRUE]
  <2>1. IsFiniteSet({reader} \cup {writer})
    BY FS_Singleton, FS_AddElement
  <2>2. {reader} \cup {writer} = {reader, writer}
    OBVIOUS
  <2> QED BY <1>2, <1>4, <2>1, <2>2, EndFacts
<1>6. OpenPipe(t, pipe) = Extended(t, entries)
  BY DEF OpenPipe, reader, writer
<1> HIDE DEF entries
<1>7. /\ IsTable(OpenPipe(t, pipe)) /\ IsFiniteSet(DOMAIN OpenPipe(t, pipe))
      /\ DOMAIN OpenPipe(t, pipe) = DOMAIN t \cup {reader, writer}
      /\ \A fd \in {reader, writer} : OpenPipe(t, pipe)[fd] = entries[fd]
      /\ \A fd \in DOMAIN t : OpenPipe(t, pipe)[fd] = t[fd]
  BY <1>1, <1>2, <1>4, <1>5, <1>6, ExtendedTable
<1>8. \A fd \in 0..2 : fd \in DOMAIN OpenPipe(t, pipe) /\ OpenPipe(t, pipe)[fd].file = Other
  BY <1>7 DEF HoldsEnds
<1>9. \A fd \in DOMAIN OpenPipe(t, pipe) : OpenPipe(t, pipe)[fd].file # Other =>
         /\ OpenPipe(t, pipe)[fd].file \in ends \cup {Reader(pipe), Writer(pipe)}
         /\ OpenPipe(t, pipe)[fd].close_on_exec
  BY <1>5, <1>7 DEF HoldsEnds
<1>10. \A file \in ends \cup {Reader(pipe), Writer(pipe)} : Has(OpenPipe(t, pipe), file)
  BY <1>5, <1>7 DEF HoldsEnds, Has
<1> QED BY <1>7, <1>8, <1>9, <1>10 DEF HoldsEnds

\* Ends that are closed are gone, and nothing else is.
LEMMA CloseFilesEnds ==
  ASSUME NEW t, NEW ends, HoldsEnds(t, ends), NEW gone \in SUBSET Ends
  PROVE  HoldsEnds(CloseFiles(t, gone), ends \ gone)
<1> DEFINE kept == {fd \in DOMAIN t : t[fd].file \notin gone}
<1>1. IsTable(t) /\ IsFiniteSet(DOMAIN t) /\ DOMAIN t \in SUBSET Nat
  BY DEF HoldsEnds, IsTable
<1>2. /\ DOMAIN CloseFiles(t, gone) = kept
      /\ \A fd \in kept : CloseFiles(t, gone)[fd] = t[fd]
  BY DEF CloseFiles
<1>3. IsTable(CloseFiles(t, gone)) /\ IsFiniteSet(DOMAIN CloseFiles(t, gone))
  <2>1. kept \in SUBSET (DOMAIN t)
    OBVIOUS
  <2>2. IsFiniteSet(kept)
    BY <1>1, <2>1, FS_Subset
  <2> QED BY <1>1, <1>2, <2>2 DEF IsTable, CloseFiles
<1>4. Other \notin gone
  BY EndFacts
<1>5. \A file \in ends \ gone : Has(CloseFiles(t, gone), file)
  BY <1>2 DEF HoldsEnds, Has
<1>6. /\ \A fd \in 0..2 : fd \in kept /\ t[fd].file = Other
      /\ \A fd \in kept : t[fd].file # Other => t[fd].file \in ends \ gone /\ t[fd].close_on_exec
  BY <1>4 DEF HoldsEnds
<1> HIDE DEF kept
<1> QED BY <1>2, <1>3, <1>5, <1>6 DEF HoldsEnds

\* Every entry of the table is as it was before the call, parked, or a target.
NothingAdded ==
  \A fd \in DOMAIN table :
    \/ fd \in DOMAIN before /\ table[fd] = before[fd]
    \/ remap = "park" /\ \E k \in 1..Len(mappings) : k < index /\ fd = Parked(k)
    \/ remap = "place" /\ \E k \in 1..Len(mappings) : k >= index /\ fd = Parked(k)
    \/ remap \in {"place", "done"} /\ fd \in Targets

LEMMA ParkAddsNothing == RemapInv /\ NothingAdded /\ Park => NothingAdded'
<1> SUFFICES ASSUME RemapInv, NothingAdded, Park PROVE NothingAdded'
  OBVIOUS
<1>1. remap = "park" /\ UNCHANGED <<mappings, remap_base, before>> /\ index \in Nat /\ IsTable(table)
  BY DEF Park, Turn, After, RemapInv, ArgumentOK
<1>2. CASE After("park", "place") /\ UNCHANGED table
  <2>1. index > Len(mappings) /\ index' = 1 /\ remap' = "place"
    BY <1>2 DEF After
  <2> QED BY <1>1, <1>2, <2>1 DEF NothingAdded, Parked, Targets
<1>3. CASE Turn("park") /\ table' = Close(Dup2(table, Source(index), Parked(index)), Source(index))
  <2>1. index \in 1..Len(mappings) /\ index' = index + 1 /\ remap' = "park"
    BY <1>1, <1>3 DEF Turn, RemapInv, ArgumentOK
  <2>2. ASSUME NEW fd \in DOMAIN table', fd # Parked(index)
        PROVE  fd \in DOMAIN table /\ table'[fd] = table[fd]
    BY <1>3, <2>2 DEF Close, Dup2
  <2>3. ASSUME NEW fd \in DOMAIN table'
        PROVE  \/ fd \in DOMAIN before /\ table'[fd] = before[fd]
               \/ \E k \in 1..Len(mappings) : k < index + 1 /\ fd = Parked(k)
    <3>1. CASE fd = Parked(index)
      BY <1>1, <2>1, <3>1
    <3>2. CASE fd # Parked(index)
      BY <1>1, <2>1, <2>2, <3>2 DEF NothingAdded
    <3> QED BY <3>1, <3>2
  <2> QED BY <1>1, <2>1, <2>3 DEF NothingAdded, Parked
<1> QED BY <1>2, <1>3 DEF Park, Source

LEMMA PlaceAddsNothing == RemapInv /\ NothingAdded /\ Place => NothingAdded'
<1> SUFFICES ASSUME RemapInv, NothingAdded, Place PROVE NothingAdded'
  OBVIOUS
<1>1. /\ remap = "place" /\ UNCHANGED <<mappings, remap_base, before>> /\ index \in Nat
      /\ IsTable(table) /\ Targets' = Targets
  BY DEF Place, Turn, After, RemapInv, ArgumentOK, Targets
<1>2. CASE After("place", "done") /\ UNCHANGED table
  <2>1. index > Len(mappings) /\ remap' = "done"
    BY <1>2 DEF After
  <2> QED BY <1>1, <1>2, <2>1 DEF NothingAdded, Parked
<1>3. CASE Turn("place") /\ table' = SetFlag(Close(Dup2(table, Parked(index), Target(index)),
                                                   Parked(index)),
                                             Target(index), mappings[index].close_on_exec)
  <2>1. index \in 1..Len(mappings) /\ index' = index + 1 /\ remap' = "place"
        /\ Target(index) \in Targets
    BY <1>1, <1>3 DEF Turn, RemapInv, ArgumentOK, Target, Targets
  <2>2. ASSUME NEW fd \in DOMAIN table', fd # Target(index)
        PROVE  fd \in DOMAIN table /\ table'[fd] = table[fd] /\ fd # Parked(index)
    BY <1>3, <2>2 DEF Close, Dup2, SetFlag
  <2>3. ASSUME NEW fd \in DOMAIN table'
        PROVE  \/ fd \in DOMAIN before /\ table'[fd] = before[fd]
               \/ \E k \in 1..Len(mappings) : k >= index + 1 /\ fd = Parked(k)
               \/ fd \in Targets
    <3>1. CASE fd = Target(index)
      BY <2>1, <3>1
    <3>2. CASE fd # Target(index)
      BY <1>1, <2>1, <2>2, <3>2 DEF NothingAdded
    <3> QED BY <3>1, <3>2
  <2> QED BY <1>1, <2>1, <2>3 DEF NothingAdded, Parked
<1> QED BY <1>2, <1>3 DEF Place, Target

LEMMA RemapStepKept == RemapInv /\ NothingAdded /\ RemapStep => RemapInv' /\ NothingAdded'
<1>1. RemapInv /\ NothingAdded /\ RaiseBase => NothingAdded'
  BY DEF RemapInv, BaseInv, RaiseBase, Turn, After, NothingAdded
<1> QED BY <1>1, RaiseBaseInv, ParkInvKept, PlaceInvKept, ParkAddsNothing, PlaceAddsNothing
        DEF RemapStep

DiskEnds == {DiskStreams[fd] : fd \in 0..2}
DbSide   == {Writer("db_stderr")} \cup {DbEnds[k] : k \in DOMAIN DbEnds}

EndsOf(pipes) == [pipe : pipes, end : {"reader", "writer"}]

\* What is open when the monitor comes to a stage.
PipesBefore(stage) ==
  CASE stage = "disk_outbound" -> {}
    [] stage = "disk_inbound"  -> {"disk_outbound"}
    [] stage = "disk_stderr"   -> {"disk_outbound", "disk_inbound"}
    [] stage \in {"spawn_disk", "monitor_to_db"} -> {"disk_outbound", "disk_inbound", "disk_stderr"}
    [] stage = "db_to_monitor" -> {"disk_outbound", "disk_inbound", "disk_stderr", "monitor_to_db"}
    [] stage = "db_stderr"     -> Pipes \ {"db_stderr"}
    [] stage \in {"spawn_db", "pre_exec", "run"} -> Pipes

BeforeDisk == {"disk_outbound", "disk_inbound", "disk_stderr", "spawn_disk"}

Stages == Pipes \cup {"spawn_disk", "spawn_db", "pre_exec", "run"}

GivenBefore(stage) ==
  IF stage \in BeforeDisk THEN {} ELSE IF stage = "run" THEN DiskEnds \cup DbSide ELSE DiskEnds

MonitorEnds(stage) == EndsOf(PipesBefore(stage)) \ GivenBefore(stage)

\* A program started with these streams has no other end of a pipe.
DiskFdsRight ==
  /\ \A fd \in 0..2 : HasAt(disk_fds, fd, DiskStreams[fd])
  /\ \A fd \in DOMAIN disk_fds : disk_fds[fd].file \in DiskEnds \cup {Other}

DbFdsRight ==
  /\ DbWired /\ HasAt(db_fds, 2, Writer("db_stderr"))
  /\ \A fd \in DOMAIN db_fds : db_fds[fd].file \in DbSide \cup {Other}

\* The call for the database moves the four ends its closure owns, and only
\* standard error stays open besides.
Handed ==
  /\ Len(mappings) = 4
  /\ \A k \in 1..4 : /\ mappings[k].target = DbFds[k] /\ mappings[k].close_on_exec = FALSE
                     /\ before[Source(k)].file = DbEnds[k] /\ Source(k) # 2
  /\ 2 \in DOMAIN before
  /\ before[2] = [file |-> Writer("db_stderr"), close_on_exec |-> FALSE]
  /\ \A fd \in DOMAIN before : before[fd].file # Other /\ fd # 2 => before[fd].close_on_exec

SetupInv ==
  /\ RemapInv /\ NothingAdded
  /\ setup \in Stages
  /\ HoldsEnds(monitor_fds, MonitorEnds(setup))
  /\ setup \notin BeforeDisk => DiskFdsRight
  /\ setup = "pre_exec" => Handed
  /\ setup = "run" => DbFdsRight

LEMMA DbEndFacts ==
  /\ DOMAIN DbEnds = 1..4 /\ DOMAIN DbFds = 1..4
  /\ DbFds[1] = 3 /\ DbFds[2] = 4 /\ DbFds[3] = 5 /\ DbFds[4] = 6
  /\ DbEnds[1] = Reader("disk_outbound") /\ DbEnds[2] = Writer("disk_inbound")
  /\ DbEnds[3] = Reader("monitor_to_db") /\ DbEnds[4] = Writer("db_to_monitor")
  /\ DbSide = {Writer("db_stderr"), Reader("disk_outbound"), Writer("disk_inbound"),
               Reader("monitor_to_db"), Writer("db_to_monitor")}
<1>1. DOMAIN DbEnds = 1..4 /\ DOMAIN DbFds = 1..4
  BY DEF DbEnds, DbFds
<1>2. /\ DbFds[1] = 3 /\ DbFds[2] = 4 /\ DbFds[3] = 5 /\ DbFds[4] = 6
      /\ DbEnds[1] = Reader("disk_outbound") /\ DbEnds[2] = Writer("disk_inbound")
      /\ DbEnds[3] = Reader("monitor_to_db") /\ DbEnds[4] = Writer("db_to_monitor")
  BY DEF DbEnds, DbFds
<1>3. \A k \in 1..4 : k = 1 \/ k = 2 \/ k = 3 \/ k = 4
  OBVIOUS
<1>4. {DbEnds[k] : k \in 1..4} = {DbEnds[1], DbEnds[2], DbEnds[3], DbEnds[4]}
  BY <1>3
<1> QED BY <1>1, <1>2, <1>4 DEF DbSide

LEMMA DiskEndFacts ==
  /\ DiskStreams[0] = Reader("disk_inbound") /\ DiskStreams[1] = Writer("disk_outbound")
  /\ DiskStreams[2] = Writer("disk_stderr") /\ DOMAIN DiskStreams = 0..2
  /\ DiskEnds = {Reader("disk_inbound"), Writer("disk_outbound"), Writer("disk_stderr")}
<1>1. /\ DiskStreams[0] = Reader("disk_inbound") /\ DiskStreams[1] = Writer("disk_outbound")
      /\ DiskStreams[2] = Writer("disk_stderr") /\ DOMAIN DiskStreams = 0..2
  BY DEF DiskStreams
<1>2. \A fd \in 0..2 : fd = 0 \/ fd = 1 \/ fd = 2
  OBVIOUS
<1>3. {DiskStreams[fd] : fd \in 0..2} = {DiskStreams[0], DiskStreams[1], DiskStreams[2]}
  BY <1>2
<1> QED BY <1>1, <1>3 DEF DiskEnds

\* The two ends of one pipe, and of different ones, differ.
LEMMA EndsDiffer ==
  /\ \A p, q \in Pipes : /\ Reader(p) # Writer(q)
                         /\ (Reader(p) = Reader(q) \/ Writer(p) = Writer(q)) => p = q
  /\ \A pipes \in SUBSET Pipes : \A p \in Pipes :
       EndsOf(pipes \cup {p}) = EndsOf(pipes) \cup {Reader(p), Writer(p)}
  /\ \A pipes \in SUBSET Pipes : \A file :
       file \in EndsOf(pipes) <=> \E p \in pipes : file = Reader(p) \/ file = Writer(p)
  /\ EndsOf(Pipes) = Ends
<1>1. \A p, q \in Pipes : /\ Reader(p) # Writer(q)
                          /\ (Reader(p) = Reader(q) \/ Writer(p) = Writer(q)) => p = q
  BY DEF Reader, Writer
<1>2. \A pipes \in SUBSET Pipes : \A file :
       file \in EndsOf(pipes) <=> \E p \in pipes : file = Reader(p) \/ file = Writer(p)
  BY DEF EndsOf, Reader, Writer
<1>3. ASSUME NEW pipes \in SUBSET Pipes, NEW p \in Pipes
      PROVE  EndsOf(pipes \cup {p}) = EndsOf(pipes) \cup {Reader(p), Writer(p)}
  <2>1. pipes \cup {p} \in SUBSET Pipes
    OBVIOUS
  <2> QED BY <1>2, <2>1
<1>4. EndsOf(Pipes) = Ends
  BY DEF EndsOf, Ends
<1> QED BY <1>1, <1>2, <1>3, <1>4

\* The next stage after a pipe is opened, and the two ends more it starts with.
LEMMA NextStage ==
  ASSUME NEW stage \in Pipes
  PROVE  /\ AfterPipe[stage] \in Stages \ {"pre_exec", "run"}
         /\ AfterPipe[stage] \notin BeforeDisk => stage \notin BeforeDisk
         /\ MonitorEnds(AfterPipe[stage]) = MonitorEnds(stage) \cup {Reader(stage), Writer(stage)}
<1>1. /\ PipesBefore(AfterPipe[stage]) = PipesBefore(stage) \cup {stage}
      /\ PipesBefore(stage) \in SUBSET Pipes
  BY DEF PipesBefore, AfterPipe, Pipes
<1>2. /\ AfterPipe[stage] \in Stages \ {"pre_exec", "run"}
      /\ AfterPipe[stage] \notin BeforeDisk => stage \notin BeforeDisk
      /\ GivenBefore(AfterPipe[stage]) = GivenBefore(stage)
      /\ stage \in BeforeDisk => GivenBefore(stage) = {}
      /\ stage \notin BeforeDisk => /\ GivenBefore(stage) = DiskEnds
                                    /\ stage \notin {"disk_outbound", "disk_inbound", "disk_stderr"}
  BY DEF AfterPipe, Pipes, Stages, BeforeDisk, GivenBefore
<1>3. Reader(stage) \notin GivenBefore(stage) /\ Writer(stage) \notin GivenBefore(stage)
  BY <1>2, DiskEndFacts DEF Reader, Writer
<1>4. EndsOf(PipesBefore(stage) \cup {stage}) = EndsOf(PipesBefore(stage)) \cup {Reader(stage), Writer(stage)}
  BY <1>1, EndsDiffer
<1>5. MonitorEnds(AfterPipe[stage]) = MonitorEnds(stage) \cup {Reader(stage), Writer(stage)}
  BY <1>1, <1>2, <1>3, <1>4 DEF MonitorEnds
<1> QED BY <1>2, <1>5

LEMMA SetupBegins == SetupInit => SetupInv
<1> SUFFICES ASSUME SetupInit PROVE SetupInv
  OBVIOUS
<1>1. PICK others \in Inherited :
        LET fds == {0, 1, 2} \cup others
        IN monitor_fds = [fd \in fds \cup {LowestFree(fds)} |->
                            [file |-> Other, close_on_exec |-> fd \notin fds]]
  BY DEF SetupInit
<1> DEFINE fds == {0, 1, 2} \cup others
<1>2. fds \in SUBSET Nat /\ IsFiniteSet(fds)
  <2>1. others \in SUBSET Nat /\ IsFiniteSet(others)
    BY InheritedAssumption
  <2>2. IsFiniteSet(({0} \cup {1}) \cup {2})
    BY FS_Singleton, FS_AddElement
  <2>3. IsFiniteSet({0, 1, 2})
    <3>1. {0, 1, 2} = ({0} \cup {1}) \cup {2}
      OBVIOUS
    <3> QED BY <2>2, <3>1
  <2>4. IsFiniteSet({0, 1, 2} \cup others)
    BY <2>1, <2>3, FS_Union
  <2> QED BY <2>1, <2>4
<1>3. LowestFree(fds) \in Nat
  <2> HIDE DEF fds
  <2> QED BY <1>2, LowestFreeIsFree
<1>4. /\ DOMAIN monitor_fds = fds \cup {LowestFree(fds)}
      /\ \A fd \in DOMAIN monitor_fds : monitor_fds[fd] = [file |-> Other, close_on_exec |-> fd \notin fds]
      /\ \A fd \in DOMAIN monitor_fds : monitor_fds[fd].file = Other
      /\ monitor_fds = [fd \in DOMAIN monitor_fds |-> monitor_fds[fd]]
  BY <1>1
<1>5. {0, 1, 2} \subseteq fds
  OBVIOUS
<1> HIDE DEF fds
<1>6. IsTable(monitor_fds) /\ IsFiniteSet(DOMAIN monitor_fds)
  <2>1. IsFiniteSet(DOMAIN monitor_fds)
    BY <1>2, <1>4, FS_AddElement
  <2>2. ASSUME NEW fd \in DOMAIN monitor_fds PROVE monitor_fds[fd] \in Entry
    <3>1. (fd \notin fds) \in BOOLEAN
      OBVIOUS
    <3> QED BY <1>4, <3>1, EndFacts
  <2> QED BY <1>2, <1>3, <1>4, <2>1, <2>2 DEF IsTable
<1>7. MonitorEnds("disk_outbound") = {}
  BY EndsDiffer DEF MonitorEnds, PipesBefore, GivenBefore, BeforeDisk
<1>8. HoldsEnds(monitor_fds, {})
  <2>1. \A fd \in DOMAIN monitor_fds : monitor_fds[fd].file = Other
    BY <1>4
  <2>2. \A fd \in 0..2 : fd \in DOMAIN monitor_fds
    BY <1>4, <1>5
  <2> QED BY <1>6, <2>1, <2>2 DEF HoldsEnds
<1>9. setup = "disk_outbound" /\ Idle
  BY DEF SetupInit
<1>10. RemapInv /\ NothingAdded
  BY <1>9, IdleInv DEF NothingAdded, Idle
<1> QED BY <1>7, <1>8, <1>9, <1>10 DEF SetupInv, Stages, Pipes, BeforeDisk

LEMMA OpenNextPipeKept == SetupInv /\ OpenNextPipe => SetupInv'
<1> SUFFICES ASSUME SetupInv, OpenNextPipe PROVE SetupInv'
  OBVIOUS
<1>1. /\ setup \in Pipes /\ setup' = AfterPipe[setup] /\ monitor_fds' = OpenPipe(monitor_fds, setup)
      /\ UNCHANGED <<disk_fds, db_fds, remapVars>>
  BY DEF OpenNextPipe
<1>2. RemapInv' /\ NothingAdded'
  BY <1>1, StutterInv DEF SetupInv, NothingAdded, remapVars, Parked, Targets
<1>3. /\ setup' \in Stages \ {"pre_exec", "run"}
      /\ setup' \notin BeforeDisk => setup \notin BeforeDisk
      /\ MonitorEnds(setup') = MonitorEnds(setup) \cup {Reader(setup), Writer(setup)}
  BY <1>1, NextStage
<1>4. HoldsEnds(monitor_fds', MonitorEnds(setup'))
  BY <1>1, <1>3, OpenPipeEnds DEF SetupInv
<1>5. HoldsEnds(monitor_fds, MonitorEnds(setup))'
  BY <1>4 DEF HoldsEnds, MonitorEnds, Has
<1>6. setup' \notin BeforeDisk => DiskFdsRight'
  BY <1>1, <1>3 DEF SetupInv, DiskFdsRight, HasAt
<1> QED BY <1>2, <1>3, <1>5, <1>6 DEF SetupInv

\* The standard streams replace what was under their numbers.
LEMMA WithStreamsEnds ==
  ASSUME NEW t, NEW ends, HoldsEnds(t, ends), NEW D \in SUBSET (0..2), NEW files \in [D -> Ends]
  PROVE  /\ IsTable(WithStreams(t, files)) /\ DOMAIN WithStreams(t, files) = DOMAIN t
         /\ \A fd \in D : WithStreams(t, files)[fd] = [file |-> files[fd], close_on_exec |-> FALSE]
         /\ \A fd \in DOMAIN t \ D : WithStreams(t, files)[fd] = t[fd]
<1> DEFINE entries == [fd \in D |-> [file |-> files[fd], close_on_exec |-> FALSE]]
<1>1. IsTable(t) /\ IsFiniteSet(DOMAIN t) /\ D \subseteq DOMAIN t /\ D \in SUBSET Nat
  BY DEF HoldsEnds, IsTable
<1>2. IsFiniteSet(D)
  BY <1>1, FS_Subset
<1>3. entries \in [D -> Entry]
  <2>1. \A fd \in D : files[fd] \in Files /\ FALSE \in BOOLEAN
    BY EndFacts
  <2> QED BY <2>1, EndFacts
<1>4. WithStreams(t, files) = Extended(t, entries)
  BY DEF WithStreams
<1>5. \A fd \in D : entries[fd] = [file |-> files[fd], close_on_exec |-> FALSE]
  OBVIOUS
<1> HIDE DEF entries
<1>6. /\ IsTable(Extended(t, entries)) /\ DOMAIN Extended(t, entries) = DOMAIN t \cup D
      /\ \A fd \in D : Extended(t, entries)[fd] = entries[fd]
      /\ \A fd \in DOMAIN t \ D : Extended(t, entries)[fd] = t[fd]
  BY <1>1, <1>2, <1>3, ExtendedTable
<1>7. DOMAIN t \cup D = DOMAIN t
  BY <1>1
<1> QED BY <1>4, <1>5, <1>6, <1>7

LEMMA ExecutedEntries ==
  ASSUME NEW t
  PROVE  /\ \A fd : fd \in DOMAIN Executed(t) <=> fd \in DOMAIN t /\ ~t[fd].close_on_exec
         /\ \A fd \in DOMAIN Executed(t) : Executed(t)[fd] = t[fd]
  BY DEF Executed

LEMMA GivenAreEnds == DiskEnds \in SUBSET Ends /\ DbSide \in SUBSET Ends
  BY DiskEndFacts, DbEndFacts, EndFacts DEF Pipes

LEMMA SpawnDiskKept == SetupInv /\ SpawnDisk => SetupInv'
<1> SUFFICES ASSUME SetupInv, SpawnDisk PROVE SetupInv'
  OBVIOUS
<1> DEFINE streams == WithStreams(monitor_fds, DiskStreams)
<1>1. /\ setup = "spawn_disk" /\ setup' = "monitor_to_db"
      /\ disk_fds' = Executed(streams) /\ monitor_fds' = CloseFiles(monitor_fds, DiskEnds)
      /\ UNCHANGED <<db_fds, remapVars>>
  BY DEF SpawnDisk, DiskEnds
<1>2. RemapInv' /\ NothingAdded'
  BY <1>1, StutterInv DEF SetupInv, NothingAdded, remapVars, Parked, Targets
<1>3. MonitorEnds("monitor_to_db") = MonitorEnds("spawn_disk") \ DiskEnds
  BY DEF MonitorEnds, PipesBefore, GivenBefore, BeforeDisk
<1>4. HoldsEnds(monitor_fds, MonitorEnds("spawn_disk"))
  BY <1>1 DEF SetupInv
<1>5. HoldsEnds(CloseFiles(monitor_fds, DiskEnds), MonitorEnds("monitor_to_db"))
  BY <1>3, <1>4, CloseFilesEnds, GivenAreEnds
<1>6. HoldsEnds(monitor_fds, MonitorEnds(setup))'
  BY <1>1, <1>5 DEF HoldsEnds, MonitorEnds, Has
<1>7. DiskStreams \in [0..2 -> Ends]
  <2>1. \A fd \in 0..2 : DiskStreams[fd] \in Ends
    BY GivenAreEnds DEF DiskEnds
  <2>2. DiskStreams = [fd \in 0..2 |-> DiskStreams[fd]]
    BY DEF DiskStreams
  <2> QED BY <2>1, <2>2
<1>8. /\ DOMAIN streams = DOMAIN monitor_fds
      /\ \A fd \in 0..2 : streams[fd] = [file |-> DiskStreams[fd], close_on_exec |-> FALSE]
      /\ \A fd \in DOMAIN monitor_fds \ 0..2 : streams[fd] = monitor_fds[fd]
  BY <1>4, <1>7, WithStreamsEnds
<1>9. /\ \A fd : fd \in DOMAIN disk_fds' <=> fd \in DOMAIN streams /\ ~streams[fd].close_on_exec
      /\ \A fd \in DOMAIN disk_fds' : disk_fds'[fd] = streams[fd]
  BY <1>1, ExecutedEntries
<1> HIDE DEF streams
<1>10. ASSUME NEW fd \in 0..2
       PROVE  fd \in DOMAIN disk_fds' /\ disk_fds'[fd].file = DiskStreams[fd]
  <2>1. fd \in DOMAIN streams /\ streams[fd] = [file |-> DiskStreams[fd], close_on_exec |-> FALSE]
    BY <1>4, <1>8 DEF HoldsEnds
  <2>2. ~streams[fd].close_on_exec /\ streams[fd].file = DiskStreams[fd]
    BY <2>1
  <2> QED BY <1>9, <2>1, <2>2
<1>11. ASSUME NEW fd \in DOMAIN disk_fds'
       PROVE  disk_fds'[fd].file \in DiskEnds \cup {Other}
  <2>1. CASE fd \in 0..2
    BY <2>1, <1>10 DEF DiskEnds
  <2>2. CASE fd \notin 0..2
    <3>1. /\ fd \in DOMAIN monitor_fds /\ disk_fds'[fd] = monitor_fds[fd]
          /\ ~monitor_fds[fd].close_on_exec
      BY <1>8, <1>9, <2>2
    <3> QED BY <3>1, <1>4 DEF HoldsEnds
  <2> QED BY <2>1, <2>2
<1>12. DiskFdsRight'
  <2>1. \A fd \in 0..2 : HasAt(disk_fds, fd, DiskStreams[fd])'
    BY <1>10 DEF HasAt, DiskStreams
  <2>2. DiskEnds' = DiskEnds
    BY DEF DiskEnds, DiskStreams
  <2> QED BY <1>11, <2>1, <2>2 DEF DiskFdsRight
<1> QED BY <1>1, <1>2, <1>6, <1>12 DEF SetupInv, Stages, Pipes

\* The monitor has the four ends the database gets, and no two under one number.
LEMMA DbEndsOpen ==
  ASSUME HoldsEnds(monitor_fds, MonitorEnds("spawn_db")), NEW k \in 1..4
  PROVE  /\ FdOf(monitor_fds, DbEnds[k]) \in DOMAIN monitor_fds
         /\ monitor_fds[FdOf(monitor_fds, DbEnds[k])].file = DbEnds[k]
         /\ FdOf(monitor_fds, DbEnds[k]) \notin 0..2
<1>1. DbEnds[k] \in Ends /\ DbEnds[k] \notin DiskEnds
  <2>1. DbEnds[k] \in DbSide
    BY DbEndFacts DEF DbSide
  <2>2. DbSide \cap DiskEnds = {}
    BY DbEndFacts, DiskEndFacts DEF Reader, Writer
  <2> QED BY <2>1, <2>2, GivenAreEnds
<1>2. DbEnds[k] \in MonitorEnds("spawn_db")
  BY <1>1, EndsDiffer DEF MonitorEnds, PipesBefore, GivenBefore, BeforeDisk
<1>3. \E fd \in DOMAIN monitor_fds : monitor_fds[fd].file = DbEnds[k]
  BY <1>2 DEF HoldsEnds, Has
<1>4. /\ FdOf(monitor_fds, DbEnds[k]) \in DOMAIN monitor_fds
      /\ monitor_fds[FdOf(monitor_fds, DbEnds[k])].file = DbEnds[k]
  BY <1>3 DEF FdOf
<1>5. DbEnds[k] # Other
  BY <1>1, EndFacts
<1> QED BY <1>4, <1>5 DEF HoldsEnds

LEMMA SpawnDbKept == SetupInv /\ SpawnDb => SetupInv'
<1> SUFFICES ASSUME SetupInv, SpawnDb PROVE SetupInv'
  OBVIOUS
<1> DEFINE Src(k) == FdOf(monitor_fds, DbEnds[k])
           maps   == [k \in 1..4 |-> [source |-> Src(k), target |-> DbFds[k],
                                      close_on_exec |-> FALSE]]
           files  == [fd \in {2} |-> Writer("db_stderr")]
           t      == WithStreams(monitor_fds, files)
<1>1. /\ setup = "spawn_db" /\ setup' = "pre_exec" /\ StartRemap(maps, t)
      /\ UNCHANGED <<monitor_fds, disk_fds, db_fds>>
  BY DEF SpawnDb
<1>2. HoldsEnds(monitor_fds, MonitorEnds("spawn_db"))
  BY <1>1 DEF SetupInv
<1>3. /\ IsTable(t) /\ DOMAIN t = DOMAIN monitor_fds
      /\ t[2] = [file |-> Writer("db_stderr"), close_on_exec |-> FALSE]
      /\ \A fd \in DOMAIN monitor_fds : fd # 2 => t[fd] = monitor_fds[fd]
  <2>1. {2} \in SUBSET (0..2) /\ files \in [{2} -> Ends] /\ files[2] = Writer("db_stderr")
    BY EndFacts DEF Pipes
  <2> HIDE DEF files
  <2>2. /\ IsTable(t) /\ DOMAIN t = DOMAIN monitor_fds
        /\ \A fd \in {2} : t[fd] = [file |-> files[fd], close_on_exec |-> FALSE]
        /\ \A fd \in DOMAIN monitor_fds \ {2} : t[fd] = monitor_fds[fd]
    BY <1>2, <2>1, WithStreamsEnds
  <2> QED BY <2>1, <2>2
<1>4. ASSUME NEW k \in 1..4
      PROVE  /\ Src(k) \in DOMAIN t /\ Src(k) \in Nat /\ Src(k) # 2 /\ t[Src(k)].file = DbEnds[k]
  <2>1. /\ Src(k) \in DOMAIN monitor_fds /\ monitor_fds[Src(k)].file = DbEnds[k]
        /\ Src(k) \notin 0..2
    BY <1>2, DbEndsOpen
  <2> HIDE DEF t, Src
  <2> QED BY <1>3, <2>1 DEF IsTable
<1> HIDE DEF t, files, Src
<1>5. \A j, k \in 1..4 : j # k => DbEnds[j] # DbEnds[k] /\ DbFds[j] # DbFds[k]
  BY DbEndFacts DEF Reader, Writer
<1>6. maps \in Seq(FdMapping) /\ Len(maps) = 4
  <2>1. \A k \in 1..4 : DbFds[k] \in Nat
    BY DbEndFacts
  <2>2. \A k \in 1..4 : maps[k] \in FdMapping
    BY <1>4, <2>1 DEF FdMapping
  <2> QED BY <2>2
<1>7. \A k \in 1..4 : /\ maps[k].source = Src(k) /\ maps[k].target = DbFds[k]
                      /\ maps[k].close_on_exec = FALSE
  OBVIOUS
<1> HIDE DEF maps
<1>8. Mappable(maps, t)
  BY <1>4, <1>5, <1>6, <1>7 DEF Mappable
<1>9. RemapInv'
  BY <1>1, <1>3, <1>6, <1>8, StartRemapInv DEF SetupInv
<1>10. mappings' = maps /\ table' = t /\ before' = t
  BY <1>1 DEF StartRemap
<1>11. NothingAdded'
  BY <1>10 DEF NothingAdded
<1>12. Handed'
  <2>1. ASSUME NEW k \in 1..4
        PROVE  /\ maps[k].target = DbFds[k] /\ maps[k].close_on_exec = FALSE
               /\ t[maps[k].source].file = DbEnds[k] /\ maps[k].source # 2
    BY <1>4, <1>7
  <2>2. 2 \in DOMAIN t
    BY <1>2, <1>3 DEF HoldsEnds
  <2>3. \A fd \in DOMAIN t : t[fd].file # Other /\ fd # 2 => t[fd].close_on_exec
    BY <1>2, <1>3 DEF HoldsEnds
  <2> QED BY <1>3, <1>6, <1>10, <2>1, <2>2, <2>3 DEF Handed, Source, DbFds, DbEnds
<1>13. MonitorEnds("pre_exec") = MonitorEnds("spawn_db")
  BY DEF MonitorEnds, PipesBefore, GivenBefore, BeforeDisk
<1>14. HoldsEnds(monitor_fds, MonitorEnds(setup))'
  BY <1>1, <1>2, <1>13 DEF HoldsEnds, MonitorEnds, Has
<1>15. DiskFdsRight'
  BY <1>1 DEF SetupInv, BeforeDisk, DiskFdsRight, HasAt
<1> QED BY <1>1, <1>9, <1>11, <1>12, <1>14, <1>15 DEF SetupInv, Stages

LEMMA PreExecKept == SetupInv /\ PreExec => SetupInv'
<1> SUFFICES ASSUME SetupInv, PreExec PROVE SetupInv'
  OBVIOUS
<1>1. /\ setup = "pre_exec" /\ RemapStep /\ UNCHANGED <<setup, monitor_fds, disk_fds, db_fds>>
  BY DEF PreExec
<1>2. RemapInv' /\ NothingAdded'
  BY <1>1, RemapStepKept DEF SetupInv
<1>3. UNCHANGED <<mappings, before>>
  BY <1>1 DEF RemapStep, RaiseBase, Park, Place
<1>4. Handed'
  BY <1>1, <1>3 DEF SetupInv, Handed, Source
<1>5. HoldsEnds(monitor_fds, MonitorEnds(setup))' /\ DiskFdsRight'
  BY <1>1 DEF SetupInv, BeforeDisk, HoldsEnds, MonitorEnds, Has, DiskFdsRight, HasAt
<1> QED BY <1>1, <1>2, <1>4, <1>5 DEF SetupInv

LEMMA ExecDbKept == SetupInv /\ ExecDb => SetupInv'
<1> SUFFICES ASSUME SetupInv, ExecDb PROVE SetupInv'
  OBVIOUS
<1>1. /\ setup = "pre_exec" /\ remap = "done" /\ setup' = "run"
      /\ db_fds' = Executed(table) /\ monitor_fds' = CloseFiles(monitor_fds, DbSide)
      /\ UNCHANGED <<disk_fds, remapVars>>
  BY DEF ExecDb, Released, DbSide
<1>2. RemapInv' /\ NothingAdded'
  BY <1>1, StutterInv DEF SetupInv, NothingAdded, remapVars, Parked, Targets
<1>3. MonitorEnds("run") = MonitorEnds("pre_exec") \ DbSide
  BY DEF MonitorEnds, PipesBefore, GivenBefore, BeforeDisk
<1>4. HoldsEnds(CloseFiles(monitor_fds, DbSide), MonitorEnds("run"))
  BY <1>1, <1>3, CloseFilesEnds, GivenAreEnds DEF SetupInv
<1>5. HoldsEnds(monitor_fds, MonitorEnds(setup))'
  BY <1>1, <1>4 DEF HoldsEnds, MonitorEnds, Has
<1>6. DiskFdsRight'
  BY <1>1 DEF SetupInv, BeforeDisk, DiskFdsRight, HasAt
<1>7. /\ \A fd : fd \in DOMAIN db_fds' <=> fd \in DOMAIN table /\ ~table[fd].close_on_exec
      /\ \A fd \in DOMAIN db_fds' : db_fds'[fd] = table[fd]
  BY <1>1, ExecutedEntries
<1>8. /\ Handed /\ RemapInv /\ NothingAdded /\ ArgumentOK
      /\ \A k \in 1..4 : Settled(k) /\ BelowBase(k)
      /\ \A fd \in 0..(remap_base - 1) \ (Sources \cup Targets) : KeptAt(fd)
  BY <1>1 DEF SetupInv, RemapInv, PlaceInv, BaseInv, Handed
<1>9. ASSUME NEW k \in 1..4
      PROVE  /\ Target(k) = DbFds[k]
             /\ DbFds[k] \in DOMAIN table
             /\ table[DbFds[k]] = [file |-> DbEnds[k], close_on_exec |-> FALSE]
  <2>1. /\ Target(k) = DbFds[k] /\ before[Source(k)].file = DbEnds[k]
        /\ mappings[k].close_on_exec = FALSE
    BY <1>8 DEF Handed, Target
  <2>2. /\ Target(k) \in DOMAIN table
        /\ table[Target(k)] = [file |-> before[Source(k)].file,
                               close_on_exec |-> mappings[k].close_on_exec]
    BY <1>8 DEF Settled
  <2> QED BY <2>1, <2>2
<1>10. ASSUME NEW k \in 1..4
       PROVE  HasAt(db_fds', DbFds[k], DbEnds[k])
  <2>1. ~table[DbFds[k]].close_on_exec /\ table[DbFds[k]].file = DbEnds[k]
    BY <1>9
  <2> QED BY <1>7, <1>9, <2>1 DEF HasAt
<1>11. HasAt(db_fds', 2, Writer("db_stderr"))
  <2>1. 2 \notin Sources /\ 2 \notin Targets
    <3>1. \A k \in 1..4 : Source(k) # 2 /\ Target(k) # 2
      <4>1. \A k \in 1..4 : DbFds[k] # 2
        BY DbEndFacts
      <4> QED BY <1>8, <1>9, <4>1 DEF Handed
    <3> QED BY <1>8, <3>1 DEF Handed, Sources, Targets, Source, Target
  <2>2. 2 \in 0..(remap_base - 1)
    <3>1. Target(1) < remap_base /\ Target(1) = 3 /\ remap_base \in Nat
      BY <1>8, <1>9, DbEndFacts DEF BelowBase, ArgumentOK
    <3> QED BY <3>1
  <2>3. 2 \in DOMAIN table /\ table[2] = [file |-> Writer("db_stderr"), close_on_exec |-> FALSE]
    BY <1>8, <2>1, <2>2 DEF KeptAt, Handed
  <2>4. ~table[2].close_on_exec /\ table[2].file = Writer("db_stderr")
    BY <2>3
  <2> QED BY <1>7, <2>3, <2>4 DEF HasAt
<1>12. ASSUME NEW fd \in DOMAIN db_fds'
       PROVE  db_fds'[fd].file \in DbSide \cup {Other}
  <2>1. fd \in DOMAIN table /\ db_fds'[fd] = table[fd] /\ ~table[fd].close_on_exec
    BY <1>7
  <2>2. CASE fd \in Targets
    <3>1. PICK k \in 1..4 : fd = Target(k)
      BY <1>8, <2>2 DEF Targets, Target, Handed
    <3>2. table[fd].file = DbEnds[k]
      BY <1>9, <3>1
    <3> QED BY <2>1, <3>2, DbEndFacts DEF DbSide
  <2>3. CASE fd \notin Targets
    <3>1. fd \in DOMAIN before /\ table[fd] = before[fd]
      BY <1>1, <1>8, <2>1, <2>3 DEF NothingAdded
    <3>2. before[fd].file = Other \/ fd = 2
      BY <1>8, <2>1, <3>1 DEF Handed
    <3>3. before[2].file = Writer("db_stderr")
      BY <1>8 DEF Handed
    <3> QED BY <2>1, <3>1, <3>2, <3>3 DEF DbSide
  <2> QED BY <2>2, <2>3
<1>13. DbFdsRight'
  <2>1. DbWired'
    BY <1>10, DbEndFacts DEF DbWired, HasAt, DbEnds, DbFds
  <2>2. DbSide' = DbSide
    BY DEF DbSide, DbEnds
  <2> QED BY <1>11, <1>12, <2>1, <2>2 DEF DbFdsRight, HasAt
<1> QED BY <1>1, <1>2, <1>5, <1>6, <1>13 DEF SetupInv, Stages

LEMMA SetupKept == SetupInv /\ [Next]_vars => SetupInv'
<1> SUFFICES ASSUME SetupInv, [Next]_vars PROVE SetupInv'
  OBVIOUS
<1>1. CASE SetUp
  BY <1>1, OpenNextPipeKept, SpawnDiskKept, SpawnDbKept, PreExecKept, ExecDbKept DEF SetUp
<1>2. CASE UNCHANGED setupVars
  <2>1. RemapInv'
    BY <1>2, StutterInv DEF SetupInv, setupVars
  <2>2. UNCHANGED <<setup, monitor_fds, disk_fds, db_fds, remap, mappings, index, remap_base,
                    table, before>>
    BY <1>2 DEF setupVars, remapVars
  <2>3. NothingAdded'
    BY <2>2 DEF SetupInv, NothingAdded, Parked, Targets
  <2>4. HoldsEnds(monitor_fds, MonitorEnds(setup))'
    BY <2>2 DEF SetupInv, HoldsEnds, MonitorEnds, Has
  <2>5. (setup = "pre_exec" => Handed)'
    BY <2>2 DEF SetupInv, Handed, Source
  <2>6. (setup \notin BeforeDisk => DiskFdsRight)' /\ (setup = "run" => DbFdsRight)'
    BY <2>2 DEF SetupInv, DiskFdsRight, DbFdsRight, DbWired, HasAt
  <2> QED BY <2>1, <2>2, <2>3, <2>4, <2>5, <2>6 DEF SetupInv
<1> QED BY <1>1, <1>2 DEF Next, Start, Monitor, Database, Disk, Crashes, Runs, Reported, vars

\* Whatever the monitor was started with, the descriptors of the three processes
\* at every stage of the set-up (setup_disk_process, setup_db_process).
THEOREM SetupInvariant == Spec => []SetupInv
<1>1. Init => SetupInv
  BY SetupBegins DEF Init
<1> QED BY <1>1, SetupKept, PTL DEF Spec

\* In every run remap_fds puts the four ends where the database expects them
\* (monitor/src/main.rs, fd_mapper.rs:28-49).
THEOREM RunFilesInPlace == Spec => []EachInPlace
<1>1. SetupInv => EachInPlace
  BY InvInPlace DEF SetupInv
<1> QED BY <1>1, SetupInvariant, PTL

\* Once the processes run, each finds its pipes under the numbers it uses, and an
\* end that was given to a process is open exactly as long as that process is
\* there: no copy is left anywhere that would keep a reader waiting for the end
\* of a pipe.
EndsFollowProcesses ==
  setup = "run" =>
    /\ DbWired /\ DiskWired
    /\ \A k \in DOMAIN DbEnds : IsOpen(DbEnds[k]) <=> DbUp
    /\ IsOpen(Writer("db_stderr")) <=> DbUp
    /\ \A fd \in 0..2 : IsOpen(DiskStreams[fd]) <=> DiskUp

\* The ends of the pipes follow their processes in every run (setup_disk_process,
\* setup_db_process, and where Command and the closure are dropped).
THEOREM EndsAlwaysFollow == Spec => []EndsFollowProcesses
<1>1. SetupInv => EndsFollowProcesses
  <2> SUFFICES ASSUME SetupInv, setup = "run" PROVE EndsFollowProcesses
    BY DEF EndsFollowProcesses
  <2>1. HoldsEnds(monitor_fds, MonitorEnds("run")) /\ DiskFdsRight /\ DbFdsRight
    BY DEF SetupInv, BeforeDisk
  <2>2. DbSide \cap DiskEnds = {} /\ Other \notin DbSide /\ Other \notin DiskEnds
    BY DbEndFacts, DiskEndFacts, GivenAreEnds, EndFacts DEF Reader, Writer
  <2>3. \A file \in DbSide \cup DiskEnds : ~ Has(monitor_fds, file)
    <3>1. MonitorEnds("run") \cap (DbSide \cup DiskEnds) = {}
      BY DEF MonitorEnds, GivenBefore, BeforeDisk
    <3> QED BY <2>1, <2>2, <3>1 DEF HoldsEnds, Has
  <2>4. \A file \in DbSide : ~ Has(disk_fds, file)
    BY <2>1, <2>2 DEF DiskFdsRight, Has
  <2>5. \A file \in DiskEnds : ~ Has(db_fds, file)
    BY <2>1, <2>2 DEF DbFdsRight, Has
  <2>6. \A file \in DbSide : Has(db_fds, file)
    BY <2>1 DEF DbFdsRight, DbWired, DbSide, HasAt, Has
  <2>7. \A file \in DiskEnds : Has(disk_fds, file)
    BY <2>1 DEF DiskFdsRight, DiskEnds, HasAt, Has
  <2>8. /\ \A file \in DbSide : IsOpen(file) <=> DbUp
        /\ \A file \in DiskEnds : IsOpen(file) <=> DiskUp
    BY <2>3, <2>4, <2>5, <2>6, <2>7 DEF IsOpen
  <2>9. DiskWired
    BY <2>1, DiskEndFacts DEF DiskFdsRight, DiskWired
  <2>10. DbWired
    BY <2>1 DEF DbFdsRight
  <2> QED BY <2>8, <2>9, <2>10 DEF EndsFollowProcesses, DbSide, DiskEnds
<1> QED BY <1>1, SetupInvariant, PTL

-----------------------------------------------------------------------------
(* What the disk will have done when it has taken what is in the pipe *)

Jobs ==
  {j \in [op : {"none", "block-size", "get", "put"}, block : Nat, len : Nat, at : Nat] :
     j.op \in {"get", "put"} => j.block >= 1 /\ j.len >= 1 /\ j.block + j.len <= MaxBlock + 1}

Items  == {j \in Jobs : j.at = 0} \cup [op : {"data"}, stamp : Nat]
Stores == [1..MaxBlock -> Nat]
Totals == [reads : Nat, writes : Nat]

DiskStates ==
  {s \in [mode : {"command", "get", "put"}, job : Jobs, pages : Stores, metrics : Totals] :
     s.mode # "command" => s.job.op = s.mode /\ s.job.at < s.job.len}

DiskState == [mode |-> disk, job |-> disk_job, pages |-> anon_pages, metrics |-> metrics]

Accepts(s, item) ==
  IF s.mode = "command" THEN item.op \in {"get", "put", "block-size"}
    ELSE s.mode = "put" /\ item.op = "data"

Counted(totals, last, count) == IF last THEN [totals EXCEPT ![count] = @ + 1] ELSE totals

WithBlock(s, stamp) ==
  LET last == s.job.at + 1 = s.job.len
  IN [mode    |-> IF last THEN "command" ELSE "put",
      job     |-> [s.job EXCEPT !.at = @ + 1],
      pages   |-> [s.pages EXCEPT ![s.job.block + s.job.at] = stamp],
      metrics |-> Counted(s.metrics, last, "writes")]

Taken(s, item) ==
  CASE item.op = "data"           -> WithBlock(s, item.stamp)
    [] item.op \in {"get", "put"} -> [mode |-> item.op, job |-> item, pages |-> s.pages, metrics |-> s.metrics]
    [] OTHER                      -> s

NotMore(totals, others) == totals.reads <= others.reads /\ totals.writes <= others.writes

\* f holds the states of a disk that starts from s and takes one item after the other.
Course(f, s, items) ==
  /\ f \in [0..Len(items) -> DiskStates]
  /\ f[0] = s
  /\ \A i \in 1..Len(items) : Accepts(f[i - 1], items[i]) /\ f[i] = Taken(f[i - 1], items[i])
  /\ \A i \in 0..Len(items) : NotMore(f[i].metrics, f[Len(items)].metrics)

Leads(s, items, t) == \E f : Course(f, s, items) /\ f[Len(items)] = t

\* The state that comes of taking an item is one of a disk.
LEMMA TakenState ==
  ASSUME NEW s \in DiskStates, NEW item \in Items, Accepts(s, item)
  PROVE  Taken(s, item) \in DiskStates
<1>1. CASE item.op = "data"
  <2>1. s.mode = "put" /\ item.stamp \in Nat
    BY <1>1 DEF Accepts, Items, Jobs
  <2>2. s.job \in Jobs /\ s.job.op = "put" /\ s.job.at < s.job.len /\ s.pages \in Stores
        /\ s.metrics \in Totals
    BY <2>1 DEF DiskStates
  <2>3. [s.job EXCEPT !.at = @ + 1] \in Jobs
    BY <2>2 DEF Jobs
  <2>4. [s.pages EXCEPT ![s.job.block + s.job.at] = item.stamp] \in Stores
    BY <2>1, <2>2 DEF Stores
  <2>5. Counted(s.metrics, s.job.at + 1 = s.job.len, "writes") \in Totals
    BY <2>2 DEF Counted, Totals
  <2>6. WithBlock(s, item.stamp) \in DiskStates
    BY <2>2, <2>3, <2>4, <2>5 DEF WithBlock, DiskStates, Jobs
  <2> QED  BY <2>6, <1>1 DEF Taken
<1>2. CASE item.op \in {"get", "put"}
  <2>1. item \in Jobs /\ item.at = 0 /\ item.at < item.len
    BY <1>2 DEF Items, Jobs
  <2>2. s.pages \in Stores /\ s.metrics \in Totals /\ item.op \in {"command", "get", "put"}
    BY <1>2 DEF DiskStates
  <2>3. [mode |-> item.op, job |-> item, pages |-> s.pages, metrics |-> s.metrics] \in DiskStates
    BY <2>1, <2>2 DEF DiskStates
  <2> QED  BY <2>3, <1>2 DEF Taken
<1>3. CASE item.op = "block-size"
  BY <1>3 DEF Taken
<1> QED  BY <1>1, <1>2, <1>3 DEF Accepts

LEMMA TakenCounts ==
  ASSUME NEW s \in DiskStates, NEW item
  PROVE  NotMore(s.metrics, Taken(s, item).metrics)
<1>1. s.metrics \in Totals
  BY DEF DiskStates
<1>2. \A last : NotMore(s.metrics, Counted(s.metrics, last, "writes"))
  BY <1>1 DEF NotMore, Counted, Totals
<1>3. NotMore(s.metrics, s.metrics)
  BY <1>1 DEF NotMore, Totals
<1> QED  BY <1>2, <1>3 DEF Taken, WithBlock

\* An empty pipe leads nowhere else.
LEMMA NothingLeads ==
  ASSUME NEW s \in DiskStates, NEW t
  PROVE  Leads(s, << >>, t) <=> s = t
<1>1. Course([i \in {0} |-> s], s, << >>)
  BY DEF Course, NotMore, DiskStates, Totals
<1> QED  BY <1>1 DEF Leads, Course

\* An item more at the end of the pipe.
LEMMA LeadsAppend ==
  ASSUME NEW s, NEW items \in Seq(Items), NEW t \in DiskStates, NEW item \in Items,
         Leads(s, items, t), Accepts(t, item)
  PROVE  Leads(s, Append(items, item), Taken(t, item))
<1>1. PICK f : Course(f, s, items) /\ f[Len(items)] = t
  BY DEF Leads
<1> DEFINE n == Len(items)
           g == [i \in 0..(n + 1) |-> IF i = n + 1 THEN Taken(t, item) ELSE f[i]]
<1>2. n \in Nat /\ Len(Append(items, item)) = n + 1
  OBVIOUS
<1>3. g \in [0..(n + 1) -> DiskStates]
  BY <1>1, <1>2, TakenState DEF Course
<1>4. ASSUME NEW i \in 1..(n + 1)
      PROVE  /\ Accepts(g[i - 1], Append(items, item)[i])
             /\ g[i] = Taken(g[i - 1], Append(items, item)[i])
  <2>1. CASE i = n + 1
    <3>1. g[i - 1] = t /\ g[i] = Taken(t, item) /\ Append(items, item)[i] = item
      BY <2>1, <1>1, <1>2
    <3> QED  BY <3>1
  <2>2. CASE i # n + 1
    <3>1. i \in 1..n /\ g[i - 1] = f[i - 1] /\ g[i] = f[i] /\ Append(items, item)[i] = items[i]
      BY <2>2, <1>2
    <3> QED  BY <3>1, <1>1 DEF Course
  <2> QED  BY <2>1, <2>2
<1>5. g[0] = s /\ g[n + 1] = Taken(t, item)
  BY <1>1, <1>2 DEF Course
<1>6. ASSUME NEW i \in 0..(n + 1)
      PROVE  NotMore(g[i].metrics, g[n + 1].metrics)
  <2>1. NotMore(t.metrics, Taken(t, item).metrics)
    BY TakenCounts
  <2>2. t.metrics \in Totals /\ Taken(t, item).metrics \in Totals
    BY TakenState DEF DiskStates
  <2>3. CASE i = n + 1
    BY <2>2, <2>3, <1>5 DEF NotMore, Totals
  <2>4. CASE i # n + 1
    <3>1. i \in 0..n /\ g[i] = f[i] /\ f[i] \in DiskStates
      BY <2>4, <1>1, <1>2 DEF Course
    <3>2. NotMore(f[i].metrics, t.metrics) /\ f[i].metrics \in Totals
      BY <3>1, <1>1 DEF Course, DiskStates
    <3> QED  BY <3>1, <3>2, <2>1, <2>2, <1>5, SMTT(20) DEF NotMore, Totals
  <2> QED  BY <2>3, <2>4
<1> QED
  <2> HIDE DEF g
  <2>1. Course(g, s, Append(items, item))
    BY <1>2, <1>3, <1>4, <1>5, <1>6 DEF Course
  <2> QED  BY <2>1, <1>2, <1>5 DEF Leads

\* The first item of the pipe is accepted, and leads on to the same state.
LEMMA LeadsTail ==
  ASSUME NEW s, NEW items \in Seq(Items), items # << >>, NEW t, Leads(s, items, t)
  PROVE  /\ s \in DiskStates /\ Accepts(s, Head(items))
         /\ Leads(Taken(s, Head(items)), Tail(items), t)
<1>1. PICK f : Course(f, s, items) /\ f[Len(items)] = t
  BY DEF Leads
<1> DEFINE n == Len(items)
           g == [i \in 0..(n - 1) |-> f[i + 1]]
<1>2. n \in Nat /\ n >= 1 /\ Len(Tail(items)) = n - 1 /\ Head(items) = items[1]
  OBVIOUS
<1>3. f[0] = s /\ s \in DiskStates /\ Accepts(s, items[1]) /\ f[1] = Taken(s, items[1])
  BY <1>1, <1>2 DEF Course
<1>4. g \in [0..(n - 1) -> DiskStates] /\ g[0] = Taken(s, items[1]) /\ g[n - 1] = t
  BY <1>1, <1>2, <1>3 DEF Course
<1>5. ASSUME NEW i \in 1..(n - 1)
      PROVE  Accepts(g[i - 1], Tail(items)[i]) /\ g[i] = Taken(g[i - 1], Tail(items)[i])
  <2>1. g[i - 1] = f[i] /\ g[i] = f[i + 1] /\ Tail(items)[i] = items[i + 1]
    BY <1>2
  <2>2. i + 1 \in 1..n /\ (i + 1) - 1 = i
    BY <1>2
  <2> QED  BY <2>1, <2>2, <1>1 DEF Course
<1>6. ASSUME NEW i \in 0..(n - 1)
      PROVE  NotMore(g[i].metrics, g[n - 1].metrics)
  BY <1>1, <1>2, <1>4 DEF Course
<1> QED
  <2> HIDE DEF g
  <2>1. Course(g, Taken(s, Head(items)), Tail(items))
    BY <1>2, <1>4, <1>5, <1>6 DEF Course
  <2> QED  BY <2>1, <1>2, <1>3, <1>4 DEF Leads

-----------------------------------------------------------------------------
(* The invariant *)

Early == {"start", "printing", "ask_limit"}
Late  == {"validate", "running", "metrics"}

Types ==
  /\ job \in Jobs /\ disk_job \in Jobs
  /\ written \in Stores /\ anon_pages \in Stores
  /\ issued \in Totals /\ metrics \in Totals
  /\ disk \in {"command", "get", "put", "done", "failed"}
  /\ disk \in {"get", "put"} => disk_job.op = disk /\ disk_job.at < disk_job.len
  /\ disk_inbound \in Seq(Items)
  /\ disk_outbound \in Seq(Nat \cup {"block-size"})

\* What is in the two pipes, by what the database is doing.
NothingSent  == db \in Early => disk_inbound = << >>
NothingAsked == db \in Early \cup Late \cup {"sending"} => disk_outbound = << >>

SizeKnown ==
  db \in Late \cup {"sending"} \/ (db = "receiving" /\ job.op = "get") =>
    \A i \in 1..Len(disk_inbound) : disk_inbound[i].op # "block-size"

Awaited ==
  db = "receiving" =>
    /\ job.op \in {"get", "block-size"}
    /\ job.at + Len(disk_outbound) <= job.len
    /\ job.op = "block-size" => job.len = 1 /\ job.at + Len(disk_inbound) + Len(disk_outbound) <= 1

Sending == db = "sending" => job.op = "put" /\ job.at < job.len

PipesFit == NothingSent /\ NothingAsked /\ SizeKnown /\ Awaited /\ Sending /\ GetsSeePuts

\* With the items of the pipe taken, the disk is where the database is.
Pending(mode, command) == IF mode = command THEN 1 ELSE 0

InStep(t) ==
  /\ t.pages = written
  /\ t.metrics.reads + Pending(t.mode, "get") = issued.reads
  /\ t.metrics.writes + Pending(t.mode, "put") = issued.writes
  /\ db \in Early \cup Late => t.mode = "command"
  /\ db = "sending" => t.mode = "put" /\ t.job = job
  /\ db = "receiving" =>
       IF job.op = "get" /\ job.at + Len(disk_outbound) < job.len
       THEN t.mode = "get" /\ t.job = [job EXCEPT !.at = @ + Len(disk_outbound)]
       ELSE t.mode = "command"

Traffic == \E t \in DiskStates : Leads(DiskState, disk_inbound, t) /\ InStep(t)

\* A disk that is done has counted everything, and will be sent nothing more.
CountsFinal ==
  /\ disk = "done" => setup = "run" /\ metrics = issued /\ ~(DbUp /\ DbWired)
  /\ metrics_csv # NoReport => disk = "done" /\ metrics_csv = metrics

Inv == Types /\ PipesFit /\ (DiskUp => Traffic) /\ CountsFinal

LEMMA InvInit == Init => Inv
<1> SUFFICES ASSUME Init PROVE Inv
  OBVIOUS
<1>1. Types
  BY QueryRunAssumption DEF Init, Types, Jobs, NoBlocks, Stores, Totals
<1>2. PipesFit
  BY DEF Init, PipesFit, NothingSent, NothingAsked, SizeKnown, Awaited, Sending, GetsSeePuts, Early, Late
<1>3. DiskState \in DiskStates
  BY <1>1 DEF Init, DiskState, DiskStates, Types
<1>4. Leads(DiskState, disk_inbound, DiskState)
  BY <1>3, NothingLeads DEF Init
<1>5. InStep(DiskState)
  BY DEF Init, InStep, DiskState, Pending
<1>6. CountsFinal
  BY DEF Init, CountsFinal
<1> QED  BY <1>1, <1>2, <1>3, <1>4, <1>5, <1>6 DEF Inv, Traffic

-----------------------------------------------------------------------------
(* The steps that leave the pipes alone *)

trafficVars == <<job, written, issued, diskVars, disk_inbound, disk_outbound>>

\* The database goes on from one state to another of the same kind, or ends.
LEMMA PipesUntouched ==
  ASSUME Inv, UNCHANGED trafficVars,
         \/ db' = db
         \/ db' = "exited"
         \/ db \in Early /\ db' \in Early
         \/ db \in Late /\ db' \in Late
  PROVE  Types' /\ PipesFit' /\ (DiskUp => Traffic)'
<1>1. Types'
  BY DEF Inv, Types, trafficVars, diskVars
<1>2. PipesFit'
  BY DEF Inv, PipesFit, trafficVars, NothingSent, NothingAsked, SizeKnown, Awaited, Sending,
         GetsSeePuts, Early, Late
<1>3. ASSUME DiskUp' PROVE Traffic'
  <2>1. DiskUp
    BY <1>3 DEF DiskUp, trafficVars, diskVars
  <2>2. PICK t \in DiskStates : Leads(DiskState, disk_inbound, t) /\ InStep(t)
    BY <2>1 DEF Inv, Traffic
  <2>3. DiskState' = DiskState
    BY DEF DiskState, trafficVars, diskVars
  <2>4. Leads(DiskState', disk_inbound', t)
    BY <2>2, <2>3 DEF trafficVars
  <2>5. InStep(t)'
    BY <2>2 DEF InStep, Early, Late, trafficVars
  <2> QED  BY <2>4, <2>5 DEF Traffic
<1> QED  BY <1>1, <1>2, <1>3

\* A step of the database finds the disk not done, and the row not written.
LEMMA DbStepCounts ==
  ASSUME Inv, DbUp, DbWired, UNCHANGED <<diskVars, monitorVars>>
  PROVE  CountsFinal'
BY DEF Inv, CountsFinal, diskVars, monitorVars

-----------------------------------------------------------------------------
(* The steps of the database that use the pipes *)

\* Items of no other kind than those before and one that is none.
LEMMA AppendItem ==
  ASSUME Inv, NEW item \in Items, disk_inbound' = Append(disk_inbound, item)
  PROVE  /\ disk_inbound' \in Seq(Items) /\ Len(disk_inbound') = Len(disk_inbound) + 1
         /\ \A i \in 1..Len(disk_inbound') :
              disk_inbound'[i] = IF i <= Len(disk_inbound) THEN disk_inbound[i] ELSE item
BY DEF Inv, Types

LEMMA ReadLimitStep ==
  ASSUME Inv, ReadLimit, UNCHANGED <<diskVars, monitorVars>>
  PROVE  Types' /\ PipesFit' /\ (DiskUp => Traffic)'
<1> DEFINE item == Command("block-size", 0, 1)
<1>1. /\ db \in Early /\ db' = "receiving" /\ job' = item
      /\ disk_inbound' = Append(disk_inbound, item)
      /\ UNCHANGED <<written, issued, diskVars, disk_outbound>>
  BY DEF ReadLimit, PrintsTo, KeepsEngine, Early
<1>2. item \in Jobs /\ item \in Items /\ item.op = "block-size" /\ item.len = 1 /\ item.at = 0
  BY DEF Command, Jobs, Items
<1> HIDE DEF item
<1>3. disk_inbound = << >> /\ disk_outbound = << >>
  BY <1>1 DEF Inv, PipesFit, NothingSent, NothingAsked
<1>4. Types'
  BY <1>1, <1>2, AppendItem DEF Inv, Types, diskVars
<1>5. PipesFit'
  BY <1>1, <1>2, <1>3 DEF PipesFit, NothingSent, NothingAsked, SizeKnown, Awaited, Sending,
                          GetsSeePuts, Early, Late
<1>6. ASSUME DiskUp' PROVE Traffic'
  <2>1. DiskUp /\ DiskState' = DiskState
    BY <1>6, <1>1 DEF DiskUp, DiskState, diskVars
  <2>2. PICK t \in DiskStates : Leads(DiskState, disk_inbound, t) /\ InStep(t)
    BY <2>1 DEF Inv, Traffic
  <2>3. t.mode = "command"
    BY <2>2, <1>1 DEF InStep
  <2>4. Accepts(t, item) /\ Taken(t, item) = t
    BY <2>3, <1>2 DEF Accepts, Taken
  <2>5. Leads(DiskState', disk_inbound', t)
    BY <2>1, <2>2, <2>4, <1>1, <1>2, LeadsAppend DEF Inv, Types
  <2>6. InStep(t)'
    BY <2>2, <2>3, <1>1, <1>2 DEF InStep, Early, Late
  <2> QED  BY <2>5, <2>6 DEF Traffic
<1> QED  BY <1>4, <1>5, <1>6

LEMMA ReceiveBlockStep ==
  ASSUME Inv, ReceiveBlock, UNCHANGED <<diskVars, monitorVars>>
  PROVE  Types' /\ PipesFit' /\ (DiskUp => Traffic)'
<1> DEFINE n == Len(disk_outbound)
<1>1. /\ db = "receiving" /\ n \in Nat /\ n >= 1
      /\ disk_outbound' = Tail(disk_outbound)
      /\ job' = [job EXCEPT !.at = @ + 1]
      /\ db' = IF job'.at < job.len THEN "receiving"
               ELSE IF job.op = "block-size" THEN "validate" ELSE "running"
      /\ UNCHANGED <<written, issued, diskVars, disk_inbound>>
  BY DEF ReceiveBlock, KeepsEngine, Inv, Types
<1>2. /\ job' \in Jobs /\ job'.at = job.at + 1 /\ job'.op = job.op /\ job'.len = job.len
      /\ job'.block = job.block /\ job.at \in Nat /\ job.len \in Nat /\ job.block \in Nat
  BY <1>1, SMTT(30) DEF Inv, Types, Jobs
<1>3. disk_outbound' \in Seq(Nat \cup {"block-size"}) /\ Len(disk_outbound') = n - 1
      /\ \A i \in 1..(n - 1) : disk_outbound'[i] = disk_outbound[i + 1]
  BY <1>1 DEF Inv, Types
<1>4. job.op \in {"get", "block-size"} /\ job.at + n <= job.len
      /\ (job.op = "block-size" => job.len = 1 /\ job.at + Len(disk_inbound) + n <= 1)
  BY <1>1 DEF Inv, PipesFit, Awaited
<1>5. disk_inbound \in Seq(Items) /\ Len(disk_inbound) \in Nat
  BY DEF Inv, Types
<1> HIDE DEF n
<1>6. \/ job.at + 1 < job.len /\ db' = "receiving" /\ job.op = "get"
      \/ job.at + 1 = job.len /\ n = 1 /\ db' \in {"validate", "running"}
         /\ (db' = "validate" <=> job.op = "block-size")
  <2>1. CASE job.at + 1 < job.len
    <3>1. job.op = "get"
      BY <2>1, <1>1, <1>2, <1>4, <1>5
    <3> QED  BY <3>1, <2>1, <1>1, <1>2
  <2>2. CASE ~(job.at + 1 < job.len)
    <3>1. job.at + 1 = job.len /\ n = 1
      <4>1. n \in Nat /\ n >= 1 /\ job.at \in Nat /\ job.len \in Nat /\ job.at + n <= job.len
        BY <1>1, <1>2, <1>4
      <4> QED  BY <4>1, <2>2
    <3>2. db' = IF job.op = "block-size" THEN "validate" ELSE "running"
      BY <2>2, <1>1, <1>2
    <3> QED  BY <3>1, <3>2
  <2> QED  BY <2>1, <2>2
<1>7. Types'
  BY <1>1, <1>2, <1>3 DEF Inv, Types, diskVars
<1>8. PipesFit'
  <2>1. NothingSent' /\ Sending'
    BY <1>6 DEF NothingSent, Sending, Early
  <2>2. NothingAsked'
    BY <1>3, <1>6 DEF NothingAsked, Early, Late
  <2>3. SizeKnown'
    <3>1. CASE job.op = "get"
      BY <3>1, <1>1 DEF Inv, PipesFit, SizeKnown
    <3>2. CASE job.op = "block-size"
      BY <3>2, <1>1, <1>2, <1>4, <1>5, <1>6 DEF SizeKnown
    <3> QED  BY <3>1, <3>2, <1>4
  <2>4. Awaited'
    BY <1>1, <1>2, <1>3, <1>4, <1>6 DEF Awaited
  <2>5. GetsSeePuts'
    <3> SUFFICES ASSUME db' = "receiving", job'.op = "get", NEW i \in 1..(n - 1)
                 PROVE  disk_outbound'[i] = written'[job'.block + job'.at + i - 1]
      BY <1>3 DEF GetsSeePuts
    <3>1. i + 1 \in 1..n /\ i \in Nat
      BY <1>1
    <3>2. disk_outbound[i + 1] = written[job.block + job.at + (i + 1) - 1]
      BY <3>1, <1>1, <1>2 DEF Inv, PipesFit, GetsSeePuts, n
    <3>3. job.block + job.at + (i + 1) - 1 = job'.block + job'.at + i - 1
      BY <3>1, <1>2
    <3> QED  BY <3>2, <3>3, <1>1, <1>3
  <2> QED  BY <2>1, <2>2, <2>3, <2>4, <2>5 DEF PipesFit
<1>9. ASSUME DiskUp' PROVE Traffic'
  <2>1. DiskUp /\ DiskState' = DiskState
    BY <1>9, <1>1 DEF DiskUp, DiskState, diskVars
  <2>2. PICK t \in DiskStates : Leads(DiskState, disk_inbound, t) /\ InStep(t)
    BY <2>1 DEF Inv, Traffic
  <2>3. /\ t.pages = written' /\ t.metrics.reads + Pending(t.mode, "get") = issued'.reads
        /\ t.metrics.writes + Pending(t.mode, "put") = issued'.writes
    BY <2>2, <1>1 DEF InStep
  <2>4. IF job.op = "get" /\ job.at + n < job.len
        THEN t.mode = "get" /\ t.job = [job EXCEPT !.at = @ + n] ELSE t.mode = "command"
    BY <2>2, <1>1 DEF InStep, n
  <2>5. [job' EXCEPT !.at = @ + Len(disk_outbound')] = [job EXCEPT !.at = @ + n]
    <3>1. job'.at + Len(disk_outbound') = job.at + n
      BY <1>1, <1>2, <1>3
    <3>2. \A k : [job' EXCEPT !.at = k] = [job EXCEPT !.at = k]
      BY <1>1 DEF Inv, Types, Jobs
    <3> QED  BY <3>1, <3>2
  <2>6. db' \in Early \cup Late => t.mode = "command"
    BY <2>4, <1>1, <1>2, <1>6 DEF Early, Late
  <2>7. db' = "receiving" =>
          IF job'.op = "get" /\ job'.at + Len(disk_outbound') < job'.len
          THEN t.mode = "get" /\ t.job = [job' EXCEPT !.at = @ + Len(disk_outbound')]
          ELSE t.mode = "command"
    BY <2>4, <2>5, <1>1, <1>2, <1>3
  <2>8. InStep(t)'
    BY <2>3, <2>6, <2>7, <1>6 DEF InStep
  <2> QED  BY <2>1, <2>2, <2>8, <1>1 DEF Traffic
<1> QED  BY <1>7, <1>8, <1>9

\* A command other than that for the block size, sent between two rows.
LEMMA SendCommandStep ==
  ASSUME Inv, NEW op \in {"get", "put"}, NEW e \in Extents, SendCommand(op, e[1], e[2]),
         db' = IF op = "get" THEN "receiving" ELSE "sending",
         issued' = IF op = "get" THEN [issued EXCEPT !.reads = @ + 1]
                   ELSE [issued EXCEPT !.writes = @ + 1],
         UNCHANGED <<diskVars, monitorVars>>
  PROVE  Types' /\ PipesFit' /\ (DiskUp => Traffic)'
<1> DEFINE item == Command(op, e[1], e[2])
<1>1. /\ db = "running" /\ job' = item
      /\ disk_inbound' = Append(disk_inbound, item)
      /\ UNCHANGED <<written, diskVars, disk_outbound>>
  BY DEF SendCommand
<1>2. e[1] \in Nat /\ e[2] \in Nat /\ e[1] >= 1 /\ e[2] >= 1 /\ e[1] + e[2] <= MaxBlock + 1
  BY QueryRunAssumption DEF Extents
<1>3. item \in Jobs /\ item \in Items /\ item.op = op /\ item.len = e[2] /\ item.at = 0
  BY <1>2 DEF Command, Jobs, Items
<1> HIDE DEF item
<1>4. disk_outbound = << >> /\ \A i \in 1..Len(disk_inbound) : disk_inbound[i].op # "block-size"
  BY <1>1 DEF Inv, PipesFit, NothingAsked, SizeKnown, Late
<1>5. issued' \in Totals
  BY DEF Inv, Types, Totals
<1>6. Types'
  BY <1>1, <1>3, <1>5, AppendItem DEF Inv, Types, diskVars
<1>7. PipesFit'
  <2>1. NothingSent' /\ NothingAsked' /\ GetsSeePuts'
    BY <1>1, <1>4 DEF NothingSent, NothingAsked, GetsSeePuts, Early
  <2>2. SizeKnown'
    <3>1. \A i \in 1..Len(disk_inbound') :
            disk_inbound'[i] = IF i <= Len(disk_inbound) THEN disk_inbound[i] ELSE item
      BY <1>1, <1>3, AppendItem
    <3>2. Len(disk_inbound) \in Nat /\ Len(disk_inbound') = Len(disk_inbound) + 1
      BY <1>1, <1>3, AppendItem DEF Inv, Types
    <3> QED  BY <3>1, <3>2, <1>3, <1>4 DEF SizeKnown
  <2>3. Awaited'
    BY <1>1, <1>2, <1>3, <1>4 DEF Awaited
  <2>4. Sending'
    BY <1>1, <1>2, <1>3 DEF Sending
  <2> QED  BY <2>1, <2>2, <2>3, <2>4 DEF PipesFit
<1>8. ASSUME DiskUp' PROVE Traffic'
  <2>1. DiskUp /\ DiskState' = DiskState
    BY <1>8, <1>1 DEF DiskUp, DiskState, diskVars
  <2>2. PICK t \in DiskStates : Leads(DiskState, disk_inbound, t) /\ InStep(t)
    BY <2>1 DEF Inv, Traffic
  <2>3. t.mode = "command" /\ t.pages = written /\ t.metrics = issued
    <3>1. t.mode = "command" /\ t.pages = written
      BY <2>2, <1>1 DEF InStep, Late
    <3>2. t.metrics.reads = issued.reads /\ t.metrics.writes = issued.writes
      BY <3>1, <2>2 DEF InStep, Pending, DiskStates, Totals, Inv, Types
    <3> QED  BY <3>1, <3>2 DEF DiskStates, Totals, Inv, Types
  <2> DEFINE u == Taken(t, item)
  <2>4. Accepts(t, item)
    BY <2>3, <1>3 DEF Accepts
  <2>5. u = [mode |-> op, job |-> item, pages |-> written, metrics |-> issued]
    BY <2>3, <1>3 DEF Taken
  <2>6. u \in DiskStates
    BY <2>4, <1>3, TakenState
  <2>7. Leads(DiskState', disk_inbound', u)
    BY <2>1, <2>2, <2>4, <1>1, <1>3, LeadsAppend DEF Inv, Types
  <2> HIDE DEF u
  <2>8. u.metrics.reads + Pending(u.mode, "get") = issued'.reads
        /\ u.metrics.writes + Pending(u.mode, "put") = issued'.writes
    BY <2>5 DEF Pending, Inv, Types, Totals
  <2>9. db' = "receiving" => u.mode = "get" /\ u.job = [job' EXCEPT !.at = @ + Len(disk_outbound')]
    BY <2>5, <1>1, <1>3, <1>4 DEF Jobs
  <2>10. db' = "receiving" => job'.op = "get" /\ job'.at + Len(disk_outbound') < job'.len
    BY <1>1, <1>2, <1>3, <1>4
  <2>11. InStep(u)'
    BY <2>5, <2>8, <2>9, <2>10, <1>1 DEF InStep, Early, Late
  <2> QED  BY <2>6, <2>7, <2>11 DEF Traffic
<1> QED  BY <1>6, <1>7, <1>8

LEMMA SendBlockStep ==
  ASSUME Inv, SendBlock, UNCHANGED <<diskVars, monitorVars>>
  PROVE  Types' /\ PipesFit' /\ (DiskUp => Traffic)'
<1> DEFINE item == Data(issued.writes)
<1>1. /\ db = "sending" /\ job' = [job EXCEPT !.at = @ + 1]
      /\ disk_inbound' = Append(disk_inbound, item)
      /\ written' = [written EXCEPT ![job.block + job.at] = issued.writes]
      /\ db' = IF job'.at < job.len THEN "sending" ELSE "running"
      /\ UNCHANGED <<issued, diskVars, disk_outbound>>
  BY DEF SendBlock
<1>2. item \in Items /\ item.op = "data" /\ item.stamp = issued.writes /\ issued.writes \in Nat
  BY DEF Data, Items, Inv, Types, Totals
<1> HIDE DEF item
<1>3. /\ job' \in Jobs /\ job'.at = job.at + 1 /\ job'.op = job.op /\ job'.len = job.len
      /\ job'.block = job.block /\ job.at \in Nat /\ job.len \in Nat
  <2>1. job \in Jobs
    BY DEF Inv, Types
  <2>2. job' = [job EXCEPT !.at = @ + 1]
    BY <1>1
  <2> QED  BY <2>1, <2>2 DEF Jobs
<1>4. job.op = "put" /\ job.at < job.len /\ disk_outbound = << >>
      /\ \A i \in 1..Len(disk_inbound) : disk_inbound[i].op # "block-size"
  BY <1>1 DEF Inv, PipesFit, Sending, NothingAsked, SizeKnown
<1>5. written' \in Stores
  BY <1>1, <1>2 DEF Inv, Types, Stores
<1>6. \/ job.at + 1 = job.len /\ db' = "running"
      \/ job.at + 1 # job.len /\ job'.at < job'.len /\ db' = "sending"
  BY <1>1, <1>3, <1>4
<1>7. Types'
  BY <1>1, <1>2, <1>3, <1>5, AppendItem DEF Inv, Types, diskVars
<1>8. PipesFit'
  <2>1. NothingSent' /\ NothingAsked' /\ GetsSeePuts' /\ Awaited' /\ Sending'
    BY <1>1, <1>3, <1>4, <1>6 DEF NothingSent, NothingAsked, GetsSeePuts, Awaited, Sending, Early
  <2>2. SizeKnown'
    <3>1. \A i \in 1..Len(disk_inbound') :
            disk_inbound'[i] = IF i <= Len(disk_inbound) THEN disk_inbound[i] ELSE item
      BY <1>1, <1>2, AppendItem
    <3>2. Len(disk_inbound) \in Nat /\ Len(disk_inbound') = Len(disk_inbound) + 1
      BY <1>1, <1>2, AppendItem DEF Inv, Types
    <3> QED  BY <3>1, <3>2, <1>2, <1>4 DEF SizeKnown
  <2> QED  BY <2>1, <2>2 DEF PipesFit
<1>9. ASSUME DiskUp' PROVE Traffic'
  <2>1. DiskUp /\ DiskState' = DiskState
    BY <1>9, <1>1 DEF DiskUp, DiskState, diskVars
  <2>2. PICK t \in DiskStates : Leads(DiskState, disk_inbound, t) /\ InStep(t)
    BY <2>1 DEF Inv, Traffic
  <2>3. t.mode = "put" /\ t.job = job /\ t.pages = written
        /\ t.metrics.reads = issued.reads /\ t.metrics.writes + 1 = issued.writes
        /\ t.metrics \in Totals
    BY <2>2, <1>1 DEF InStep, Pending, DiskStates, Totals
  <2> DEFINE last == job.at + 1 = job.len
  <2>4. PICK u : u = Taken(t, item)
    OBVIOUS
  <2>5. Accepts(t, item)
    BY <2>3, <1>2 DEF Accepts
  <2>6. u = [mode    |-> IF last THEN "command" ELSE "put",
             job     |-> job',
             pages   |-> written',
             metrics |-> Counted(t.metrics, last, "writes")]
    BY <2>4, <2>3, <1>1, <1>2 DEF Taken, WithBlock
  <2>7. u \in DiskStates
    BY <2>4, <2>5, <1>2, TakenState
  <2>8. Leads(DiskState', disk_inbound', u)
    BY <2>4, <2>1, <2>2, <2>5, <1>1, <1>2, LeadsAppend DEF Inv, Types
  <2>9. u.metrics.reads + Pending(u.mode, "get") = issued'.reads
        /\ u.metrics.writes + Pending(u.mode, "put") = issued'.writes
    <3>1. CASE last
      BY <3>1, <2>3, <2>6, <1>1 DEF Pending, Counted, Totals
    <3>2. CASE ~last
      BY <3>2, <2>3, <2>6, <1>1 DEF Pending, Counted, Totals
    <3> QED  BY <3>1, <3>2
  <2>10. InStep(u)'
    BY <2>6, <2>9, <1>1, <1>6 DEF InStep, Early, Late
  <2> QED  BY <2>7, <2>8, <2>10 DEF Traffic
<1> QED  BY <1>7, <1>8, <1>9

-----------------------------------------------------------------------------
(* The steps of the disk *)

\* What is left of the pipe when an item is taken.
LEMMA TailItems ==
  ASSUME Inv, TakeItem
  PROVE  /\ disk_inbound' \in Seq(Items) /\ Len(disk_inbound') = Len(disk_inbound) - 1
         /\ Len(disk_inbound) \in Nat /\ Len(disk_inbound) >= 1
         /\ \A i \in 1..Len(disk_inbound') : disk_inbound'[i] = disk_inbound[i + 1]
         /\ Head(disk_inbound) \in Items /\ Head(disk_inbound) = disk_inbound[1]
BY DEF Inv, Types, TakeItem

\* The disk takes an item and answers nothing to it.
LEMMA TakeStep ==
  ASSUME Inv, DiskUp, TakeItem, DiskState' = Taken(DiskState, Head(disk_inbound)),
         UNCHANGED <<dbVars, disk_outbound>>
  PROVE  PipesFit' /\ Traffic'
<1>1. PICK t \in DiskStates : Leads(DiskState, disk_inbound, t) /\ InStep(t)
  BY DEF Inv, Traffic
<1>2. Leads(DiskState', disk_inbound', t)
  BY <1>1, LeadsTail DEF Inv, Types, TakeItem
<1>3. InStep(t)'
  BY <1>1 DEF InStep, dbVars
<1>4. NothingSent' /\ NothingAsked' /\ Sending' /\ GetsSeePuts'
  BY DEF Inv, PipesFit, NothingSent, NothingAsked, Sending, GetsSeePuts, dbVars, TakeItem
<1>5. SizeKnown'
  <2> SUFFICES ASSUME SizeKnown, \A i \in 1..Len(disk_inbound) : disk_inbound[i].op # "block-size",
                      NEW i \in 1..Len(disk_inbound')
               PROVE  disk_inbound'[i].op # "block-size"
    BY DEF Inv, PipesFit, SizeKnown, dbVars
  <2>1. i + 1 \in 1..Len(disk_inbound) /\ disk_inbound'[i] = disk_inbound[i + 1]
    BY TailItems
  <2> QED  BY <2>1
<1>6. Awaited'
  <2>1. Len(disk_inbound') <= Len(disk_inbound) /\ Len(disk_inbound') \in Nat
    BY TailItems
  <2>2. Len(disk_outbound) \in Nat /\ job.at \in Nat
    BY DEF Inv, Types, Jobs
  <2> QED  BY <2>1, <2>2, TailItems DEF Inv, PipesFit, Awaited, dbVars
<1> QED  BY <1>2, <1>3, <1>4, <1>5, <1>6 DEF PipesFit, Traffic

LEMMA StartCommandStep ==
  ASSUME Inv, StartCommand, UNCHANGED dbVars
  PROVE  Types' /\ PipesFit' /\ (DiskUp => Traffic)'
<1> DEFINE item == Head(disk_inbound)
<1>1. /\ disk = "command" /\ TakeItem /\ item.op \in {"get", "put"}
      /\ disk' = item.op /\ disk_job' = item
      /\ UNCHANGED <<anon_pages, metrics, disk_outbound>>
  BY DEF StartCommand
<1>2. item \in Items
  BY <1>1, TailItems
<1>3. item \in Jobs /\ item.at = 0 /\ item.at < item.len
  BY <1>1, <1>2 DEF Items, Jobs
<1>4. Types'
  BY <1>1, <1>3, TailItems DEF Inv, Types, dbVars
<1>5. DiskState' = Taken(DiskState, item)
  BY <1>1 DEF DiskState, Taken
<1>6. PipesFit' /\ Traffic'
  BY <1>1, <1>5, TakeStep DEF DiskUp
<1> QED  BY <1>4, <1>6

\* A block more is served, of a command or of its last.
LEMMA NextBlockState ==
  ASSUME Inv, disk \in {"get", "put"}, NEW count \in {"reads", "writes"}, NextBlock(count)
  PROVE  /\ disk_job' = [disk_job EXCEPT !.at = @ + 1] /\ disk_job' \in Jobs
         /\ disk_job'.op = disk_job.op /\ disk_job'.len = disk_job.len
         /\ disk_job'.at = disk_job.at + 1 /\ disk_job.at \in Nat /\ disk_job.len \in Nat
         /\ disk' = IF disk_job.at + 1 = disk_job.len THEN "command" ELSE disk
         /\ metrics' = Counted(metrics, disk_job.at + 1 = disk_job.len, count)
         /\ metrics' \in Totals
<1>1. disk_job \in Jobs /\ metrics \in Totals
  BY DEF Inv, Types
<1>2. disk_job' = [disk_job EXCEPT !.at = @ + 1]
  BY DEF NextBlock
<1>3. /\ disk_job' \in Jobs /\ disk_job'.op = disk_job.op /\ disk_job'.len = disk_job.len
      /\ disk_job'.at = disk_job.at + 1 /\ disk_job.at \in Nat /\ disk_job.len \in Nat
  BY <1>1, <1>2 DEF Jobs
<1>4. /\ disk' = IF disk_job.at + 1 = disk_job.len THEN "command" ELSE disk
      /\ metrics' = Counted(metrics, disk_job.at + 1 = disk_job.len, count)
  BY <1>3 DEF NextBlock, Counted
<1>5. metrics' \in Totals
  BY <1>1, <1>4 DEF Counted, Totals
<1> QED  BY <1>2, <1>3, <1>4, <1>5

LEMMA PutBlockStep ==
  ASSUME Inv, PutBlock, UNCHANGED dbVars
  PROVE  Types' /\ PipesFit' /\ (DiskUp => Traffic)'
<1> DEFINE item == Head(disk_inbound)
<1>1. /\ disk = "put" /\ TakeItem /\ NextBlock("writes")
      /\ anon_pages' = [anon_pages EXCEPT ![disk_job.block + disk_job.at] = item.stamp]
      /\ UNCHANGED disk_outbound
  BY DEF PutBlock
<1>2. disk_job.op = "put" /\ disk_job.at < disk_job.len
  BY <1>1 DEF Inv, Types
<1>3. Accepts(DiskState, item)
  <2>1. PICK t : Leads(DiskState, disk_inbound, t)
    BY <1>1 DEF Inv, DiskUp, Traffic
  <2> QED  BY <2>1, <1>1, LeadsTail DEF TakeItem, Inv, Types
<1>4. item.op = "data" /\ item.stamp \in Nat
  <2>1. item.op = "data" /\ item \in Items
    BY <1>1, <1>3, TailItems DEF Accepts, DiskState
  <2> QED  BY <2>1 DEF Items, Jobs
<1>5. anon_pages' \in Stores
  BY <1>1, <1>4 DEF Inv, Types, Stores
<1>6. disk' = "put" => disk_job'.op = disk' /\ disk_job'.at < disk_job'.len
  BY <1>1, <1>2, NextBlockState
<1>7. Types'
  BY <1>1, <1>5, <1>6, NextBlockState, TailItems DEF Inv, Types, dbVars
<1>8. DiskState' = Taken(DiskState, item)
  BY <1>1, <1>4, NextBlockState DEF DiskState, Taken, WithBlock
<1>9. PipesFit' /\ Traffic'
  BY <1>1, <1>8, TakeStep DEF DiskUp
<1> QED  BY <1>7, <1>9

LEMMA GetBlockStep ==
  ASSUME Inv, GetBlock, UNCHANGED dbVars
  PROVE  Types' /\ PipesFit' /\ (DiskUp => Traffic)'
<1> DEFINE n == Len(disk_outbound)
           block == anon_pages[disk_job.block + disk_job.at]
<1>1. /\ disk = "get" /\ NextBlock("reads")
      /\ disk_outbound' = Append(disk_outbound, block)
      /\ UNCHANGED <<anon_pages, disk_inbound>>
  BY DEF GetBlock, Reply
<1>2. /\ disk_job \in Jobs /\ disk_job.op = "get" /\ disk_job.at < disk_job.len
      /\ anon_pages \in Stores /\ metrics \in Totals
      /\ job \in Jobs /\ issued \in Totals
      /\ disk_inbound \in Seq(Items) /\ disk_outbound \in Seq(Nat \cup {"block-size"})
  BY <1>1 DEF Inv, Types
<1>3. block \in Nat
  <2>1. disk_job.block + disk_job.at \in 1..MaxBlock
    BY <1>2, QueryRunAssumption DEF Jobs
  <2> QED  BY <2>1, <1>2 DEF Stores
<1>4. /\ disk_outbound' \in Seq(Nat \cup {"block-size"}) /\ n \in Nat /\ Len(disk_outbound') = n + 1
      /\ \A i \in 1..(n + 1) : disk_outbound'[i] = IF i <= n THEN disk_outbound[i] ELSE block
  BY <1>1, <1>2, <1>3
\* A get is the last command of the pipe.
<1>5. disk_inbound = << >> /\ InStep(DiskState)
  <2>1. PICK t \in DiskStates : Leads(DiskState, disk_inbound, t) /\ InStep(t)
    BY <1>1 DEF Inv, DiskUp, Traffic
  <2>2. ~Accepts(DiskState, Head(disk_inbound))
    BY <1>1 DEF Accepts, DiskState
  <2>3. disk_inbound = << >>
    BY <2>1, <2>2, <1>2, LeadsTail
  <2>4. DiskState \in DiskStates
    BY <1>1, <1>2 DEF DiskState, DiskStates
  <2>5. t = DiskState
    BY <2>1, <2>3, <2>4, NothingLeads
  <2> QED  BY <2>1, <2>3, <2>5
<1>6. /\ anon_pages = written /\ metrics.reads + 1 = issued.reads /\ metrics.writes = issued.writes
      /\ db \notin Early \cup Late \cup {"sending"}
      /\ db = "receiving" => /\ job.op = "get" /\ job.at + n < job.len
                             /\ disk_job = [job EXCEPT !.at = @ + n]
  BY <1>1, <1>2, <1>5 DEF InStep, DiskState, Pending, Totals
<1> HIDE DEF n, block
<1>7. db' = db /\ job' = job /\ written' = written /\ issued' = issued /\ disk_inbound' = << >>
  BY <1>1, <1>5 DEF dbVars
<1>8. disk' \in {"get", "put"} => disk_job'.op = disk' /\ disk_job'.at < disk_job'.len
  BY <1>1, <1>2, NextBlockState
<1>9. disk' \in {"command", "get"} /\ disk_job' \in Jobs /\ metrics' \in Totals
  BY <1>1, NextBlockState
<1>10. Types'
  <2>1. job' \in Jobs /\ written' \in Stores /\ issued' \in Totals /\ anon_pages' \in Stores
    BY <1>1, <1>2, <1>6, <1>7
  <2>2. disk_inbound' \in Seq(Items)
    BY <1>7
  <2> QED  BY <2>1, <2>2, <1>4, <1>8, <1>9 DEF Types
<1>11. PipesFit'
  <2>1. NothingSent' /\ NothingAsked' /\ SizeKnown' /\ Sending'
    BY <1>6, <1>7 DEF NothingSent, NothingAsked, SizeKnown, Sending
  <2>2. Awaited'
    BY <1>2, <1>4, <1>6, <1>7 DEF Awaited, Jobs
  <2>3. GetsSeePuts'
    <3> SUFFICES ASSUME db = "receiving", job.op = "get", NEW i \in 1..(n + 1)
                 PROVE  disk_outbound'[i] = written[job.block + job.at + i - 1]
      BY <1>4, <1>7 DEF GetsSeePuts
    <3>1. CASE i <= n
      <4>1. disk_outbound[i] = written[job.block + job.at + i - 1]
        BY <3>1, <1>4 DEF Inv, PipesFit, GetsSeePuts, n
      <4> QED  BY <4>1, <3>1, <1>4
    <3>2. CASE i = n + 1
      <4>1. disk_job.block + disk_job.at = job.block + job.at + i - 1
        <5>1. disk_job.block = job.block /\ disk_job.at = job.at + n
              /\ job.block \in Nat /\ job.at \in Nat
          BY <1>2, <1>6 DEF Jobs
        <5> QED  BY <5>1, <3>2, <1>4
      <4>2. disk_outbound'[i] = block
        BY <3>2, <1>4
      <4> QED  BY <4>1, <4>2, <1>6 DEF block
    <3> QED  BY <3>1, <3>2, <1>4
  <2> QED  BY <2>1, <2>2, <2>3 DEF PipesFit
<1>12. Traffic'
  <2>1. DiskState' \in DiskStates
    BY <1>1, <1>2, <1>8, <1>9 DEF DiskState, DiskStates
  <2>2. Leads(DiskState', disk_inbound', DiskState')
    BY <2>1, <1>7, NothingLeads
  <2>3. metrics'.reads + Pending(disk', "get") = issued.reads
        /\ metrics'.writes + Pending(disk', "put") = issued.writes
    BY <1>1, <1>2, <1>6, <1>9, NextBlockState DEF Pending, Counted, Totals
  <2>4. ASSUME db = "receiving"
        PROVE  IF job.at + (n + 1) < job.len
               THEN disk' = "get" /\ disk_job' = [job EXCEPT !.at = @ + (n + 1)] ELSE disk' = "command"
    <3>1. disk_job' = [job EXCEPT !.at = @ + (n + 1)] /\ disk_job.at = job.at + n
          /\ disk_job.len = job.len
      <4>1. disk_job = [job EXCEPT !.at = @ + n] /\ disk_job' = [disk_job EXCEPT !.at = @ + 1]
        BY <2>4, <1>1, <1>2, <1>6, NextBlockState
      <4>2. job \in Jobs /\ n \in Nat
        BY <1>2, <1>4
      <4>3. /\ job.at \in Nat /\ (job.at + n) + 1 = job.at + (n + 1)
            /\ disk_job.at = job.at + n /\ disk_job.len = job.len
        BY <4>1, <4>2 DEF Jobs
      <4>4. disk_job' = [job EXCEPT !.at = (job.at + n) + 1]
        BY <4>1, <4>3
      <4> QED BY <4>3, <4>4
    <3> QED  BY <3>1, <1>1, <1>2, <1>4, <1>6, <2>4, NextBlockState, SMTT(20) DEF Jobs
  <2>5. InStep(DiskState)'
    <3>1. /\ anon_pages' = written' /\ metrics'.reads + Pending(disk', "get") = issued'.reads
          /\ metrics'.writes + Pending(disk', "put") = issued'.writes
          /\ db' \notin Early \cup Late \cup {"sending"}
      BY <2>3, <1>1, <1>6, <1>7
    <3>2. db' = "receiving" =>
            IF job'.op = "get" /\ job'.at + Len(disk_outbound') < job'.len
            THEN disk' = "get" /\ disk_job' = [job' EXCEPT !.at = @ + Len(disk_outbound')]
            ELSE disk' = "command"
      BY <2>4, <1>4, <1>6, <1>7
    <3> QED  BY <3>1, <3>2 DEF InStep, DiskState
  <2> QED  BY <2>1, <2>2, <2>5 DEF Traffic
<1> QED  BY <1>10, <1>11, <1>12

LEMMA TellBlockSizeStep ==
  ASSUME Inv, TellBlockSize, UNCHANGED dbVars
  PROVE  Types' /\ PipesFit' /\ (DiskUp => Traffic)'
<1>1. /\ disk = "command" /\ TakeItem /\ Head(disk_inbound).op = "block-size"
      /\ disk_outbound' = Append(disk_outbound, "block-size")
      /\ UNCHANGED diskVars
  BY DEF TellBlockSize, Reply
<1>2. /\ disk_outbound' \in Seq(Nat \cup {"block-size"}) /\ Len(disk_outbound) \in Nat
      /\ Len(disk_outbound') = Len(disk_outbound) + 1
  BY <1>1 DEF Inv, Types
\* Only a database that waits for it, or is gone, has asked for the block size.
<1>3. /\ db \notin Early \cup Late \cup {"sending"}
      /\ db = "receiving" => job.op = "block-size"
  <2>1. Len(disk_inbound) \in Nat /\ Len(disk_inbound) >= 1 /\ disk_inbound[1].op = "block-size"
    BY <1>1, TailItems
  <2> QED  BY <2>1, <1>1 DEF Inv, PipesFit, NothingSent, SizeKnown, Awaited, TakeItem
<1>4. Types'
  BY <1>1, <1>2, TailItems DEF Inv, Types, diskVars, dbVars
<1>5. PipesFit'
  <2>1. NothingSent' /\ NothingAsked' /\ SizeKnown' /\ Sending' /\ GetsSeePuts'
    BY <1>3 DEF NothingSent, NothingAsked, SizeKnown, Sending, GetsSeePuts, dbVars
  <2>2. Awaited'
    <3> SUFFICES ASSUME db = "receiving"
                 PROVE  job.len = 1 /\ job.at + Len(disk_outbound') <= 1
                        /\ job.at + Len(disk_inbound') + Len(disk_outbound') <= 1
      BY <1>3 DEF Awaited, dbVars
    <3>1. job.len = 1 /\ job.at + Len(disk_inbound) + Len(disk_outbound) <= 1 /\ job.at \in Nat
      BY <1>3 DEF Inv, PipesFit, Awaited, Types, Jobs
    <3>2. Len(disk_inbound) \in Nat /\ Len(disk_inbound) >= 1
          /\ Len(disk_inbound') = Len(disk_inbound) - 1
      BY <1>1, TailItems
    <3> QED  BY <3>1, <3>2, <1>2
  <2> QED  BY <2>1, <2>2 DEF PipesFit
<1>6. Traffic'
  <2>1. PICK t \in DiskStates : Leads(DiskState, disk_inbound, t) /\ InStep(t)
    BY <1>1 DEF Inv, DiskUp, Traffic
  <2>2. Taken(DiskState, Head(disk_inbound)) = DiskState'
    BY <1>1 DEF Taken, DiskState, diskVars
  <2>3. Leads(DiskState', disk_inbound', t)
    BY <2>1, <2>2, <1>1, LeadsTail DEF Inv, Types, TakeItem
  <2>4. InStep(t)'
    BY <2>1, <1>3 DEF InStep, dbVars
  <2> QED  BY <2>1, <2>3, <2>4 DEF Traffic
<1> QED  BY <1>4, <1>5, <1>6

\* The end of the disk process, well or not.
LEMMA DiskReturnsStep ==
  ASSUME Inv, NEW outcome \in {"done", "failed"}, DiskReturns(outcome),
         UNCHANGED <<dbVars, disk_inbound, disk_outbound>>
  PROVE  Types' /\ PipesFit' /\ (DiskUp => Traffic)'
<1>1. Types'
  BY DEF Inv, Types, DiskReturns, dbVars
<1>2. PipesFit'
  BY DEF Inv, PipesFit, NothingSent, NothingAsked, SizeKnown, Awaited, Sending, GetsSeePuts, dbVars
<1> QED  BY <1>1, <1>2 DEF DiskReturns, DiskUp

\* A disk is done between two commands, with the last one counted.
LEMMA EndOfCommandsCounts ==
  ASSUME Inv, EndOfCommands, Runs, UNCHANGED <<dbVars, monitorVars>>
  PROVE  CountsFinal'
<1>1. disk = "command" /\ disk_inbound = << >> /\ ~IsOpen(Writer("disk_inbound"))
      /\ disk' = "done" /\ UNCHANGED metrics
  BY DEF EndOfCommands, DiskReturns
<1>2. PICK t \in DiskStates : Leads(DiskState, disk_inbound, t) /\ InStep(t)
  BY <1>1 DEF Inv, DiskUp, Traffic
<1>3. DiskState \in DiskStates
  BY <1>1 DEF Inv, Types, DiskState, DiskStates
<1>4. t = DiskState
  BY <1>1, <1>2, <1>3, NothingLeads
<1>5. metrics = issued
  BY <1>1, <1>2, <1>4 DEF InStep, DiskState, Pending, Inv, Types, Totals
<1>6. ~(DbUp /\ DbWired)
  <2>1. ASSUME DbWired PROVE Has(db_fds, Writer("disk_inbound"))
    <3>1. 2 \in DOMAIN DbEnds /\ DbEnds[2] = Writer("disk_inbound")
      BY DEF DbEnds
    <3> QED  BY <2>1, <3>1 DEF DbWired, HasAt, Has
  <2> QED  BY <2>1, <1>1 DEF IsOpen
<1>7. (DbUp /\ DbWired)' <=> DbUp /\ DbWired
  BY DEF DbUp, DbWired, HasAt, Runs, setupVars, dbVars
<1> QED  BY <1>1, <1>5, <1>6, <1>7 DEF CountsFinal, Inv, Runs, setupVars, dbVars, monitorVars

-----------------------------------------------------------------------------
(* The processes *)

LEMMA MonitorStep ==
  ASSUME Inv, Monitor
  PROVE  Inv'
<1>1. UNCHANGED trafficVars /\ db' = db
  BY DEF Monitor, SendQuery, SendLimit, Send, ReadCommand, ReadRow, ReadEnd, Receive, EndOfOutput,
         WaitDb, WaitDisk, dbVars, diskVars, pipeVars, trafficVars
<1>2. UNCHANGED metrics_csv \/ (disk = "done" /\ metrics_csv' = metrics)
  BY DEF Monitor, SendQuery, SendLimit, Send, ReadCommand, ReadRow, ReadEnd, Receive, EndOfOutput,
         WaitDb, WaitDisk
<1>3. (DbUp /\ DbWired)' <=> DbUp /\ DbWired
  BY <1>1 DEF DbUp, DbWired, HasAt, Monitor, Runs, setupVars
<1>4. CountsFinal'
  BY <1>1, <1>2, <1>3 DEF Inv, CountsFinal, Monitor, Runs, setupVars, trafficVars, diskVars
<1> QED  BY <1>1, <1>4, PipesUntouched DEF Inv

LEMMA DatabaseStep ==
  ASSUME Inv, Database
  PROVE  Inv'
<1>1. DbWired /\ UNCHANGED <<killed, diskVars, monitorVars>>
  BY DEF Database
<1>2. CASE ReadLimit
  BY <1>1, <1>2, ReadLimitStep, DbStepCounts DEF Inv, ReadLimit, DbUp
<1>3. CASE ReceiveBlock
  BY <1>1, <1>3, ReceiveBlockStep, DbStepCounts DEF Inv, ReceiveBlock, DbUp
<1>4. CASE SendBlock
  BY <1>1, <1>4, SendBlockStep, DbStepCounts DEF Inv, SendBlock, DbUp
<1>5. ASSUME NEW e \in Extents, Get(e[1], e[2]) PROVE Inv'
  BY <1>1, <1>5, SendCommandStep, DbStepCounts DEF Inv, Get, SendCommand, DbUp
<1>6. ASSUME NEW e \in Extents, Put(e[1], e[2]) PROVE Inv'
  BY <1>1, <1>6, SendCommandStep, DbStepCounts DEF Inv, Put, SendCommand, DbUp
<1>7. CASE ReadQuery \/ PrintQuery \/ AskLimit \/ StartOutput \/ OutputBatch \/ EndOutput
  <2>1. \/ db \in Early /\ db' \in Early
        \/ db \in Late /\ db' \in Late
    BY <1>7 DEF ReadQuery, PrintQuery, PrintsTo, AskLimit, StartOutput, OutputBatch, EndOutput, Tell,
                Early, Late
  <2>2. UNCHANGED trafficVars
    BY <1>1, <1>7 DEF ReadQuery, PrintQuery, PrintsTo, AskLimit, StartOutput, OutputBatch, EndOutput,
                      Tell, KeepsEngine, trafficVars
  <2>3. DbUp
    BY <2>1 DEF DbUp, Early, Late
  <2> QED  BY <2>1, <2>2, <2>3, <1>1, PipesUntouched, DbStepCounts DEF Inv
<1>8. CASE PrintMetrics \/ Killed \/ LosesDisk
  <2>1. DbUp /\ db' = "exited" /\ UNCHANGED trafficVars
    BY <1>1, <1>8 DEF PrintMetrics, PrintsTo, Killed, Exits, LosesDisk, KeepsEngine, DbUp,
                      pipeVars, trafficVars
  <2> QED  BY <2>1, <1>1, PipesUntouched, DbStepCounts DEF Inv
<1> QED  BY <1>2, <1>3, <1>4, <1>5, <1>6, <1>7, <1>8 DEF Database

LEMMA DiskStep ==
  ASSUME Inv, Disk
  PROVE  Inv'
<1>1. Runs /\ UNCHANGED <<monitorVars, dbVars>>
  BY DEF Disk
<1>2. DiskUp => metrics_csv' = NoReport
  BY <1>1 DEF Inv, CountsFinal, DiskUp, monitorVars
<1>3. CASE StartCommand \/ TellBlockSize \/ PutBlock \/ GetBlock
  <2>1. DiskUp /\ disk' # "done"
    <3>1. CASE StartCommand
      BY <3>1 DEF StartCommand, DiskUp
    <3>2. CASE TellBlockSize
      BY <3>2 DEF TellBlockSize, DiskUp, diskVars
    <3>3. CASE PutBlock
      BY <3>3 DEF PutBlock, NextBlock, DiskUp
    <3>4. CASE GetBlock
      BY <3>4 DEF GetBlock, NextBlock, DiskUp
    <3> QED  BY <1>3, <3>1, <3>2, <3>3, <3>4
  <2>2. CountsFinal'
    BY <2>1, <1>2 DEF CountsFinal
  <2> QED  BY <1>1, <1>3, <2>2, StartCommandStep, TellBlockSizeStep, PutBlockStep, GetBlockStep DEF Inv
<1>4. CASE EndOfCommands
  <2>1. Types' /\ PipesFit' /\ (DiskUp => Traffic)'
    BY <1>1, <1>4, DiskReturnsStep DEF EndOfCommands
  <2> QED  BY <2>1, <1>1, <1>4, EndOfCommandsCounts DEF Inv
<1>5. CASE PutCutShort \/ GetFails
  <2>1. DiskUp /\ DiskReturns("failed") /\ UNCHANGED <<disk_inbound, disk_outbound>>
    BY <1>5 DEF PutCutShort, GetFails, DiskUp
  <2>2. CountsFinal'
    BY <2>1, <1>2 DEF CountsFinal, DiskReturns
  <2> QED  BY <1>1, <2>1, <2>2, DiskReturnsStep DEF Inv
<1> QED  BY <1>3, <1>4, <1>5 DEF Disk

\* Before the processes run, and where nothing moves.
LEMMA OtherSteps ==
  ASSUME Inv, Start \/ Crashes \/ UNCHANGED vars
  PROVE  Inv'
<1>1. CASE Start
  <2>1. setup # "run" /\ UNCHANGED runVars
    BY <1>1 DEF Start, SetUp, OpenNextPipe, SpawnDisk, SpawnDb, PreExec, ExecDb, Pipes
  <2>2. UNCHANGED trafficVars /\ db' = db /\ metrics_csv' = metrics_csv
    BY <2>1 DEF runVars, trafficVars, dbVars, diskVars, pipeVars, monitorVars
  <2>3. disk # "done" /\ metrics_csv = NoReport
    BY <2>1 DEF Inv, CountsFinal
  <2>4. CountsFinal'
    BY <2>2, <2>3 DEF CountsFinal, trafficVars, diskVars
  <2> QED  BY <2>2, <2>4, PipesUntouched DEF Inv
<1>2. CASE Crashes
  <2>1. UNCHANGED trafficVars /\ db' = "exited" /\ metrics_csv' = metrics_csv /\ setup' = setup
    BY <1>2 DEF Crashes, Exits, Runs, KeepsEngine, trafficVars, pipeVars, monitorVars, setupVars
  <2>2. CountsFinal'
    BY <2>1 DEF Inv, CountsFinal, DbUp, trafficVars, diskVars
  <2> QED  BY <2>1, <2>2, PipesUntouched DEF Inv
<1>3. CASE UNCHANGED vars
  <2>1. UNCHANGED trafficVars /\ db' = db /\ metrics_csv' = metrics_csv /\ setup' = setup
        /\ db_fds' = db_fds
    BY <1>3 DEF vars, setupVars, runVars, trafficVars, dbVars, diskVars, pipeVars, monitorVars
  <2>2. CountsFinal'
    BY <2>1 DEF Inv, CountsFinal, DbUp, DbWired, HasAt, trafficVars, diskVars
  <2> QED  BY <2>1, <2>2, PipesUntouched DEF Inv
<1> QED  BY <1>1, <1>2, <1>3

\* The invariant holds in every run.
THEOREM TrafficInvariant == Spec => []Inv
<1>1. Inv /\ [Next]_vars => Inv'
  BY MonitorStep, DatabaseStep, DiskStep, OtherSteps DEF Next, Reported
<1> QED  BY <1>1, InvInit, PTL DEF Spec

\* A put is never acknowledged, and whatever the sizes of the pipes, of the blocks
\* and of the commands, no get is answered with what a later put replaced.
THEOREM GetsAlwaysSeePuts == Spec => []GetsSeePuts
<1>1. Inv => GetsSeePuts
  BY DEF Inv, PipesFit
<1> QED  BY <1>1, TrafficInvariant, PTL

\* The row of the CSV counts every command that was sent, whether the database
\* finished, crashed or was killed with commands still in the pipe.
THEOREM MetricsAlwaysComplete == Spec => []MetricsComplete
<1>1. Inv => MetricsComplete
  BY DEF Inv, CountsFinal, MetricsComplete
<1> QED  BY <1>1, TrafficInvariant, PTL

-----------------------------------------------------------------------------
(* The answer *)

\* The lines the database has for the monitor, from the first on.
Line(p) ==
  CASE p = 1 -> "get_memory_limit"
    [] p = 2 -> "validate"
    [] p > 2 /\ p <= Len(answer) + 2 -> answer[p - 2]
    [] OTHER -> "!"

Texts == {"get_memory_limit", "validate", "!"} \cup {answer[i] : i \in DOMAIN answer}

\* p lines are read.
LinesRead(p) ==
  /\ monitor = "query" => p = 0
  /\ monitor = "command" => p \in {0, 1}
  /\ monitor = "limit" => p = 1
  /\ monitor = "validate" => p = Len(db_output_rows) + 2

LinesSent(p) ==
  /\ p + Len(db_to_monitor) <= Len(answer) + 3
  /\ \A i \in 1..Len(db_to_monitor) : db_to_monitor[i] = Line(p + i)

\* told lines are sent.
Asking == db \in {"ask_limit", "validate"} \/ (db = "receiving" /\ job.op = "block-size")
Answering == db \in {"running", "sending"} \/ (db = "receiving" /\ job.op # "block-size")

DbAt(told) ==
  /\ db \in {"start", "printing"} => told = 0 /\ rest = answer
  /\ Asking => told = 1 /\ rest = answer
  /\ Answering =>
       /\ told >= 2 /\ told + Len(rest) = Len(answer) + 2
       /\ \A j \in 1..Len(rest) : rest[j] = answer[told - 2 + j]

Listening == monitor \in {"query", "command", "limit", "validate"}

Dialogue ==
  Listening =>
    \E p \in Nat : LinesRead(p) /\ LinesSent(p) /\ DbAt(p + Len(db_to_monitor))

RowsRead ==
  /\ monitor \in {"query", "command", "limit"} => db_output_rows = << >>
  /\ monitor = "validate" =>
       /\ Len(db_output_rows) <= Len(answer)
       /\ \A j \in 1..Len(db_output_rows) : db_output_rows[j] = answer[j]
       /\ ~sort_before_check =>
            /\ Len(db_output_rows) <= Len(Expected)
            /\ \A j \in 1..Len(db_output_rows) : db_output_rows[j] = Expected[j]

AnswerRight ==
  IF sort_before_check THEN BagOf(answer) = BagOf(Expected) ELSE answer = Expected

Outcome ==
  /\ db_result = "ok" => AnswerRight /\ ~Listening
  /\ report = "success" => db_result = "ok" /\ monitor = "done"

TextTypes ==
  /\ answer \in Answers /\ sort_before_check \in BOOLEAN /\ job \in Jobs
  /\ {rest, db_output_rows, db_to_monitor} \subseteq Seq(Texts)

AnswerInv == TextTypes /\ Dialogue /\ RowsRead /\ Outcome

LEMMA AnswersAreRows ==
  ASSUME NEW rows \in Answers \cup {Expected}
  PROVE  /\ rows \in Seq({rows[i] : i \in DOMAIN rows}) /\ Len(rows) \in Nat
         /\ DOMAIN rows = 1..Len(rows) /\ \A i \in 1..Len(rows) : rows[i] # "!"
<1> DEFINE texts == {rows[i] : i \in DOMAIN rows}
<1>1. rows \in Seq(texts) /\ "!" \notin texts
  BY RowsAssumption
<1>2. Len(rows) \in Nat /\ DOMAIN rows = 1..Len(rows)
  BY <1>1
<1> QED  BY <1>1, <1>2

LEMMA AnswerInit == Init => AnswerInv
<1> SUFFICES ASSUME Init PROVE AnswerInv
  OBVIOUS
<1>1. answer \in Answers /\ rest = answer /\ db_to_monitor = << >> /\ db_output_rows = << >>
      /\ db = "start" /\ monitor = "query" /\ db_result = "none" /\ report = "none"
  BY DEF Init
<1>2. answer \in Seq({answer[i] : i \in DOMAIN answer})
  BY <1>1, AnswersAreRows
<1>3. answer \in Seq(Texts) /\ << >> \in Seq(Texts) /\ Len(answer) \in Nat
  BY <1>2 DEF Texts
<1>4. TextTypes
  BY <1>1, <1>3 DEF TextTypes, Init, NoBlocks, Jobs
<1>5. LinesRead(0) /\ LinesSent(0) /\ DbAt(0 + Len(db_to_monitor))
  BY <1>1, <1>3 DEF LinesRead, LinesSent, DbAt, Asking, Answering
<1>6. RowsRead /\ Outcome
  BY <1>1 DEF RowsRead, Outcome
<1> QED  BY <1>4, <1>5, <1>6 DEF AnswerInv, Dialogue

-----------------------------------------------------------------------------
(* The steps of the monitor *)

\* What a step of the monitor leaves of the answer.
LEMMA MonitorKeeps ==
  ASSUME AnswerInv, UNCHANGED <<answer, rest, job, sort_before_check>>,
         db_output_rows' \in Seq(Texts), db_to_monitor' \in Seq(Texts)
  PROVE  TextTypes'
BY DEF AnswerInv, TextTypes, Texts

LEMMA HandleDbReturnsAnswer ==
  ASSUME AnswerInv, Listening, NEW outcome \in {"mismatch", "no_answer"}, HandleDbReturns(outcome),
         UNCHANGED <<answer, rest, job, sort_before_check, db_output_rows, report>>,
         db_to_monitor' \in Seq(Texts)
  PROVE  AnswerInv'
<1>1. TextTypes'
  BY MonitorKeeps DEF AnswerInv, TextTypes
<1>2. monitor' = "wait_db" /\ db_result' # "ok" /\ report # "success"
  BY DEF HandleDbReturns, AnswerInv, Outcome, Listening
<1> QED  BY <1>1, <1>2 DEF AnswerInv, Dialogue, RowsRead, Outcome, Listening

LEMMA SendAnswer ==
  ASSUME AnswerInv, SendQuery \/ SendLimit
  PROVE  AnswerInv'
<1>1. /\ Listening
      /\ UNCHANGED <<answer, rest, job, db, sort_before_check, db_output_rows, report, db_to_monitor>>
  BY DEF SendQuery, SendLimit, Send, dbVars, Listening
<1>2. CASE HandleDbReturns("no_answer")
  BY <1>1, <1>2, HandleDbReturnsAnswer DEF AnswerInv, TextTypes
<1>3. CASE monitor \in {"query", "limit"} /\ monitor' = "command" /\ UNCHANGED db_result
  <2>1. TextTypes'
    BY <1>1, MonitorKeeps DEF AnswerInv, TextTypes
  <2>2. PICK p \in Nat : LinesRead(p) /\ LinesSent(p) /\ DbAt(p + Len(db_to_monitor))
    BY <1>1 DEF AnswerInv, Dialogue
  <2>3. LinesRead(p)' /\ LinesSent(p)' /\ DbAt(p + Len(db_to_monitor))'
    BY <1>1, <1>3, <2>2 DEF LinesRead, LinesSent, Line, DbAt, Asking, Answering
  <2>4. RowsRead' /\ Outcome'
    BY <1>1, <1>3 DEF AnswerInv, RowsRead, Outcome, AnswerRight, Listening
  <2> QED  BY <2>1, <2>3, <2>4 DEF AnswerInv, Dialogue
<1> QED  BY <1>2, <1>3 DEF SendQuery, SendLimit, Send

\* The first line of the pipe is the next one, and the others follow it.
LEMMA ReceiveLine ==
  ASSUME AnswerInv, Receive, NEW p \in Nat, LinesSent(p), DbAt(p + Len(db_to_monitor))
  PROVE  /\ db_to_monitor' \in Seq(Texts) /\ Head(db_to_monitor) \in Texts
         /\ Head(db_to_monitor) = Line(p + 1) /\ p + 1 <= Len(answer) + 3
         /\ LinesSent(p + 1)' /\ DbAt(p + 1 + Len(db_to_monitor))'
<1> DEFINE n == Len(db_to_monitor)
<1>1. /\ db_to_monitor \in Seq(Texts) /\ n \in Nat /\ n >= 1
      /\ db_to_monitor' = Tail(db_to_monitor) /\ UNCHANGED <<answer, rest, job, db>>
  BY DEF Receive, AnswerInv, TextTypes, dbVars
<1>2. /\ Tail(db_to_monitor) \in Seq(Texts) /\ Len(Tail(db_to_monitor)) = n - 1
      /\ \A i \in 1..(n - 1) : Tail(db_to_monitor)[i] = db_to_monitor[i + 1]
      /\ Head(db_to_monitor) = db_to_monitor[1] /\ Head(db_to_monitor) \in Texts
  BY <1>1
<1>3. Len(answer) \in Nat
  BY AnswersAreRows DEF AnswerInv, TextTypes
<1>4. p + 1 + Len(db_to_monitor') = p + n
  BY <1>1, <1>2
<1>5. LinesSent(p + 1)'
  <2>1. p + 1 + Len(db_to_monitor') <= Len(answer) + 3
    BY <1>4 DEF LinesSent
  <2>2. ASSUME NEW i \in 1..(n - 1) PROVE db_to_monitor'[i] = Line(p + 1 + i)
    <3>1. i + 1 \in 1..n /\ p + (i + 1) = p + 1 + i
      BY <1>1
    <3>2. db_to_monitor[i + 1] = Line(p + (i + 1))
      BY <3>1 DEF LinesSent
    <3> QED  BY <3>1, <3>2, <1>1, <1>2
  <2>3. \A i : Line(p + 1 + i)' = Line(p + 1 + i)
    BY <1>1 DEF Line
  <2> QED  BY <2>1, <2>2, <2>3, <1>1, <1>2 DEF LinesSent
<1>6. DbAt(p + 1 + Len(db_to_monitor))'
  BY <1>1, <1>4 DEF DbAt, Asking, Answering
<1> QED  BY <1>1, <1>2, <1>3, <1>5, <1>6 DEF LinesSent

LEMMA ReadCommandAnswer ==
  ASSUME AnswerInv, ReadCommand
  PROVE  AnswerInv'
<1>1. /\ monitor = "command" /\ Receive
      /\ monitor' = IF Head(db_to_monitor) = "get_memory_limit" THEN "limit" ELSE "validate"
      /\ UNCHANGED <<answer, rest, job, sort_before_check, db_output_rows, db_result, report>>
  BY DEF ReadCommand, Receive, dbVars
<1>2. PICK p \in Nat : LinesRead(p) /\ LinesSent(p) /\ DbAt(p + Len(db_to_monitor))
  BY <1>1 DEF AnswerInv, Dialogue, Listening
<1>3. /\ db_to_monitor' \in Seq(Texts) /\ Head(db_to_monitor) = Line(p + 1)
      /\ LinesSent(p + 1)' /\ DbAt(p + 1 + Len(db_to_monitor))'
  BY <1>1, <1>2, ReceiveLine
<1>4. p \in {0, 1} /\ db_output_rows = << >>
  BY <1>1, <1>2 DEF LinesRead, AnswerInv, RowsRead
<1>5. monitor' = IF p = 0 THEN "limit" ELSE "validate"
  BY <1>1, <1>3, <1>4 DEF Line
<1>6. LinesRead(p + 1)'
  BY <1>1, <1>4, <1>5 DEF LinesRead
<1>7. TextTypes'
  BY <1>1, <1>3, MonitorKeeps DEF AnswerInv, TextTypes
<1>8. Len(answer) \in Nat /\ Len(Expected) \in Nat
  BY AnswersAreRows DEF AnswerInv, TextTypes
<1>9. RowsRead' /\ Outcome'
  BY <1>1, <1>4, <1>5, <1>8 DEF AnswerInv, RowsRead, Outcome, AnswerRight, Listening
<1> QED  BY <1>3, <1>6, <1>7, <1>9 DEF AnswerInv, Dialogue

LEMMA ReadRowAnswer ==
  ASSUME AnswerInv, ReadRow
  PROVE  AnswerInv'
<1> DEFINE row == Head(db_to_monitor)
           n == Len(db_output_rows)
<1>1. /\ monitor = "validate" /\ Receive /\ row # "!"
      /\ UNCHANGED <<answer, rest, job, sort_before_check, report>>
  BY DEF ReadRow, Receive, dbVars
<1>2. PICK p \in Nat : LinesRead(p) /\ LinesSent(p) /\ DbAt(p + Len(db_to_monitor))
  BY <1>1 DEF AnswerInv, Dialogue, Listening
<1>3. /\ db_to_monitor' \in Seq(Texts) /\ row \in Texts /\ row = Line(p + 1)
      /\ LinesSent(p + 1)' /\ DbAt(p + 1 + Len(db_to_monitor))'
  BY <1>1, <1>2, ReceiveLine
<1>4. CASE ~RowAccepted(row)
  BY <1>1, <1>3, <1>4, HandleDbReturnsAnswer DEF ReadRow, Listening
<1>5. CASE RowAccepted(row)
  <2>1. db_output_rows' = Append(db_output_rows, row) /\ UNCHANGED <<monitor, db_result>>
    BY <1>5 DEF ReadRow
  <2>2. db_output_rows \in Seq(Texts) /\ n \in Nat /\ p = n + 2 /\ Len(answer) \in Nat
        /\ Len(Expected) \in Nat
    BY <1>1, <1>2, AnswersAreRows DEF AnswerInv, TextTypes, LinesRead
  <2>3. /\ db_output_rows' \in Seq(Texts) /\ Len(db_output_rows') = n + 1
        /\ \A j \in 1..(n + 1) : db_output_rows'[j] = IF j <= n THEN db_output_rows[j] ELSE row
    BY <2>1, <2>2, <1>3
  <2>4. n + 1 <= Len(answer) /\ row = answer[n + 1]
    BY <2>2, <1>1, <1>3 DEF Line
  <2>5. TextTypes'
    BY <2>3, <1>1, <1>3, MonitorKeeps
  <2>6. LinesRead(p + 1)'
    BY <2>1, <2>2, <2>3, <1>1 DEF LinesRead
  <2>7. Dialogue'
    BY <2>6, <1>3 DEF Dialogue
  <2>8. RowsRead'
    <3>1. /\ \A j \in 1..n : db_output_rows[j] = answer[j]
          /\ ~sort_before_check => \A j \in 1..n : db_output_rows[j] = Expected[j]
      BY <1>1 DEF AnswerInv, RowsRead
    <3>2. ~sort_before_check => n + 1 <= Len(Expected) /\ row = Expected[n + 1]
      BY <1>5, <2>2 DEF RowAccepted
    <3>3. \A j \in 1..(n + 1) : db_output_rows'[j] = answer[j]
      BY <3>1, <2>2, <2>3, <2>4
    <3>4. ~sort_before_check => \A j \in 1..(n + 1) : db_output_rows'[j] = Expected[j]
      BY <3>1, <3>2, <2>2, <2>3
    <3> QED  BY <3>2, <3>3, <3>4, <2>1, <2>3, <2>4, <1>1 DEF RowsRead
  <2>9. Outcome'
    BY <2>1, <1>1 DEF AnswerInv, Outcome, AnswerRight, Listening
  <2> QED  BY <2>5, <2>7, <2>8, <2>9 DEF AnswerInv
<1> QED  BY <1>4, <1>5

LEMMA ReadEndAnswer ==
  ASSUME AnswerInv, ReadEnd
  PROVE  AnswerInv'
<1> DEFINE n == Len(db_output_rows)
<1>1. /\ monitor = "validate" /\ Receive /\ Head(db_to_monitor) = "!"
      /\ HandleDbReturns(IF EndAccepted THEN "ok" ELSE "mismatch")
      /\ UNCHANGED <<answer, rest, job, sort_before_check, db_output_rows, report>>
  BY DEF ReadEnd, Receive, dbVars
<1>2. PICK p \in Nat : LinesRead(p) /\ LinesSent(p) /\ DbAt(p + Len(db_to_monitor))
  BY <1>1 DEF AnswerInv, Dialogue, Listening
<1>3. db_to_monitor' \in Seq(Texts) /\ Line(p + 1) = "!" /\ p + 1 <= Len(answer) + 3
  BY <1>1, <1>2, ReceiveLine
<1>4. CASE ~EndAccepted
  BY <1>1, <1>3, <1>4, HandleDbReturnsAnswer DEF Listening
<1>5. CASE EndAccepted
  <2>1. monitor' = "wait_db" /\ db_result' = "ok"
    BY <1>1, <1>5 DEF HandleDbReturns
  <2>2. /\ db_output_rows \in Seq(Texts) /\ n \in Nat /\ p = n + 2
        /\ Len(answer) \in Nat /\ answer \in Seq({answer[i] : i \in DOMAIN answer})
        /\ \A i \in 1..Len(answer) : answer[i] # "!"
        /\ Len(Expected) \in Nat /\ Expected \in Seq({Expected[i] : i \in DOMAIN Expected})
    <3>1. db_output_rows \in Seq(Texts) /\ n \in Nat /\ p = n + 2
      BY <1>1, <1>2 DEF AnswerInv, TextTypes, LinesRead
    <3>2. answer \in Answers \cup {Expected} /\ Expected \in Answers \cup {Expected}
      BY DEF AnswerInv, TextTypes
    <3> QED  BY <3>1, <3>2, AnswersAreRows
  <2>3. n = Len(answer)
    <3>1. n <= Len(answer)
      BY <1>1 DEF AnswerInv, RowsRead
    <3>2. ASSUME n + 1 <= Len(answer) PROVE FALSE
      <4>1. Line(p + 1) = answer[n + 1]
        BY <3>2, <2>2 DEF Line
      <4> QED  BY <4>1, <3>2, <2>2, <1>3
    <3> QED  BY <3>1, <3>2, <2>2
  <2>4. db_output_rows = answer
    BY <2>2, <2>3, <1>1 DEF AnswerInv, RowsRead
  <2>5. n = Len(Expected) /\ BagOf(db_output_rows) = BagOf(Expected)
    BY <1>5 DEF EndAccepted
  <2>6. ~sort_before_check => db_output_rows = Expected
    BY <2>2, <2>5, <1>1, SMTT(20) DEF AnswerInv, RowsRead
  <2>7. AnswerRight
    BY <2>4, <2>5, <2>6 DEF AnswerRight
  <2>8. AnswerRight' /\ report # "success"
    BY <2>7, <1>1 DEF AnswerRight, AnswerInv, Outcome
  <2>9. TextTypes'
    BY <1>1, <1>3, MonitorKeeps DEF AnswerInv, TextTypes
  <2> QED  BY <2>1, <2>8, <2>9, <1>1 DEF AnswerInv, Dialogue, RowsRead, Outcome, Listening
<1> QED  BY <1>4, <1>5

LEMMA WaitAnswer ==
  ASSUME AnswerInv, WaitDb \/ WaitDisk
  PROVE  AnswerInv'
<1>1. /\ monitor \in {"wait_db", "wait_disk"} /\ monitor' \in {"wait_disk", "done"}
      /\ UNCHANGED <<answer, rest, job, sort_before_check, db_output_rows, db_to_monitor, db_result>>
  BY DEF WaitDb, WaitDisk, dbVars, pipeVars
<1>2. report' = "success" => report = "success" \/ (db_result = "ok" /\ monitor' = "done")
  BY DEF WaitDb, WaitDisk
<1>3. TextTypes'
  BY <1>1, MonitorKeeps DEF AnswerInv, TextTypes
<1> QED  BY <1>1, <1>2, <1>3 DEF AnswerInv, Dialogue, RowsRead, Outcome, AnswerRight, Listening

LEMMA MonitorAnswer ==
  ASSUME AnswerInv, Monitor
  PROVE  AnswerInv'
<1>1. CASE EndOfOutput
  BY <1>1, HandleDbReturnsAnswer DEF EndOfOutput, Listening, dbVars, pipeVars, AnswerInv, TextTypes
<1> QED  BY <1>1, SendAnswer, ReadCommandAnswer, ReadRowAnswer, ReadEndAnswer, WaitAnswer DEF Monitor

-----------------------------------------------------------------------------
(* The steps of the database *)

answerVars == <<monitor, sort_before_check, db_output_rows, db_result, report, answer>>

\* A step that tells the monitor nothing.
LEMMA NothingTold ==
  ASSUME AnswerInv, UNCHANGED <<answerVars, rest, db_to_monitor>>, job' \in Jobs,
         (db \in {"start", "printing"})' => db \in {"start", "printing"},
         Asking' => Asking, Answering' => Answering
  PROVE  AnswerInv'
<1>1. TextTypes'
  BY DEF AnswerInv, TextTypes, Texts, answerVars
<1>2. RowsRead' /\ Outcome'
  BY DEF AnswerInv, RowsRead, Outcome, AnswerRight, Listening, answerVars
<1>3. ASSUME Listening' PROVE \E p \in Nat : (LinesRead(p) /\ LinesSent(p) /\ DbAt(p + Len(db_to_monitor)))'
  <2>1. PICK p \in Nat : LinesRead(p) /\ LinesSent(p) /\ DbAt(p + Len(db_to_monitor))
    BY <1>3 DEF AnswerInv, Dialogue, Listening, answerVars
  <2>2. LinesRead(p)' /\ LinesSent(p)'
    BY <2>1 DEF LinesRead, LinesSent, Line, answerVars
  <2>3. DbAt(p + Len(db_to_monitor))'
    BY <2>1 DEF DbAt, answerVars
  <2> QED  BY <2>2, <2>3
<1> QED  BY <1>1, <1>2, <1>3 DEF AnswerInv, Dialogue

\* A line is sent, the next one.
LEMMA LineTold ==
  ASSUME AnswerInv, UNCHANGED <<answerVars, job>>, rest' \in Seq(Texts),
         NEW line \in Texts, db_to_monitor' = Append(db_to_monitor, line),
         \A told \in Nat : DbAt(told) =>
           line = Line(told + 1) /\ told + 1 <= Len(answer) + 3 /\ DbAt(told + 1)'
  PROVE  AnswerInv'
<1>1. db_to_monitor \in Seq(Texts) /\ Len(db_to_monitor) \in Nat
  BY DEF AnswerInv, TextTypes
<1>2. /\ db_to_monitor' \in Seq(Texts) /\ Len(db_to_monitor') = Len(db_to_monitor) + 1
      /\ \A i \in 1..Len(db_to_monitor') :
           db_to_monitor'[i] = IF i <= Len(db_to_monitor) THEN db_to_monitor[i] ELSE line
  BY <1>1
<1>3. TextTypes'
  BY <1>2 DEF AnswerInv, TextTypes, Texts, answerVars
<1>4. RowsRead' /\ Outcome'
  BY DEF AnswerInv, RowsRead, Outcome, AnswerRight, Listening, answerVars
<1>5. ASSUME Listening' PROVE \E p \in Nat : (LinesRead(p) /\ LinesSent(p) /\ DbAt(p + Len(db_to_monitor)))'
  <2>1. PICK p \in Nat : LinesRead(p) /\ LinesSent(p) /\ DbAt(p + Len(db_to_monitor))
    BY <1>5 DEF AnswerInv, Dialogue, Listening, answerVars
  <2>2. PICK told \in Nat : told = p + Len(db_to_monitor) /\ told + 1 = p + Len(db_to_monitor')
    <3>1. p \in Nat
      BY <2>1
    <3>2. Len(db_to_monitor) \in Nat /\ Len(db_to_monitor') = Len(db_to_monitor) + 1
      BY <1>1, <1>2
    <3>3. p + Len(db_to_monitor) \in Nat
          /\ p + Len(db_to_monitor) + 1 = p + Len(db_to_monitor')
      BY <3>1, <3>2
    <3> QED  BY <3>3
  <2>3. line = Line(told + 1) /\ told + 1 <= Len(answer) + 3 /\ DbAt(told + 1)'
    BY <2>1, <2>2
  <2>4. \A i : Line(p + i)' = Line(p + i)
    BY DEF Line, answerVars
  <2>5. LinesSent(p)'
    <3>1. p + Len(db_to_monitor') <= Len(answer') + 3
      BY <2>2, <2>3 DEF answerVars
    <3>2. ASSUME NEW i \in 1..Len(db_to_monitor') PROVE db_to_monitor'[i] = Line(p + i)
      <4>1. CASE i <= Len(db_to_monitor)
        BY <4>1, <1>1, <1>2, <2>1 DEF LinesSent
      <4>2. CASE i = Len(db_to_monitor) + 1
        <5>1. db_to_monitor'[i] = line
          BY <4>2, <1>1, <1>2
        <5>2. p + i = told + 1
          BY <4>2, <1>2, <2>2
        <5> QED  BY <5>1, <5>2, <2>3
      <4> QED  BY <4>1, <4>2, <1>1, <1>2
    <3> QED  BY <3>1, <3>2, <2>4 DEF LinesSent
  <2>6. LinesRead(p)' /\ DbAt(p + Len(db_to_monitor))'
    BY <2>1, <2>2, <2>3 DEF LinesRead, answerVars
  <2> QED  BY <2>5, <2>6
<1> QED  BY <1>3, <1>4, <1>5 DEF AnswerInv, Dialogue

LEMMA ToldSteps ==
  ASSUME AnswerInv, AskLimit \/ StartOutput \/ OutputBatch \/ EndOutput, UNCHANGED monitorVars
  PROVE  AnswerInv'
<1>1. UNCHANGED <<answerVars, job>> /\ job \in Jobs
  BY DEF AskLimit, StartOutput, OutputBatch, EndOutput, Tell, answerVars, monitorVars,
         AnswerInv, TextTypes
<1>2. /\ rest \in Seq(Texts) /\ Len(rest) \in Nat /\ Len(answer) \in Nat
      /\ answer \in Seq({answer[i] : i \in DOMAIN answer})
  BY AnswersAreRows DEF AnswerInv, TextTypes
<1>3. CASE AskLimit
  <2>1. /\ db = "printing" /\ db' = "ask_limit" /\ rest' = rest
        /\ db_to_monitor' = Append(db_to_monitor, "get_memory_limit")
    BY <1>3 DEF AskLimit, Tell
  <2>2. ASSUME NEW told \in Nat, DbAt(told)
        PROVE  told + 1 = 1 /\ DbAt(1)'
    BY <2>1, <2>2, <1>1 DEF DbAt, Asking, Answering, answerVars
  <2> QED  BY <2>1, <2>2, <1>1, <1>2, LineTold DEF Line, Texts
<1>4. CASE StartOutput
  <2>1. /\ db = "validate" /\ db' = "running" /\ rest' = rest
        /\ db_to_monitor' = Append(db_to_monitor, "validate")
    BY <1>4 DEF StartOutput, Tell
  <2>2. ASSUME NEW told \in Nat, DbAt(told)
        PROVE  told + 1 = 2 /\ DbAt(2)'
    BY <2>1, <2>2, <1>1, <1>2 DEF DbAt, Asking, Answering, answerVars
  <2> QED  BY <2>1, <2>2, <1>1, <1>2, LineTold DEF Line, Texts
<1>5. CASE OutputBatch
  <2>1. /\ db = "running" /\ db' = "running" /\ rest # << >> /\ rest' = Tail(rest)
        /\ db_to_monitor' = Append(db_to_monitor, Head(rest))
    BY <1>5 DEF OutputBatch, Tell
  <2>2. /\ rest' \in Seq(Texts) /\ Len(rest') = Len(rest) - 1 /\ Len(rest) >= 1
        /\ \A j \in 1..(Len(rest) - 1) : rest'[j] = rest[j + 1]
        /\ Head(rest) = rest[1] /\ Head(rest) \in Texts
    BY <2>1, <1>2
  <2>3. ASSUME NEW told \in Nat, DbAt(told)
        PROVE  Head(rest) = Line(told + 1) /\ told + 1 <= Len(answer) + 3 /\ DbAt(told + 1)'
    <3>1. /\ told >= 2 /\ told + Len(rest) = Len(answer) + 2
          /\ \A j \in 1..Len(rest) : rest[j] = answer[told - 2 + j]
      BY <2>1, <2>3 DEF DbAt, Answering
    <3>2. Head(rest) = answer[told - 1]
      BY <3>1, <2>2, <1>2
    <3>3. Line(told + 1) = answer[told - 1]
      BY <3>1, <2>2, <1>2 DEF Line
    <3>4. told + 1 + Len(rest') = Len(answer) + 2
      <4>1. told \in Nat /\ told + Len(rest) = Len(answer) + 2 /\ Len(rest') = Len(rest) - 1
        BY <3>1, <2>2, <2>3
      <4> QED  BY <4>1, <1>2
    <3>5. ASSUME NEW j \in 1..Len(rest') PROVE rest'[j] = answer[told + 1 - 2 + j]
      <4>1. j + 1 \in 1..Len(rest) /\ rest'[j] = rest[j + 1]
        BY <2>2, <1>2
      <4>2. told - 2 + (j + 1) = told + 1 - 2 + j
        BY <2>2, <1>2
      <4> QED  BY <4>1, <4>2, <3>1
    <3>6. DbAt(told + 1)'
      BY <3>1, <3>4, <3>5, <2>1, <1>1 DEF DbAt, Asking, Answering, answerVars
    <3> QED  BY <3>1, <3>2, <3>3, <3>6, <2>2, <1>2
  <2> QED  BY <2>1, <2>2, <2>3, <1>1, LineTold
<1>6. CASE EndOutput
  <2>1. /\ db = "running" /\ db' = "metrics" /\ rest = << >> /\ rest' = rest
        /\ db_to_monitor' = Append(db_to_monitor, "!")
    BY <1>6 DEF EndOutput, Tell
  <2>2. ASSUME NEW told \in Nat, DbAt(told)
        PROVE  Line(told + 1) = "!" /\ told + 1 <= Len(answer) + 3 /\ DbAt(told + 1)'
    <3>1. told = Len(answer) + 2
      BY <2>1, <2>2, <1>2 DEF DbAt, Answering
    <3>2. Line(told + 1) = "!"
      BY <3>1, <1>2 DEF Line
    <3>3. DbAt(told + 1)'
      BY <2>1 DEF DbAt, Asking, Answering
    <3> QED  BY <3>1, <3>2, <3>3, <1>2
  <2> QED  BY <2>1, <2>2, <1>1, <1>2, LineTold DEF Texts
<1> QED  BY <1>3, <1>4, <1>5, <1>6

LEMMA DatabaseAnswer ==
  ASSUME AnswerInv, Database
  PROVE  AnswerInv'
<1>1. UNCHANGED monitorVars /\ job \in Jobs
  BY DEF Database, AnswerInv, TextTypes
<1>2. CASE ReadQuery \/ PrintQuery \/ PrintMetrics \/ Killed \/ LosesDisk
  BY <1>1, <1>2, NothingTold DEF ReadQuery, PrintQuery, PrintsTo, PrintMetrics, Killed, Exits, LosesDisk,
     KeepsEngine, pipeVars, monitorVars, answerVars, Asking, Answering
<1>3. CASE ReadLimit
  <2>1. /\ db = "ask_limit" /\ db' = "receiving" /\ job' = Command("block-size", 0, 1)
        /\ UNCHANGED <<answerVars, rest, db_to_monitor>>
    BY <1>1, <1>3 DEF ReadLimit, PrintsTo, KeepsEngine, answerVars, monitorVars
  <2>2. job' \in Jobs /\ job'.op = "block-size"
    BY <2>1 DEF Command, Jobs
  <2> QED  BY <2>1, <2>2, NothingTold DEF Asking, Answering
<1>4. CASE ReceiveBlock
  <2>1. /\ db = "receiving" /\ UNCHANGED <<answerVars, rest, db_to_monitor>>
        /\ job' = [job EXCEPT !.at = @ + 1]
        /\ db' = IF job'.at < job.len THEN "receiving"
                 ELSE IF job.op = "block-size" THEN "validate" ELSE "running"
    BY <1>1, <1>4 DEF ReceiveBlock, KeepsEngine, answerVars, monitorVars
  <2>2. job' \in Jobs /\ job'.op = job.op
    BY <2>1, <1>1 DEF Jobs
  <2> QED  BY <2>1, <2>2, NothingTold DEF Asking, Answering
<1>5. CASE SendBlock
  <2>1. /\ db = "sending" /\ db' \in {"sending", "running"} /\ job' = [job EXCEPT !.at = @ + 1]
        /\ UNCHANGED <<answerVars, rest, db_to_monitor>>
    BY <1>1, <1>5 DEF SendBlock, answerVars, monitorVars
  <2>2. job' \in Jobs
    BY <2>1, <1>1 DEF Jobs
  <2> QED  BY <2>1, <2>2, NothingTold DEF Asking, Answering
<1>6. ASSUME NEW e \in Extents, Get(e[1], e[2]) \/ Put(e[1], e[2]) PROVE AnswerInv'
  <2>1. PICK op \in {"get", "put"} :
          /\ db = "running" /\ db' = (IF op = "get" THEN "receiving" ELSE "sending")
          /\ job' = Command(op, e[1], e[2])
          /\ UNCHANGED <<answerVars, rest, db_to_monitor>>
    BY <1>1, <1>6 DEF Get, Put, SendCommand, answerVars, monitorVars
  <2>2. job' \in Jobs /\ job'.op = op
    BY <2>1, QueryRunAssumption DEF Command, Jobs, Extents
  <2> QED  BY <2>1, <2>2, NothingTold DEF Asking, Answering
<1> QED  BY <1>1, <1>2, <1>3, <1>4, <1>5, <1>6, ToldSteps DEF Database

LEMMA OtherAnswer ==
  ASSUME AnswerInv, Disk \/ Start \/ Crashes \/ UNCHANGED vars
  PROVE  AnswerInv'
<1>1. UNCHANGED <<answerVars, rest, db_to_monitor, job>> /\ (db' = db \/ db' = "exited")
  BY DEF Disk, Start, Crashes, Exits, KeepsEngine, vars, runVars, monitorVars, dbVars, pipeVars, answerVars
<1>2. job \in Jobs
  BY DEF AnswerInv, TextTypes
<1> QED  BY <1>1, <1>2, NothingTold DEF Asking, Answering

\* A run that is reported as a success answered what was expected: all of it, in
\* the order that was asked for, over pipes of any size.
THEOREM SuccessIsAlwaysRight == Spec => []SuccessIsRight
<1>1. AnswerInv /\ [Next]_vars => AnswerInv'
  BY MonitorAnswer, DatabaseAnswer, OtherAnswer DEF Next, Reported
<1>2. AnswerInv => SuccessIsRight
  BY DEF AnswerInv, Outcome, AnswerRight, SuccessIsRight
<1> QED  BY <1>1, <1>2, AnswerInit, PTL DEF Spec

-----------------------------------------------------------------------------
(* Types and bounds *)

MonitorTyped ==
  /\ monitor \in {"query", "command", "limit", "validate", "wait_db", "wait_disk", "done"}
  /\ db_result \in {"none", "ok", "mismatch", "no_answer"}
  /\ report \in {"none", "success", "validation_failed", "no_disk_metrics"}
  /\ metrics_csv \in Counts \cup {NoReport}

DatabaseTyped ==
  /\ db \in Early \cup Late \cup {"receiving", "sending", "exited"}
  /\ job \in Job /\ job.at <= job.len
  /\ issued \in Counts /\ (db = "sending" => issued.writes >= 1)
  /\ written \in [1..MaxBlock -> 0..MaxCommands]

DiskTyped ==
  /\ disk_job \in Job /\ disk_job.at <= disk_job.len
  /\ metrics \in Counts
  /\ anon_pages \in [1..MaxBlock -> 0..MaxCommands]

LinesTyped ==
  /\ monitor_to_db \in Seq({"query", "limit"})
  /\ Len(monitor_to_db) <= PipeItems /\ Len(db_to_monitor) <= PipeItems

BlocksTyped ==
  /\ disk_inbound \in Seq(Item)
  /\ Len(disk_inbound) <= PipeItems /\ Len(disk_outbound) <= PipeItems

Typed ==
  /\ MonitorTyped /\ DatabaseTyped /\ DiskTyped /\ LinesTyped /\ BlocksTyped
  /\ db_stderr \in Nat /\ db_stderr <= StderrItems

AllInv == Inv /\ AnswerInv /\ Typed

LEMMA TypedInit == Init => Typed
<1> SUFFICES ASSUME Init PROVE Typed
  OBVIOUS
<1>1. NoBlocks \in Job /\ NoBlocks.at <= NoBlocks.len
  BY QueryRunAssumption DEF NoBlocks, Job
<1>2. MonitorTyped
  BY DEF Init, MonitorTyped
<1>3. DatabaseTyped
  BY <1>1, QueryRunAssumption DEF Init, DatabaseTyped, Early, Counts
<1>4. DiskTyped
  BY <1>1, QueryRunAssumption DEF Init, DiskTyped, Counts
<1>5. LinesTyped /\ BlocksTyped
  BY QueryRunAssumption DEF Init, LinesTyped, BlocksTyped
<1> QED  BY <1>2, <1>3, <1>4, <1>5, QueryRunAssumption DEF Typed, Init

LEMMA MonitorTypedStep ==
  ASSUME AllInv, Monitor
  PROVE  Typed'
<1>1. /\ UNCHANGED <<db, job, issued, written, disk_job, metrics, anon_pages, disk_inbound, disk_outbound>>
      /\ db_stderr' \in {db_stderr, 0}
  BY DEF Monitor, SendQuery, SendLimit, Send, ReadCommand, ReadRow, ReadEnd, Receive, EndOfOutput,
         WaitDb, WaitDisk, dbVars, diskVars, pipeVars
<1>2. DatabaseTyped' /\ DiskTyped' /\ BlocksTyped'
  BY <1>1 DEF AllInv, Typed, DatabaseTyped, DiskTyped, BlocksTyped
<1>3. db_stderr' \in Nat /\ db_stderr' <= StderrItems
  BY <1>1, QueryRunAssumption DEF AllInv, Typed
<1>4. MonitorTyped'
  <2>1. CASE SendQuery \/ SendLimit
    BY <2>1 DEF AllInv, Typed, MonitorTyped, SendQuery, SendLimit, Send, HandleDbReturns
  <2>2. CASE ReadCommand \/ ReadRow \/ ReadEnd
    BY <2>2 DEF AllInv, Typed, MonitorTyped, ReadCommand, ReadRow, ReadEnd, Receive, HandleDbReturns
  <2>3. CASE EndOfOutput \/ WaitDb
    BY <2>3 DEF AllInv, Typed, MonitorTyped, EndOfOutput, WaitDb, HandleDbReturns
  <2>4. CASE WaitDisk
    BY <2>4 DEF AllInv, Typed, MonitorTyped, DiskTyped, WaitDisk
  <2> QED  BY <2>1, <2>2, <2>3, <2>4 DEF Monitor
<1>5. LinesTyped'
  <2>1. /\ monitor_to_db \in Seq({"query", "limit"}) /\ Len(monitor_to_db) <= PipeItems
        /\ Len(db_to_monitor) \in Nat /\ Len(db_to_monitor) <= PipeItems /\ PipeItems \in Nat
        /\ db_to_monitor \in Seq(Texts)
    BY QueryRunAssumption DEF AllInv, Typed, LinesTyped, AnswerInv, TextTypes
  <2>2. CASE SendQuery \/ SendLimit
    <3>1. /\ db_to_monitor' = db_to_monitor
          /\ \/ monitor_to_db' = monitor_to_db
             \/ \E line \in {"query", "limit"} :
                  Writable(monitor_to_db) /\ monitor_to_db' = Append(monitor_to_db, line)
      BY <2>2 DEF SendQuery, SendLimit, Send
    <3> QED  BY <3>1, <2>1, SMTT(20) DEF LinesTyped, Writable
  <2>3. CASE ReadCommand \/ ReadRow \/ ReadEnd
    <3>1. monitor_to_db' = monitor_to_db /\ db_to_monitor # << >> /\ db_to_monitor' = Tail(db_to_monitor)
      BY <2>3 DEF ReadCommand, ReadRow, ReadEnd, Receive
    <3> QED  BY <3>1, <2>1 DEF LinesTyped
  <2>4. CASE EndOfOutput \/ WaitDb \/ WaitDisk
    <3>1. monitor_to_db' = monitor_to_db /\ db_to_monitor' = db_to_monitor
      BY <2>4 DEF EndOfOutput, WaitDb, WaitDisk, pipeVars
    <3> QED  BY <3>1, <2>1 DEF LinesTyped
  <2> QED  BY <2>2, <2>3, <2>4 DEF Monitor
<1> QED  BY <1>2, <1>3, <1>4, <1>5 DEF Typed

\* The lines and standard error, by what the database does with them.
LEMMA DatabaseLines ==
  ASSUME AllInv, Database
  PROVE  LinesTyped' /\ db_stderr' \in Nat /\ db_stderr' <= StderrItems
<1>1. /\ monitor_to_db \in Seq({"query", "limit"}) /\ Len(monitor_to_db) <= PipeItems
      /\ Len(db_to_monitor) <= PipeItems /\ PipeItems \in Nat
      /\ db_to_monitor \in Seq(Texts) /\ db_stderr \in Nat /\ db_stderr <= StderrItems
      /\ StderrItems \in Nat
  BY QueryRunAssumption DEF AllInv, Typed, LinesTyped, AnswerInv, TextTypes
<1>2. /\ \/ monitor_to_db' = monitor_to_db
         \/ monitor_to_db # << >> /\ monitor_to_db' = Tail(monitor_to_db)
      /\ \/ db_to_monitor' = db_to_monitor
         \/ \E line : Writable(db_to_monitor) /\ db_to_monitor' = Append(db_to_monitor, line)
      /\ \/ db_stderr' = db_stderr
         \/ db_stderr < StderrItems /\ db_stderr' = db_stderr + 1
  <2>1. CASE ReadQuery \/ PrintQuery \/ ReadLimit \/ PrintMetrics
    BY <2>1 DEF ReadQuery, PrintQuery, ReadLimit, PrintMetrics, PrintsTo, HasItem
  <2>2. CASE AskLimit \/ StartOutput \/ OutputBatch \/ EndOutput
    BY <2>2 DEF AskLimit, StartOutput, OutputBatch, EndOutput, Tell
  <2>3. CASE ReceiveBlock \/ SendBlock
    BY <2>3 DEF ReceiveBlock, SendBlock
  <2>4. CASE Killed \/ LosesDisk
    BY <2>4 DEF Killed, Exits, LosesDisk, PrintsTo, pipeVars
  <2>5. ASSUME NEW e \in Extents, Get(e[1], e[2]) \/ Put(e[1], e[2])
        PROVE  UNCHANGED <<monitor_to_db, db_to_monitor, db_stderr>>
    BY <2>5 DEF Get, Put, SendCommand
  <2> QED  BY <2>1, <2>2, <2>3, <2>4, <2>5 DEF Database
<1>3. monitor_to_db' \in Seq({"query", "limit"}) /\ Len(monitor_to_db') <= PipeItems
  BY <1>1, <1>2
<1>4. Len(db_to_monitor') <= PipeItems
  <2>1. CASE db_to_monitor' = db_to_monitor
    BY <2>1, <1>1
  <2>2. ASSUME NEW line, Writable(db_to_monitor), db_to_monitor' = Append(db_to_monitor, line)
        PROVE  Len(db_to_monitor') <= PipeItems
    <3>1. Len(db_to_monitor') = Len(db_to_monitor) + 1 /\ Len(db_to_monitor) \in Nat
      BY <2>2, <1>1
    <3> QED  BY <3>1, <2>2, <1>1 DEF Writable
  <2> QED  BY <2>1, <2>2, <1>2
<1>5. db_stderr' \in Nat /\ db_stderr' <= StderrItems
  BY <1>1, <1>2
<1> QED  BY <1>3, <1>4, <1>5 DEF LinesTyped

LEMMA OneBlockOn ==
  ASSUME NEW command \in Job, command.at < command.len
  PROVE  LET next == [command EXCEPT !.at = @ + 1] IN next \in Job /\ next.at <= next.len
<1>1. /\ command.at \in Nat /\ command.len \in 0..MaxBlock + 1 /\ MaxBlock \in Nat
      /\ command.at + 1 \in 0..MaxBlock + 1 /\ command.at + 1 <= command.len
  BY QueryRunAssumption DEF Job
<1> QED  BY <1>1 DEF Job

\* The command and the blocks, by what the database does with them.
LEMMA DatabaseBlocks ==
  ASSUME AllInv, Database
  PROVE  DatabaseTyped' /\ BlocksTyped'
<1>1. /\ disk_inbound \in Seq(Item) /\ Len(disk_inbound) <= PipeItems
      /\ disk_outbound \in Seq(Nat \cup {"block-size"}) /\ Len(disk_outbound) <= PipeItems
      /\ PipeItems \in Nat /\ PipeItems >= 1 /\ MaxBlock \in Nat /\ MaxCommands \in Nat
  BY QueryRunAssumption DEF AllInv, Inv, Types, Typed, BlocksTyped
<1>2. /\ job \in Job /\ job.at <= job.len /\ issued \in Counts
      /\ written \in [1..MaxBlock -> 0..MaxCommands]
  BY DEF AllInv, Typed, DatabaseTyped
<1>3. ASSUME NEW item \in Item, Writable(disk_inbound), disk_inbound' = Append(disk_inbound, item),
             UNCHANGED disk_outbound
      PROVE  BlocksTyped'
  BY <1>1, <1>3 DEF BlocksTyped, Writable
<1>4. CASE ReadQuery \/ PrintQuery \/ AskLimit \/ StartOutput \/ OutputBatch \/ EndOutput
           \/ PrintMetrics \/ Killed \/ LosesDisk
  <2>1. /\ UNCHANGED <<job, issued, written, disk_inbound, disk_outbound>>
        /\ db' \in {"printing", "ask_limit", "running", "metrics", "exited"}
    BY <1>4 DEF ReadQuery, PrintQuery, PrintsTo, AskLimit, StartOutput, OutputBatch, EndOutput, Tell,
       PrintMetrics, Killed, Exits, LosesDisk, KeepsEngine, pipeVars
  <2> QED  BY <2>1, <1>1, <1>2 DEF DatabaseTyped, BlocksTyped, Early, Late
<1>5. CASE ReadLimit
  <2>1. /\ db = "ask_limit" /\ db' = "receiving" /\ job' = Command("block-size", 0, 1)
        /\ disk_inbound' = Append(disk_inbound, job') /\ UNCHANGED <<issued, written, disk_outbound>>
    BY <1>5 DEF ReadLimit, PrintsTo, KeepsEngine
  <2>2. job' \in Job /\ job'.at <= job'.len
    BY <2>1, <1>1 DEF Command, Job
  <2>3. Writable(disk_inbound)
    BY <2>1, <1>1 DEF Writable, AllInv, Inv, PipesFit, NothingSent, Early
  <2>4. BlocksTyped'
    BY <2>1, <2>2, <2>3, <1>3 DEF Item
  <2> QED  BY <2>1, <2>2, <2>4, <1>2 DEF DatabaseTyped
<1>6. CASE ReceiveBlock
  <2>1. /\ db = "receiving" /\ db' \in {"receiving", "validate", "running"}
        /\ job' = [job EXCEPT !.at = @ + 1] /\ disk_outbound # << >>
        /\ disk_outbound' = Tail(disk_outbound) /\ UNCHANGED <<issued, written, disk_inbound>>
    BY <1>6 DEF ReceiveBlock, KeepsEngine
  <2>2. job.at + Len(disk_outbound) <= job.len /\ Len(disk_outbound) \in Nat /\ Len(disk_outbound) >= 1
    BY <2>1, <1>1 DEF AllInv, Inv, PipesFit, Awaited
  <2>3. job' \in Job /\ job'.at <= job'.len
    <3>1. job.at < job.len
      BY <2>2, <1>1, <1>2 DEF Job
    <3> QED  BY <3>1, <2>1, <1>2, OneBlockOn
  <2>4. BlocksTyped'
    BY <2>1, <1>1 DEF BlocksTyped
  <2> QED  BY <2>1, <2>3, <2>4, <1>2 DEF DatabaseTyped, Late
<1>7. CASE SendBlock
  <2>1. /\ db = "sending" /\ db' \in {"sending", "running"} /\ Writable(disk_inbound)
        /\ job' = [job EXCEPT !.at = @ + 1]
        /\ disk_inbound' = Append(disk_inbound, Data(issued.writes))
        /\ written' = [written EXCEPT ![job.block + job.at] = issued.writes]
        /\ UNCHANGED <<issued, disk_outbound>>
    BY <1>7 DEF SendBlock
  <2>2. job.at < job.len /\ issued.writes \in 1..MaxCommands
    BY <2>1, <1>1, <1>2 DEF AllInv, Inv, PipesFit, Sending, Typed, DatabaseTyped, Counts
  <2>3. job' \in Job /\ job'.at <= job'.len
    <3>1. job.at < job.len
      BY <2>2, <1>1, <1>2 DEF Job
    <3> QED  BY <3>1, <2>1, <1>2, OneBlockOn
  <2>4. Data(issued.writes) \in Item
    BY <2>2 DEF Data, Item
  <2>5. written' \in [1..MaxBlock -> 0..MaxCommands]
    <3>1. issued.writes \in 0..MaxCommands
      BY <2>2, <1>1
    <3> QED  BY <3>1, <2>1, <1>2
  <2>6. issued' \in Counts /\ issued'.writes >= 1
    BY <2>1, <2>2, <1>1, <1>2
  <2> QED  BY <2>1, <2>3, <2>4, <2>5, <2>6, <1>3 DEF DatabaseTyped, Late
<1>8. ASSUME NEW e \in Extents, Get(e[1], e[2]) \/ Put(e[1], e[2])
      PROVE  DatabaseTyped' /\ BlocksTyped'
  <2>1. /\ e[1] \in Nat /\ e[2] \in Nat /\ e[1] >= 1 /\ e[2] >= 1 /\ e[1] + e[2] <= MaxBlock + 1
    BY <1>1 DEF Extents
  <2>2. PICK op \in {"get", "put"} :
          /\ issued.reads + issued.writes < MaxCommands /\ Writable(disk_inbound)
          /\ job' = Command(op, e[1], e[2]) /\ disk_inbound' = Append(disk_inbound, job')
          /\ UNCHANGED <<written, disk_outbound>>
          /\ db' = (IF op = "get" THEN "receiving" ELSE "sending")
          /\ issued' = (IF op = "get" THEN [issued EXCEPT !.reads = @ + 1]
                                      ELSE [issued EXCEPT !.writes = @ + 1])
    BY <1>8 DEF Get, Put, SendCommand
  <2>3. job' \in Job /\ job'.at <= job'.len
    BY <2>1, <2>2, <1>1 DEF Command, Job
  <2>4. issued' \in Counts /\ (db' = "sending" => issued'.writes >= 1)
    BY <2>2, <1>1, <1>2 DEF Counts
  <2> QED  BY <2>2, <2>3, <2>4, <1>2, <1>3 DEF DatabaseTyped, Item
<1> QED  BY <1>4, <1>5, <1>6, <1>7, <1>8 DEF Database

\* The disk counts no more than was sent.
LEMMA NeverCountsMore ==
  ASSUME Inv, DiskUp, issued \in Counts
  PROVE  metrics \in Counts
<1>1. PICK t \in DiskStates : Leads(DiskState, disk_inbound, t) /\ InStep(t)
  BY DEF Inv, Traffic
<1>2. PICK f : Course(f, DiskState, disk_inbound) /\ f[Len(disk_inbound)] = t
  BY <1>1 DEF Leads
<1>3. f[0] = DiskState /\ 0 \in 0..Len(disk_inbound)
  BY <1>2 DEF Course, Inv, Types
<1>4. NotMore(metrics, t.metrics)
  BY <1>2, <1>3 DEF Course, DiskState
<1>5. NotMore(t.metrics, issued)
  BY <1>1 DEF InStep, Pending, NotMore, DiskStates, Totals, Inv, Types
<1>6. metrics \in Totals /\ t.metrics \in Totals /\ MaxCommands \in Nat
  BY <1>1, QueryRunAssumption DEF Inv, Types, DiskStates
<1> QED  BY <1>4, <1>5, <1>6 DEF NotMore, Totals, Counts

LEMMA DiskTypedStep ==
  ASSUME AllInv, Disk, Inv'
  PROVE  DiskTyped' /\ BlocksTyped'
<1>1. /\ disk_inbound \in Seq(Item) /\ Len(disk_inbound) <= PipeItems
      /\ disk_outbound \in Seq(Nat \cup {"block-size"}) /\ Len(disk_outbound) <= PipeItems
      /\ PipeItems \in Nat /\ MaxBlock \in Nat /\ MaxCommands \in Nat
      /\ disk_job \in Job /\ disk_job.at <= disk_job.len /\ metrics \in Counts
      /\ anon_pages \in [1..MaxBlock -> 0..MaxCommands]
  BY QueryRunAssumption DEF AllInv, Inv, Types, Typed, BlocksTyped, DiskTyped
<1>2. metrics' \in Counts
  <2>1. CASE DiskUp'
    <3>1. issued' \in Counts
      BY DEF Disk, dbVars, AllInv, Typed, DatabaseTyped
    <3>2. (DiskUp /\ Inv /\ issued \in Counts => metrics \in Counts)'
      BY NeverCountsMore, PTL
    <3> QED  BY <2>1, <3>1, <3>2
  <2>2. CASE ~DiskUp'
    <3>1. UNCHANGED metrics
      <4>1. CASE StartCommand
        BY <4>1 DEF StartCommand
      <4>2. CASE TellBlockSize
        BY <4>2 DEF TellBlockSize, diskVars
      <4>3. CASE EndOfCommands \/ PutCutShort \/ GetFails
        BY <4>3 DEF EndOfCommands, PutCutShort, GetFails, DiskReturns
      <4>4. CASE PutBlock
        BY <4>4, <2>2 DEF PutBlock, NextBlock, DiskUp
      <4>5. CASE GetBlock
        BY <4>5, <2>2 DEF GetBlock, NextBlock, DiskUp
      <4> QED  BY <4>1, <4>2, <4>3, <4>4, <4>5 DEF Disk
    <3> QED  BY <3>1, <1>1
  <2> QED  BY <2>1, <2>2
<1>3. ASSUME TakeItem, UNCHANGED disk_outbound PROVE BlocksTyped'
  BY <1>1, <1>3 DEF BlocksTyped, TakeItem
<1>4. ASSUME NEW item, Reply(item), disk_inbound' \in Seq(Item), Len(disk_inbound') <= PipeItems
      PROVE  BlocksTyped'
  <2>1. Len(disk_outbound') = Len(disk_outbound) + 1 /\ Len(disk_outbound) \in Nat
    BY <1>1, <1>4 DEF Reply
  <2> QED  BY <2>1, <1>1, <1>4 DEF BlocksTyped, Reply, Writable
<1>5. ASSUME NEW count \in {"reads", "writes"}, disk \in {"get", "put"}, NextBlock(count)
      PROVE  disk_job' \in Job /\ disk_job'.at <= disk_job'.len
  <2>1. disk_job.at < disk_job.len
    BY <1>5 DEF AllInv, Inv, Types
  <2>2. disk_job' = [disk_job EXCEPT !.at = @ + 1]
    BY <1>5 DEF NextBlock
  <2> QED  BY <2>1, <2>2, <1>1, OneBlockOn
<1>6. CASE StartCommand
  <2>1. TakeItem /\ disk_job' = Head(disk_inbound) /\ Head(disk_inbound).op \in {"get", "put"}
        /\ UNCHANGED <<anon_pages, disk_outbound>>
    BY <1>6 DEF StartCommand
  <2>2. Head(disk_inbound) \in Item /\ Head(disk_inbound) \in Items
    BY <2>1, <1>1, TailItems DEF TakeItem, AllInv
  <2>3. disk_job' \in Job /\ disk_job'.at <= disk_job'.len
    BY <2>1, <2>2 DEF Item, Items, Job, Jobs
  <2> QED  BY <2>1, <2>3, <1>1, <1>2, <1>3 DEF DiskTyped
<1>7. CASE TellBlockSize
  <2>1. Reply("block-size") /\ disk_inbound # << >> /\ disk_inbound' = Tail(disk_inbound)
        /\ UNCHANGED <<disk_job, anon_pages>>
    BY <1>7 DEF TellBlockSize, TakeItem, diskVars
  <2>2. disk_inbound' \in Seq(Item) /\ Len(disk_inbound') <= PipeItems
    BY <2>1, <1>1
  <2> QED  BY <2>1, <2>2, <1>1, <1>2, <1>4 DEF DiskTyped
<1>8. CASE PutBlock
  <2>1. /\ TakeItem /\ disk = "put" /\ NextBlock("writes") /\ UNCHANGED disk_outbound
        /\ anon_pages' = [anon_pages EXCEPT ![disk_job.block + disk_job.at] = Head(disk_inbound).stamp]
    BY <1>8 DEF PutBlock
  <2>2. Head(disk_inbound).op = "data" /\ Head(disk_inbound) \in Item
    <3>1. PICK t : Leads(DiskState, disk_inbound, t)
      BY <2>1 DEF AllInv, Inv, DiskUp, Traffic
    <3>2. Accepts(DiskState, Head(disk_inbound))
      BY <3>1, <2>1, LeadsTail DEF TakeItem, AllInv, Inv, Types
    <3> QED  BY <3>2, <2>1, <1>1 DEF Accepts, DiskState, TakeItem
  <2>3. Head(disk_inbound).stamp \in 0..MaxCommands
    BY <2>2, <1>1 DEF Item, Job
  <2>4. anon_pages' \in [1..MaxBlock -> 0..MaxCommands]
    BY <2>1, <2>3, <1>1
  <2> QED  BY <2>1, <2>4, <1>2, <1>3, <1>5 DEF DiskTyped
<1>9. CASE GetBlock
  <2>1. disk = "get" /\ NextBlock("reads") /\ UNCHANGED <<anon_pages, disk_inbound>>
        /\ Reply(anon_pages[disk_job.block + disk_job.at])
    BY <1>9 DEF GetBlock
  <2> QED  BY <2>1, <1>1, <1>2, <1>4, <1>5 DEF DiskTyped
<1>10. CASE EndOfCommands \/ PutCutShort \/ GetFails
  BY <1>1, <1>2, <1>10 DEF EndOfCommands, PutCutShort, GetFails, DiskReturns, DiskTyped, BlocksTyped
<1> QED  BY <1>6, <1>7, <1>8, <1>9, <1>10 DEF Disk

LEMMA TypedStep ==
  ASSUME AllInv, [Next]_vars, Inv'
  PROVE  Typed'
<1>1. CASE Monitor
  BY <1>1, MonitorTypedStep
<1>2. CASE Database
  <2>1. MonitorTyped' /\ DiskTyped'
    BY <1>2 DEF Database, monitorVars, diskVars, AllInv, Typed, MonitorTyped, DiskTyped
  <2> QED  BY <2>1, <1>2, DatabaseLines, DatabaseBlocks DEF Typed
<1>3. CASE Disk
  <2>1. MonitorTyped' /\ DatabaseTyped' /\ LinesTyped' /\ db_stderr' \in Nat /\ db_stderr' <= StderrItems
    BY <1>3 DEF Disk, monitorVars, dbVars, AllInv, Typed, MonitorTyped, DatabaseTyped, LinesTyped
  <2> QED  BY <2>1, <1>3, DiskTypedStep DEF Typed
<1>4. CASE Start \/ Crashes \/ UNCHANGED vars
  <2>1. /\ UNCHANGED <<monitorVars, diskVars, pipeVars, job, issued, written>>
        /\ db' = db \/ db' = "exited"
    BY <1>4 DEF Start, Crashes, Exits, KeepsEngine, vars, runVars, dbVars
  <2>2. MonitorTyped' /\ DiskTyped' /\ LinesTyped' /\ BlocksTyped'
        /\ db_stderr' \in Nat /\ db_stderr' <= StderrItems
    BY <2>1 DEF AllInv, Typed, MonitorTyped, DiskTyped, LinesTyped, BlocksTyped, monitorVars, diskVars,
                pipeVars
  <2>3. DatabaseTyped'
    BY <2>1 DEF AllInv, Typed, DatabaseTyped
  <2> QED  BY <2>2, <2>3 DEF Typed
<1> QED  BY <1>1, <1>2, <1>3, <1>4 DEF Next, Reported

\* The types, with no item in a pipe beyond its room, no block beyond the last one
\* of its command, and no command counted that was not sent.
THEOREM TypeCorrect == Spec => []TypeOK
<1>1. Inv /\ [Next]_vars => Inv'
  BY MonitorStep, DatabaseStep, DiskStep, OtherSteps DEF Next, Reported
<1>2. AnswerInv /\ [Next]_vars => AnswerInv'
  BY MonitorAnswer, DatabaseAnswer, OtherAnswer DEF Next, Reported
<1>3. AllInv /\ [Next]_vars => AllInv'
  BY <1>1, <1>2, TypedStep DEF AllInv
<1>4. AllInv => TypeOK
  <2> SUFFICES ASSUME AllInv PROVE TypeOK
    OBVIOUS
  <2>1. \A i \in 1..4 :
          Len(<<monitor_to_db, db_to_monitor, disk_inbound, disk_outbound>>[i]) <= PipeItems
    BY DEF AllInv, Typed, LinesTyped, BlocksTyped
  <2> QED  BY <2>1 DEF AllInv, Typed, MonitorTyped, DatabaseTyped, DiskTyped, BlocksTyped, Inv, Types,
                       TypeOK, Early, Late
<1>5. Init => AllInv
  BY InvInit, AnswerInit, TypedInit DEF AllInv
<1> QED  BY <1>3, <1>4, <1>5, PTL DEF Spec

-----------------------------------------------------------------------------
(* The search for a join order: it shares no state with the processes *)

\* The invariant that a step of the search needs and keeps.
OrderInv == OrderTypeOK /\ OrdersWellJoined

\* The plan of one leaf is an order of that leaf.
LEMMA OneLeafWellJoined ==
  ASSUME NEW leaf, NEW mask, mask = {leaf}
  PROVE  WellJoined(<<leaf>>, mask)
  BY DEF WellJoined

\* A leaf outside an order that a predicate joins to one inside may come last.
LEMMA AppendWellJoined ==
  ASSUME NEW mask \in SUBSET Leaves, NEW order \in Seq(Leaves), WellJoined(order, mask),
         NEW leaf \in Leaves \ mask, JoinedTo(leaf, mask)
  PROVE  WellJoined(Append(order, leaf), mask \cup {leaf})
<1> DEFINE longer == Append(order, leaf)
<1>1. /\ Len(order) \in Nat
      /\ Len(longer) = Len(order) + 1
      /\ longer[Len(order) + 1] = leaf
      /\ \A k \in 1..Len(order) : longer[k] = order[k]
  OBVIOUS
<1> HIDE DEF longer
<1>2. \A other \in mask \cup {leaf} : \E k \in 1..Len(longer) : longer[k] = other
  BY <1>1 DEF WellJoined
<1>3. \A k \in 1..Len(longer) : longer[k] \in mask \cup {leaf}
  BY <1>1 DEF WellJoined
<1>4. \A j, k \in 1..Len(longer) : longer[j] = longer[k] => j = k
  <2>1. \A k \in 1..Len(order) : longer[k] # leaf
    BY <1>1 DEF WellJoined
  <2> QED BY <1>1, <2>1 DEF WellJoined
<1>5. \A k \in 2..Len(longer) : \E j \in 1..(k - 1) : {longer[k], longer[j]} \in joins
  <2> SUFFICES ASSUME NEW k \in 2..Len(longer)
               PROVE  \E j \in 1..(k - 1) : {longer[k], longer[j]} \in joins
    OBVIOUS
  <2>0. k \in Nat /\ (k \in 2..Len(order) \/ k = Len(order) + 1)
    BY <1>1
  <2>1. CASE k \in 2..Len(order)
    <3>1. PICK j \in 1..(k - 1) : {order[k], order[j]} \in joins
      BY <2>1 DEF WellJoined
    <3>2. longer[k] = order[k] /\ longer[j] = order[j]
      BY <1>1, <2>0, <2>1
    <3> QED BY <3>1, <3>2
  <2>2. CASE k = Len(order) + 1
    <3>1. PICK other \in mask : {leaf, other} \in joins
      BY DEF JoinedTo
    <3>2. PICK j \in 1..Len(order) : order[j] = other
      BY <3>1 DEF WellJoined
    <3>3. j \in 1..(k - 1) /\ longer[k] = leaf /\ longer[j] = other
      BY <1>1, <2>0, <2>2, <3>2
    <3> QED BY <3>1, <3>3
  <2> QED BY <2>0, <2>1, <2>2
<1> QED BY <1>2, <1>3, <1>4, <1>5 DEF WellJoined, longer

\* Before the loop starts only the single leaves have plans, good ones.
LEMMA SinglePlansWellJoined ==
  ASSUME NEW n \in Nat
  PROVE  /\ SinglePlans(n) \in [SUBSET (1..n) -> Seq(1..n)]
         /\ \A mask \in SUBSET (1..n) :
              SinglePlans(n)[mask] # << >> => WellJoined(SinglePlans(n)[mask], mask)
<1> DEFINE Plan(mask) == IF \E leaf \in 1..n : mask = {leaf}
                           THEN <<CHOOSE leaf \in mask : TRUE>> ELSE << >>
<1> SUFFICES ASSUME NEW mask \in SUBSET (1..n)
             PROVE  Plan(mask) \in Seq(1..n) /\ (Plan(mask) # << >> => WellJoined(Plan(mask), mask))
  BY DEF SinglePlans
<1>1. CASE \E leaf \in 1..n : mask = {leaf}
  <2>1. PICK leaf \in 1..n : mask = {leaf}
    BY <1>1
  <2>2. (CHOOSE l \in mask : TRUE) = leaf
    BY <2>1
  <2>3. Plan(mask) = <<leaf>>
    BY <1>1, <2>2
  <2> HIDE DEF Plan
  <2>4. WellJoined(<<leaf>>, mask)
    BY <2>1, OneLeafWellJoined
  <2>5. <<leaf>> \in Seq(1..n)
    OBVIOUS
  <2> QED BY <2>3, <2>4, <2>5
<1>2. CASE ~ \E leaf \in 1..n : mask = {leaf}
  BY <1>2
<1> QED BY <1>1, <1>2

LEMMA NoSearchInv == NoSearch => OrderInv
<1> SUFFICES ASSUME NoSearch PROVE OrderInv
  OBVIOUS
<1>1. Leaves = 1..0
  BY DEF NoSearch, Leaves
<1>2. OrderTypeOK
  <2>1. leaf_count \in 0..MaxDpLeaves /\ joins \subseteq Pairs(leaf_count) /\ masks \subseteq SUBSET Leaves
    BY JoinOrderAssumption DEF NoSearch
  <2>2. dp \in [SUBSET Leaves -> Seq(Leaves)]
    BY <1>1, SinglePlansWellJoined DEF NoSearch
  <2> QED BY <2>1, <2>2 DEF OrderTypeOK
<1>3. OrdersWellJoined
  BY <1>1, SinglePlansWellJoined DEF NoSearch, OrdersWellJoined
<1> QED BY <1>2, <1>3 DEF OrderInv

LEMMA StartSearchInv ==
  ASSUME NEW n \in 0..MaxDpLeaves, NEW pairs \in SUBSET Pairs(n), StartSearch(n, pairs)
  PROVE  OrderInv'
<1>1. n \in Nat /\ Leaves' = 1..n
  BY JoinOrderAssumption DEF StartSearch, Leaves
<1>2. OrderTypeOK'
  BY <1>1, SinglePlansWellJoined DEF StartSearch, OrderTypeOK, AllMasks
<1>3. OrdersWellJoined'
  <2>1. \A mask \in SUBSET (1..n) :
          SinglePlans(n)[mask] # << >> => WellJoined(SinglePlans(n)[mask], mask)'
    <3> SUFFICES ASSUME NEW mask \in SUBSET (1..n), SinglePlans(n)[mask] # << >>
                 PROVE  WellJoined(SinglePlans(n)[mask], mask)'
      OBVIOUS
    <3>1. PICK leaf \in 1..n : mask = {leaf}
      BY DEF SinglePlans
    <3>2. SinglePlans(n)[mask] = <<leaf>>
      BY <3>1 DEF SinglePlans
    <3> QED BY <3>1, <3>2 DEF WellJoined
  <2> QED BY <1>1, <2>1 DEF StartSearch, OrdersWellJoined
<1> QED BY <1>2, <1>3 DEF OrderInv

\* A set that gets a new order gets that of the set of this turn and one leaf more.
LEMMA ExtendMaskInv ==
  ASSUME OrderInv, ExtendMask
  PROVE  OrderInv'
<1> USE DEF OrderInv
<1>1. PICK mask \in masks : \E replaced \in SUBSET Extendable(mask) :
                              /\ dp' = UpdatedDp(mask, replaced)
                              /\ masks' = masks \ {mask}
                              /\ UNCHANGED <<leaf_count, joins>>
  BY DEF ExtendMask
<1>2. PICK replaced \in SUBSET Extendable(mask) : dp' = UpdatedDp(mask, replaced)
  BY <1>1
<1>3. masks' = masks \ {mask} /\ leaf_count' = leaf_count /\ joins' = joins /\ Leaves' = Leaves
  BY <1>1 DEF Leaves
<1>4. mask \in SUBSET Leaves /\ dp \in [SUBSET Leaves -> Seq(Leaves)]
  BY DEF OrderTypeOK
<1>5. ASSUME NEW leaf \in replaced
      PROVE  /\ leaf \in Leaves
             /\ Append(dp[mask], leaf) \in Seq(Leaves)
             /\ WellJoined(Append(dp[mask], leaf), mask \cup {leaf})
  <2>1. dp[mask] # << >> /\ leaf \in Leaves \ mask /\ JoinedTo(leaf, mask)
    BY DEF Extendable, NextLeaves
  <2>2. WellJoined(dp[mask], mask)
    BY <1>4, <2>1 DEF OrdersWellJoined
  <2> QED BY <1>4, <2>1, <2>2, AppendWellJoined
<1>6. ASSUME NEW set \in SUBSET Leaves
      PROVE  dp'[set] \in Seq(Leaves) /\ (dp'[set] # << >> => WellJoined(dp'[set], set))
  <2>1. CASE \E leaf \in replaced : set = mask \cup {leaf}
    <3>1. PICK leaf \in replaced : set = mask \cup {leaf} /\ dp'[set] = Append(dp[mask], leaf)
      BY <1>2, <1>4, <2>1 DEF UpdatedDp
    <3> QED BY <1>5, <3>1
  <2>2. CASE ~ \E leaf \in replaced : set = mask \cup {leaf}
    BY <1>2, <1>4, <2>2 DEF UpdatedDp, OrdersWellJoined
  <2> QED BY <2>1, <2>2
<1>7. dp' \in [SUBSET Leaves -> Seq(Leaves)]
  <2> DEFINE Order(set) == IF \E leaf \in replaced : set = mask \cup {leaf}
                             THEN Append(dp[mask], CHOOSE leaf \in replaced : set = mask \cup {leaf})
                             ELSE dp[set]
  <2>1. dp' = [set \in SUBSET Leaves |-> Order(set)]
    BY <1>2, <1>4 DEF UpdatedDp
  <2> HIDE DEF Order
  <2> QED BY <1>6, <2>1
<1>8. OrderTypeOK'
  BY <1>3, <1>7 DEF OrderTypeOK
<1>9. OrdersWellJoined'
  BY <1>3, <1>6 DEF OrdersWellJoined, WellJoined
<1> QED BY <1>8, <1>9

\* The state of the search and the orders it keeps, after any number of turns.
THEOREM OrderInvariant == OrderSpec => []OrderInv
<1>1. NoSearch => OrderInv
  BY NoSearchInv
<1>2. OrderInv /\ [OrderNext]_orderVars => OrderInv'
  <2> SUFFICES ASSUME OrderInv, [OrderNext]_orderVars PROVE OrderInv'
    OBVIOUS
  <2>1. CASE \E n \in 0..MaxDpLeaves : \E pairs \in SUBSET Pairs(n) : StartSearch(n, pairs)
    BY <2>1, StartSearchInv
  <2>2. CASE ExtendMask
    BY <2>2, ExtendMaskInv
  <2>3. CASE UNCHANGED orderVars
    <3>1. /\ leaf_count' = leaf_count /\ joins' = joins /\ dp' = dp /\ masks' = masks
          /\ Leaves' = Leaves
      BY <2>3 DEF orderVars, Leaves
    <3>2. OrderTypeOK'
      BY <3>1 DEF OrderInv, OrderTypeOK
    <3>3. OrdersWellJoined'
      BY <3>1 DEF OrderInv, OrdersWellJoined, WellJoined
    <3> QED BY <3>2, <3>3 DEF OrderInv
  <2> QED BY <2>1, <2>2, <2>3 DEF OrderNext
<1> QED BY <1>1, <1>2, PTL DEF OrderSpec

\* Each set of leaves keeps at most one order, of leaves of the query.
THEOREM OrderTypeCorrect == OrderSpec => []OrderTypeOK
<1>1. OrderInv => OrderTypeOK
  BY DEF OrderInv
<1> QED BY <1>1, OrderInvariant, PTL

\* An order the search returns lists every leaf once, each joined by a predicate
\* to one before it (executor.rs:1133): it never takes a cross product.
THEOREM OrdersAreWellJoined == OrderSpec => []OrdersWellJoined
<1>1. OrderInv => OrdersWellJoined
  BY DEF OrderInv
<1> QED BY <1>1, OrderInvariant, PTL

\* The sets that the loop has passed come before those it has not reached, and
\* their orders have been extended by every leaf that a predicate joins to them.
SearchInv ==
  /\ \A leaf \in Leaves : dp[{leaf}] # << >>
  /\ \A done \in (SUBSET Leaves) \ {{}} : done \notin masks =>
       /\ \A mask \in masks : SmallerMask(done, mask)
       /\ dp[done] # << >> => \A leaf \in NextLeaves(done) : dp[done \cup {leaf}] # << >>

\* A set with a leaf more is a larger number: the loop reaches it later.
LEMMA ExtensionNotSmaller ==
  ASSUME NEW mask, NEW leaf \in Nat, leaf \notin mask
  PROVE  ~ SmallerMask(mask \cup {leaf}, mask)
<1>1. ((mask \cup {leaf}) \ mask) \cup (mask \ (mask \cup {leaf})) = {leaf}
  OBVIOUS
<1>2. Max({leaf}) = leaf
  BY DEF Max
<1> QED BY <1>1, <1>2 DEF SmallerMask

LEMMA StartSearchBegins ==
  ASSUME NEW n \in Nat,
         Leaves' = 1..n, dp' = SinglePlans(n), masks' = (SUBSET (1..n)) \ {{}}
  PROVE  SearchInv'
<1>1. ASSUME NEW leaf \in 1..n PROVE SinglePlans(n)[{leaf}] # << >>
  <2>1. SinglePlans(n)[{leaf}] = <<CHOOSE l \in {leaf} : TRUE>>
    BY DEF SinglePlans
  <2> QED BY <2>1
<1> QED BY <1>1 DEF SearchInv

LEMMA ExtendMaskSearches ==
  ASSUME OrderInv, SearchInv, ExtendMask
  PROVE  SearchInv'
<1>1. PICK mask \in masks : \E replaced \in SUBSET Extendable(mask) :
        /\ \A other \in masks \ {mask} : SmallerMask(mask, other)
        /\ MayReplace(mask, replaced)
        /\ dp' = UpdatedDp(mask, replaced)
        /\ masks' = masks \ {mask} /\ leaf_count' = leaf_count /\ joins' = joins
  BY DEF ExtendMask
<1>2. PICK replaced \in SUBSET Extendable(mask) :
        /\ \A other \in masks \ {mask} : SmallerMask(mask, other)
        /\ MayReplace(mask, replaced)
        /\ dp' = UpdatedDp(mask, replaced)
        /\ masks' = masks \ {mask} /\ leaf_count' = leaf_count /\ joins' = joins
  BY <1>1
<1>3. Leaves' = Leaves /\ \A set : NextLeaves(set)' = NextLeaves(set)
  BY <1>2 DEF Leaves, NextLeaves, JoinedTo
<1>4. /\ mask \in SUBSET Leaves /\ dp \in [SUBSET Leaves -> Seq(Leaves)]
      /\ \A leaf \in Leaves : leaf \in Nat
  BY DEF OrderInv, OrderTypeOK, Leaves
<1>5. \A leaf \in Extendable(mask) : leaf \in Leaves \ mask /\ leaf \in Nat
  BY <1>4 DEF Extendable, NextLeaves
<1>6. ASSUME NEW set \in SUBSET Leaves, dp[set] # << >> PROVE dp'[set] # << >>
  <2>1. CASE \E leaf \in replaced : set = mask \cup {leaf}
    <3>1. PICK leaf : leaf \in replaced /\ dp'[set] = Append(dp[mask], leaf)
      BY <1>2, <1>4, <2>1 DEF UpdatedDp
    <3> QED BY <1>4, <3>1
  <2>2. CASE ~ \E leaf \in replaced : set = mask \cup {leaf}
    BY <1>2, <1>4, <1>6, <2>2 DEF UpdatedDp
  <2> QED BY <2>1, <2>2
<1>7. ASSUME NEW leaf \in Extendable(mask) PROVE dp'[mask \cup {leaf}] # << >>
  <2>1. mask \cup {leaf} \in SUBSET Leaves
    BY <1>4, <1>5
  <2>2. CASE dp[mask \cup {leaf}] = << >>
    <3>1. leaf \in replaced
      BY <1>2, <2>2 DEF MayReplace
    <3>2. PICK l : l \in replaced /\ dp'[mask \cup {leaf}] = Append(dp[mask], l)
      BY <1>2, <1>4, <2>1, <3>1 DEF UpdatedDp
    <3> QED BY <1>4, <3>2
  <2>3. CASE dp[mask \cup {leaf}] # << >>
    BY <1>6, <2>1, <2>3
  <2> QED BY <2>2, <2>3
<1>8. ASSUME NEW done \in (SUBSET Leaves) \ {{}}, done \notin masks'
      PROVE  dp'[done] = dp[done]
  <2>1. ASSUME NEW leaf \in replaced, done = mask \cup {leaf} PROVE FALSE
    <3>1. leaf \notin mask /\ leaf \in Nat
      BY <1>5
    <3>2. done # mask /\ done \notin masks
      BY <1>2, <1>8, <2>1, <3>1
    <3>3. SmallerMask(done, mask)
      BY <3>2 DEF SearchInv
    <3> QED BY <2>1, <3>1, <3>3, ExtensionNotSmaller
  <2> QED BY <1>2, <1>4, <2>1 DEF UpdatedDp
<1>9. ASSUME NEW done \in (SUBSET Leaves) \ {{}}, done \notin masks'
      PROVE  /\ \A other \in masks' : SmallerMask(done, other)
             /\ dp'[done] # << >> => \A leaf \in NextLeaves(done) : dp'[done \cup {leaf}] # << >>
  <2>1. CASE done \notin masks
    <3>1. \A other \in masks' : SmallerMask(done, other)
      BY <1>2, <2>1 DEF SearchInv
    <3>2. ASSUME dp'[done] # << >>, NEW leaf \in NextLeaves(done)
          PROVE  dp'[done \cup {leaf}] # << >>
      <4>1. dp[done] # << >>
        BY <1>8, <1>9, <3>2
      <4>2. dp[done \cup {leaf}] # << >>
        BY <2>1, <3>2, <4>1 DEF SearchInv
      <4>3. done \cup {leaf} \in SUBSET Leaves
        BY <3>2 DEF NextLeaves
      <4> QED BY <1>6, <4>2, <4>3
    <3> QED BY <3>1, <3>2
  <2>2. CASE done \in masks
    <3>1. done = mask
      BY <1>2, <1>9, <2>2
    <3>2. \A other \in masks' : SmallerMask(done, other)
      BY <1>2, <3>1
    <3>3. ASSUME dp'[done] # << >>, NEW leaf \in NextLeaves(done)
          PROVE  dp'[done \cup {leaf}] # << >>
      <4>1. dp[done] # << >>
        BY <1>8, <1>9, <3>3
      <4>2. leaf \in Extendable(mask)
        BY <3>1, <3>3, <4>1 DEF Extendable
      <4> QED BY <1>7, <3>1, <4>2
    <3> QED BY <3>2, <3>3
  <2> QED BY <2>1, <2>2
<1>10. \A leaf \in Leaves : dp'[{leaf}] # << >>
  BY <1>6 DEF SearchInv
<1> QED BY <1>3, <1>9, <1>10 DEF SearchInv, SmallerMask

\* The predicates join the leaves: each set of them to one outside it.
LeavesConnected ==
  \A part \in (SUBSET Leaves) \ {{}, Leaves} : \E leaf \in Leaves \ part : JoinedTo(leaf, part)

\* At its end the search has an order of all leaves if the predicates allow one.
OrderFound == leaf_count > 0 /\ masks = {} /\ LeavesConnected => dp[Leaves] # << >>

LEMMA SearchedAll == OrderInv /\ SearchInv => OrderFound
<1> SUFFICES ASSUME OrderInv, SearchInv, leaf_count > 0, masks = {}, LeavesConnected
             PROVE  dp[Leaves] # << >>
  BY DEF OrderFound
<1>1. leaf_count \in Nat /\ Leaves = 1..leaf_count /\ 1 \in Leaves
  BY JoinOrderAssumption DEF OrderInv, OrderTypeOK, Leaves
<1> DEFINE family == {set \in SUBSET Leaves : set # {} /\ dp[set] # << >>}
<1>2. {1} \in family
  BY <1>1 DEF SearchInv
<1>3. PICK set \in family : \A x \in Leaves \ set : set \cup {x} \notin family
  <2> HIDE DEF family
  <2>1. family \in SUBSET (SUBSET (1..leaf_count))
    BY <1>1 DEF family
  <2> QED BY <1>1, <1>2, <2>1, LargestSet
<1>4. set \in SUBSET Leaves /\ set # {} /\ dp[set] # << >>
  OBVIOUS
<1>5. ASSUME set # Leaves PROVE FALSE
  <2>1. PICK leaf \in Leaves \ set : JoinedTo(leaf, set)
    BY <1>4, <1>5 DEF LeavesConnected
  <2>2. leaf \in NextLeaves(set)
    BY <2>1 DEF NextLeaves
  <2>3. dp[set \cup {leaf}] # << >>
    BY <1>4, <2>2 DEF SearchInv
  <2>4. set \cup {leaf} \in family
    BY <1>4, <2>1, <2>3
  <2> HIDE DEF family
  <2> QED BY <1>3, <2>1, <2>4
<1> QED BY <1>4, <1>5

\* The search finds an order of all leaves whenever the predicates connect them:
\* it never falls back on the order of the query, and so on a cross product, where
\* that is needless, though it visits each set of leaves only once.
THEOREM SearchFindsOrder == OrderSpec => []OrderFound
<1>1. NoSearch => SearchInv
  <2> SUFFICES ASSUME NoSearch PROVE SearchInv
    OBVIOUS
  <2>1. Leaves = {}
    BY DEF NoSearch, Leaves
  <2> QED BY <2>1 DEF SearchInv
<1>2. OrderInv /\ SearchInv /\ [OrderNext]_orderVars => SearchInv'
  <2> SUFFICES ASSUME OrderInv, SearchInv, [OrderNext]_orderVars PROVE SearchInv'
    OBVIOUS
  <2>1. CASE \E n \in 0..MaxDpLeaves : \E pairs \in SUBSET Pairs(n) : StartSearch(n, pairs)
    <3>1. PICK n \in 0..MaxDpLeaves : \E pairs \in SUBSET Pairs(n) : StartSearch(n, pairs)
      BY <2>1
    <3>2. n \in Nat /\ Leaves' = 1..n /\ dp' = SinglePlans(n) /\ masks' = (SUBSET (1..n)) \ {{}}
      BY <3>1, JoinOrderAssumption DEF StartSearch, AllMasks, Leaves
    <3> QED BY <3>2, StartSearchBegins
  <2>2. CASE ExtendMask
    BY <2>2, ExtendMaskSearches
  <2>3. CASE UNCHANGED orderVars
    BY <2>3 DEF orderVars, SearchInv, Leaves, NextLeaves, JoinedTo, SmallerMask
  <2> QED BY <2>1, <2>2, <2>3 DEF OrderNext
<1> QED BY <1>1, <1>2, OrderInvariant, SearchedAll, PTL DEF OrderSpec
=============================================================================
