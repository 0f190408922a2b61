------------------------ MODULE DiskSimulator_proofs ------------------------
(***************************************************************************)
(* Proofs about the disk process, for every configuration of files, every  *)
(* size of block, gap and cylinder, and every sequence of commands: its    *)
(* types, the distance between files and region, the counts, and that it   *)
(* implements BlockDevice.                                                 *)
(***************************************************************************)
EXTENDS DiskSimulator, SequenceTheorems, TLAPS

-----------------------------------------------------------------------------
(* Numbers *)

LEMMA DivType ==
  ASSUME NEW a \in Nat, NEW b \in Nat \ {0}
  PROVE  a \div b \in Nat
  OBVIOUS

LEMMA DivMonotone ==
  ASSUME NEW a \in Nat, NEW c \in Nat, a <= c, NEW b \in Nat \ {0}
  PROVE  a \div b <= c \div b
  OBVIOUS

LEMMA ConstantTypes ==
  /\ BlockSize \in Nat \ {0} /\ BlocksPerCylinder \in Nat \ {0} /\ MinGap \in Nat
  /\ MaxPages \in Nat /\ MaxCount \in Nat /\ MaxCommands \in Nat /\ MaxCount <= MinGap
<1>1. MinGapBytes + BlockSize - 1 \in Nat /\ BlockSize \in Nat \ {0}
  BY DiskAssumption
<1>2. MinGap \in Nat
  BY <1>1, DivType DEF MinGap, CeilDiv
<1> QED BY <1>2, DiskAssumption

\* What is kept free above a file is at least the gap.
LEMMA RoomIsWide ==
  ASSUME NEW num \in Nat
  PROVE  Room(num) \in Nat /\ MinGap <= Room(num)
  BY ConstantTypes DEF Room, Larger

LEMMA DistanceType ==
  ASSUME NEW a \in Nat, NEW b \in Nat
  PROVE  Distance(a, b) \in Nat
  BY DEF Distance, Larger

LEMMA ElementType ==
  ASSUME NEW S, NEW s \in Seq(S), NEW i \in 1..Len(s)
  PROVE  s[i] \in S /\ DOMAIN s = 1..Len(s) /\ Len(s) \in Nat
  OBVIOUS

\* A function on 1..n is a sequence of length n.
LEMMA FunctionIsSequence ==
  ASSUME NEW S, NEW n \in Nat, NEW g \in [1..n -> S]
  PROVE  g \in Seq(S) /\ Len(g) = n
<1>1. g \in Seq(S) /\ DOMAIN g = 1..n
  BY SeqDef
<1> QED BY <1>1, LenProperties

LEMMA FileTypes ==
  ASSUME NEW list \in FileLists, NEW i \in 1..Len(list)
  PROVE  /\ DOMAIN list = 1..Len(list) /\ Len(list) \in Nat
         /\ list[i].size \in Nat /\ Blocks(list[i]) \in Nat
         /\ list[i].id \in Ids(list) /\ list[i].id # Region
<1>1. /\ list \in Seq([id : {list[k].id : k \in DOMAIN list}, size : Nat])
      /\ \A k \in DOMAIN list : list[k].id # Region
  BY DiskAssumption
<1>2. DOMAIN list = 1..Len(list) /\ Len(list) \in Nat
  BY <1>1
<1>3. list[i] \in [id : {list[k].id : k \in DOMAIN list}, size : Nat]
  BY <1>1, ElementType
<1>4. list[i].size \in Nat
  BY <1>3
<1>5. Blocks(list[i]) \in Nat
  BY <1>4, ConstantTypes, DivType DEF Blocks
<1> QED BY <1>1, <1>2, <1>4, <1>5 DEF Ids

-----------------------------------------------------------------------------
(* The layout *)

Running == {"command", "get", "put", "done"}

\* A file that is mapped is the last one of its id so far, and lies, with its gap,
\* below the next free block.
MappedRight(id) ==
  LET meta == file_metadata_mapping[id]
  IN /\ files[meta.file].id = id
     /\ \A j \in 1..mapped : files[j].id = id => j <= meta.file
     /\ meta.num_blocks = Blocks(files[meta.file])
     /\ EndOf(meta) + MinGap <= current_position

MappingTypeOK ==
  /\ files \in FileLists
  /\ mapped \in 0..Len(files) /\ current_position \in Nat /\ anon_start_index \in Nat
  /\ DOMAIN file_metadata_mapping = {files[i].id : i \in 1..mapped}
  /\ file_metadata_mapping \in [DOMAIN file_metadata_mapping ->
       [file : 1..mapped, start_block : Nat, num_blocks : Nat]]

\* One of the files ends last, whatever replaced another.
SomeEndsLast ==
  mapped # 0 => \E id \in DOMAIN file_metadata_mapping :
    \A other \in DOMAIN file_metadata_mapping :
      EndOf(file_metadata_mapping[other]) <= EndOf(file_metadata_mapping[id])

LayoutInv ==
  /\ MappingTypeOK
  /\ \A id \in DOMAIN file_metadata_mapping : MappedRight(id)
  /\ SomeEndsLast
  /\ phase = "validate" => mapped = 0
  /\ phase \in Running => mapped = Len(files)
  /\ FilesApart

LEMMA LayoutInit == Init => LayoutInv
<1> SUFFICES ASSUME Init PROVE LayoutInv
  OBVIOUS
<1>1. files \in FileLists /\ mapped = 0 /\ current_position = 0 /\ anon_start_index = 0
      /\ DOMAIN file_metadata_mapping = {} /\ phase = "validate"
  BY DEF Init
<1>2. Len(files) \in Nat
  BY <1>1, DiskAssumption
<1>3. file_metadata_mapping \in [DOMAIN file_metadata_mapping ->
       [file : 1..mapped, start_block : Nat, num_blocks : Nat]]
  BY <1>1 DEF Init
<1> QED BY <1>1, <1>2, <1>3 DEF LayoutInv, MappingTypeOK, SomeEndsLast, Running, FilesApart

\* The layout is what it was when neither it nor the stage of the process changes.
LEMMA LayoutKept ==
  ASSUME LayoutInv, UNCHANGED layoutVars,
         phase' \in Running \cup {"map", "failed"}, phase' \in Running => phase \in Running
  PROVE  LayoutInv'
<1>1. \A id \in DOMAIN file_metadata_mapping : MappedRight(id)'
  BY DEF LayoutInv, MappedRight, layoutVars, EndOf
<1>2. FilesApart'
  BY DEF LayoutInv, FilesApart, Running, layoutVars, EndOf
<1>3. MappingTypeOK' /\ SomeEndsLast'
  BY DEF LayoutInv, MappingTypeOK, SomeEndsLast, layoutVars, EndOf
<1> QED BY <1>1, <1>2, <1>3 DEF LayoutInv, Running, layoutVars

LEMMA ValidateKeepsLayout ==
  ASSUME LayoutInv, Validate
  PROVE  LayoutInv'
  BY LayoutKept DEF Validate, Running

\* A file is placed above all others, whatever it replaces.
LEMMA MapFileKeepsLayout ==
  ASSUME LayoutInv, MapFile
  PROVE  LayoutInv'
<1> DEFINE i    == mapped + 1
           id   == files[i].id
           num  == Blocks(files[i])
           meta == [file |-> i, start_block |-> current_position, num_blocks |-> num]
           old  == file_metadata_mapping
           new  == file_metadata_mapping'
<1>1. /\ files \in FileLists /\ mapped \in Nat /\ current_position \in Nat
      /\ anon_start_index \in Nat
      /\ i \in 1..Len(files) /\ mapped' = i /\ new = With(old, id, meta)
      /\ current_position' = current_position + num + Room(num)
      /\ files' = files /\ anon_start_index' = anon_start_index /\ phase = "map" /\ phase' = "map"
  BY FileTypes DEF LayoutInv, MappingTypeOK, MapFile
<1>2. num \in Nat /\ Len(files) \in Nat
  BY <1>1, FileTypes
<1>3. Room(num) \in Nat /\ MinGap <= Room(num) /\ MinGap \in Nat
  BY <1>2, RoomIsWide, ConstantTypes
<1>4. /\ DOMAIN new = DOMAIN old \cup {id} /\ new[id] = meta
      /\ \A other \in DOMAIN old \ {id} : new[other] = old[other]
  <2>1. new = With(old, id, meta)
    BY <1>1
  <2> HIDE DEF id, meta, old, new
  <2> QED BY <2>1 DEF With
<1>5. /\ DOMAIN old = {files[j].id : j \in 1..mapped}
      /\ \A other \in DOMAIN old :
           /\ old[other] \in [file : 1..mapped, start_block : Nat, num_blocks : Nat]
           /\ MappedRight(other)
  BY DEF LayoutInv, MappingTypeOK
<1>6. EndOf(meta) = current_position + num /\ meta.file = i /\ meta.num_blocks = num
      /\ meta.start_block = current_position
  BY DEF EndOf
<1> HIDE DEF i, id, num, meta, old, new
<1>7. \A other \in DOMAIN old \ {id} : EndOf(new[other]) = EndOf(old[other])
                                      /\ EndOf(old[other]) \in Nat
                                      /\ EndOf(old[other]) + MinGap <= current_position
  BY <1>4, <1>5 DEF EndOf, MappedRight, old
<1>8. MappingTypeOK'
  <2>1. DOMAIN new = {files[j].id : j \in 1..i}
    BY <1>1, <1>4, <1>5 DEF i, id
  <2>2. \A other \in DOMAIN new : new[other] \in [file : 1..i, start_block : Nat, num_blocks : Nat]
    BY <1>1, <1>2, <1>4, <1>5 DEF i, meta
  <2>3. new \in [DOMAIN new -> [file : 1..i, start_block : Nat, num_blocks : Nat]]
    BY <1>1, <2>2 DEF With
  <2> QED BY <1>1, <1>2, <1>3, <2>1, <2>3 DEF MappingTypeOK, new, i
<1>9. ASSUME NEW other \in DOMAIN new PROVE MappedRight(other)'
  <2>1. CASE other = id
    BY <2>1, <1>1, <1>2, <1>3, <1>4, <1>6 DEF MappedRight, new, id, num
  <2>2. CASE other # id
    <3>1. other \in DOMAIN old /\ new[other] = old[other]
      BY <2>2, <1>4, <1>9
    <3>2. \A j \in 1..mapped' : files[j].id = other => j <= old[other].file
      BY <2>2, <3>1, <1>1, <1>5 DEF MappedRight, i, id, old
    <3>3. EndOf(old[other]) + MinGap <= current_position'
      BY <2>2, <3>1, <1>1, <1>2, <1>3, <1>7
    <3> QED BY <3>1, <3>2, <3>3, <1>1, <1>5, ConstantTypes DEF MappedRight, new, old, EndOf
  <2> QED BY <2>1, <2>2
<1>10. SomeEndsLast'
  <2>1. \A other \in DOMAIN new : EndOf(new[other]) <= EndOf(new[id])
    BY <1>1, <1>2, <1>3, <1>4, <1>6, <1>7
  <2> QED BY <2>1, <1>4 DEF SomeEndsLast, new, EndOf
<1>11. FilesApart'
  <2>1. ASSUME NEW a \in DOMAIN new, NEW b \in DOMAIN new, a # b
        PROVE  \/ EndOf(new[a]) + MinGap <= new[b].start_block
               \/ EndOf(new[b]) + MinGap <= new[a].start_block
    <3>1. CASE a = id
      BY <3>1, <2>1, <1>4, <1>6, <1>7
    <3>2. CASE b = id
      BY <3>2, <2>1, <1>4, <1>6, <1>7
    <3>3. CASE a # id /\ b # id
      <4>1. a \in DOMAIN old /\ b \in DOMAIN old /\ new[a] = old[a] /\ new[b] = old[b]
        BY <3>3, <2>1, <1>4
      <4> QED BY <4>1, <2>1 DEF LayoutInv, FilesApart, old
    <3> QED BY <3>1, <3>2, <3>3
  <2> QED BY <2>1, <1>1, ConstantTypes DEF FilesApart, new, EndOf
<1> QED BY <1>1, <1>8, <1>9, <1>10, <1>11 DEF LayoutInv, Running, new

\* The end of the last file is above the ends of all.
LEMMA EndOfFilesIsLast ==
  ASSUME LayoutInv
  PROVE  /\ EndOfFiles \in Nat
         /\ \A id \in DOMAIN file_metadata_mapping : EndOf(file_metadata_mapping[id]) <= EndOfFiles
<1> DEFINE ends == {EndOf(file_metadata_mapping[id]) : id \in DOMAIN file_metadata_mapping}
           IsLast(end) == \A other \in ends : other <= end
<1>1. ends \subseteq Nat
  BY DEF LayoutInv, MappingTypeOK, EndOf
<1>2. \E end \in ends \cup {0} : IsLast(end)
  <2>1. CASE mapped = 0
    <3>1. ends = {}
      BY <2>1 DEF LayoutInv, MappingTypeOK
    <3> QED BY <3>1
  <2>2. CASE mapped # 0
    BY <2>2, <1>1 DEF LayoutInv, SomeEndsLast
  <2> QED BY <2>1, <2>2
<1>3. EndOfFiles \in ends \cup {0} /\ IsLast(EndOfFiles)
  <2>1. EndOfFiles = CHOOSE end \in ends \cup {0} : IsLast(end)
    BY DEF EndOfFiles
  <2> HIDE DEF ends, IsLast
  <2> QED BY <1>2, <2>1
<1> QED BY <1>1, <1>3

LEMMA PlaceRegionKeepsLayout ==
  ASSUME LayoutInv, PlaceRegion
  PROVE  LayoutInv'
<1>1. /\ anon_start_index' = EndOfFiles + MinGap /\ anon_start_index' \in Nat
      /\ \A id \in DOMAIN file_metadata_mapping :
           EndOf(file_metadata_mapping[id]) + MinGap <= anon_start_index'
  <2>1. \A id \in DOMAIN file_metadata_mapping : EndOf(file_metadata_mapping[id]) \in Nat
    BY DEF LayoutInv, MappingTypeOK, EndOf
  <2> QED BY <2>1, EndOfFilesIsLast, ConstantTypes DEF PlaceRegion
<1>2. /\ UNCHANGED <<files, mapped, current_position, file_metadata_mapping>>
      /\ mapped = Len(files) /\ phase' = "command"
  BY DEF PlaceRegion
<1>3. \A id \in DOMAIN file_metadata_mapping : MappedRight(id)'
  BY <1>2 DEF LayoutInv, MappedRight, EndOf
<1>4. FilesApart'
  BY <1>1, <1>2 DEF LayoutInv, FilesApart, EndOf
<1>5. MappingTypeOK' /\ SomeEndsLast'
  BY <1>1, <1>2 DEF LayoutInv, MappingTypeOK, SomeEndsLast, EndOf
<1> QED BY <1>2, <1>3, <1>4, <1>5 DEF LayoutInv, Running

\* Commands leave the layout as it is.
LEMMA CommandKeepsLayout ==
  ASSUME LayoutInv,
         TellStart \/ TellLength \/ SendCommand \/ GetBlock \/ PutBlock \/ Fails \/ EndCommand
           \/ EndOfCommands \/ UNCHANGED vars
  PROVE  LayoutInv'
<1>1. CASE UNCHANGED vars
  BY <1>1, ZenonT(40)
     DEF LayoutInv, MappingTypeOK, SomeEndsLast, FilesApart, MappedRight, EndOf, vars, layoutVars
<1>2. CASE TellStart \/ TellLength
  BY <1>2, LayoutKept DEF TellStart, TellLength, Running
<1>3. CASE SendCommand
  BY <1>3, LayoutKept DEF SendCommand, Running
<1>4. CASE GetBlock
  BY <1>4, LayoutKept DEF GetBlock, Serving, Running
<1>5. CASE PutBlock
  BY <1>5, LayoutKept DEF PutBlock, Serving, Running
<1>6. CASE Fails
  BY <1>6, LayoutKept DEF Fails, Running
<1>7. CASE EndCommand
  BY <1>7, LayoutKept DEF EndCommand, Running
<1>8. CASE EndOfCommands
  BY <1>8, LayoutKept DEF EndOfCommands, Running
<1> QED BY <1>1, <1>2, <1>3, <1>4, <1>5, <1>6, <1>7, <1>8

LEMMA LayoutStep == LayoutInv /\ [Next]_vars => LayoutInv'
  BY ValidateKeepsLayout, MapFileKeepsLayout, PlaceRegionKeepsLayout, CommandKeepsLayout
     DEF Next, Ended

THEOREM LayoutInvariant == Spec => []LayoutInv
  BY LayoutInit, LayoutStep, PTL DEF Spec

\* The files of every configuration, and the region above them, lie at least a gap
\* apart (disk.rs:133-183).
THEOREM FilesAreApart == Spec => []FilesApart
<1>1. LayoutInv => FilesApart
  BY DEF LayoutInv
<1> QED BY <1>1, LayoutInvariant, PTL
-----------------------------------------------------------------------------
(* Commands *)

Name == [of : Ids(files) \cup {Region}, at : Nat]

StartOf(id) == IF id = Region THEN anon_start_index ELSE file_metadata_mapping[id].start_block

LengthOf(id) == IF id = Region THEN MaxPages ELSE file_metadata_mapping[id].num_blocks

\* What the database knows of the places is right.
ToldRight ==
  /\ DOMAIN starts = Ids(files) \cup {Region} /\ DOMAIN lengths = DOMAIN starts
  /\ \A id \in DOMAIN starts : starts[id] # Unknown => starts[id] \in Nat /\ starts[id] = StartOf(id)
  /\ \A id \in DOMAIN starts : lengths[id] # Unknown =>
       lengths[id] \in Nat /\ lengths[id] = LengthOf(id)

\* A block that was asked for lies where it is looked for, and not a gap too far.
AskedRight(k) ==
  /\ command.start + k = StartOf(asked[k].of) + asked[k].at + 1
  /\ asked[k].of = Region => asked[k].at < MaxPages
  /\ asked[k].of # Region => asked[k].at < LengthOf(asked[k].of) + MaxCount

PagesTypeOK ==
  /\ DOMAIN anon_pages \subseteq {anon_start_index + p : p \in 0..(MaxPages - 1)}
  /\ anon_pages \in [DOMAIN anon_pages -> Contents]

CommandTypeOK ==
  /\ phase \in {"validate", "map", "command", "get", "put", "done", "failed"}
  /\ command \in [start : Nat, count : 0..MaxCount] /\ offset \in 0..command.count
  /\ asked \in Seq(Name) /\ replies \in Seq(Contents \cup FileContents)
  /\ Len(replies) <= Len(asked)

CommandInv ==
  /\ CommandTypeOK
  /\ PagesTypeOK
  /\ ToldRight
  /\ phase \in {"validate", "map"} =>
       /\ anon_pages = << >> /\ asked = << >> /\ replies = << >>
       /\ \A id \in DOMAIN starts : starts[id] = Unknown
       /\ \A id \in DOMAIN starts : id # Region => lengths[id] = Unknown
  /\ phase \in {"get", "put"} =>
       /\ Len(asked) = command.count
       /\ \A k \in 1..command.count : AskedRight(k)
  /\ phase = "get" => Len(replies) = offset
  /\ phase = "put" => replies = << >>

LEMMA CommandInit == Init => CommandInv
<1> SUFFICES ASSUME Init PROVE CommandInv
  OBVIOUS
<1>1. CommandTypeOK
  BY ConstantTypes DEF Init, CommandTypeOK, NoCommand
<1>2. PagesTypeOK
  BY DEF Init, PagesTypeOK
<1>3. ToldRight
  BY ConstantTypes DEF Init, ToldRight, LengthOf
<1> QED BY <1>1, <1>2, <1>3 DEF Init, CommandInv

\* Before there are commands, and after, nothing of them changes.
LEMMA StageKeepsCommands ==
  ASSUME LayoutInv, CommandInv, Validate \/ MapFile \/ PlaceRegion \/ EndOfCommands \/ Fails
  PROVE  CommandInv'
<1>1. UNCHANGED <<files, anon_pages, command, offset, starts, lengths, asked, replies>>
  BY DEF Validate, MapFile, PlaceRegion, EndOfCommands, Fails, layoutVars
<1>2. /\ phase' \in {"map", "command", "done", "failed"}
      /\ phase' = "map" => phase \in {"validate", "map"}
  BY DEF Validate, MapFile, PlaceRegion, EndOfCommands, Fails
<1>3. CASE phase \in {"validate", "map"}
  <2>1. /\ anon_pages = << >> /\ asked = << >> /\ replies = << >>
        /\ \A id \in DOMAIN starts : starts[id] = Unknown
        /\ \A id \in DOMAIN starts : id # Region => lengths[id] = Unknown
    BY <1>3 DEF CommandInv
  <2>2. CommandTypeOK'
    BY <1>1, <1>2, <2>1 DEF CommandInv, CommandTypeOK
  <2>3. PagesTypeOK'
    BY <1>1, <2>1 DEF PagesTypeOK
  <2>4. ToldRight'
    BY <1>1, <2>1 DEF CommandInv, ToldRight, LengthOf
  <2> QED BY <1>1, <1>2, <2>1, <2>2, <2>3, <2>4 DEF CommandInv
<1>4. CASE phase \notin {"validate", "map"}
  <2>1. UNCHANGED layoutVars
    BY <1>4 DEF Validate, MapFile, PlaceRegion, EndOfCommands, Fails
  <2>2. CommandTypeOK'
    BY <1>1, <1>2, <2>1 DEF CommandInv, CommandTypeOK, Name, FileContents, layoutVars
  <2>3. PagesTypeOK'
    BY <1>1, <2>1 DEF CommandInv, PagesTypeOK, layoutVars
  <2>4. ToldRight'
    BY <1>1, <2>1 DEF CommandInv, ToldRight, StartOf, LengthOf, layoutVars
  <2> QED BY <1>1, <1>2, <1>4, <2>2, <2>3, <2>4 DEF CommandInv
<1> QED BY <1>3, <1>4

\* While commands are served every table of the configuration has its place.
LEMMA TableIsMapped ==
  ASSUME LayoutInv, phase \in Running, NEW id \in Ids(files)
  PROVE  id \in DOMAIN file_metadata_mapping /\ id # Region
<1>1. mapped = Len(files) /\ files \in FileLists
  BY DEF LayoutInv, MappingTypeOK
<1>2. DOMAIN files = 1..Len(files)
  BY <1>1, DiskAssumption
<1> QED BY <1>1, <1>2, DiskAssumption DEF Ids, LayoutInv, MappingTypeOK

LEMMA TellStartKeepsCommands ==
  ASSUME LayoutInv, CommandInv, TellStart
  PROVE  CommandInv'
<1>1. /\ phase = "command"
      /\ UNCHANGED <<layoutVars, phase, anon_pages, command, offset, lengths, asked, replies>>
  BY DEF TellStart
<1>2. CommandTypeOK' /\ PagesTypeOK'
  BY <1>1 DEF CommandInv, CommandTypeOK, PagesTypeOK, Name, FileContents, layoutVars
<1>3. ToldRight'
  <2>1. PICK id \in DOMAIN starts :
          starts' = [starts EXCEPT ![id] = IF id = Region THEN anon_start_index
                                             ELSE file_metadata_mapping[id].start_block]
    BY DEF TellStart
  <2>2. id # Region => id \in DOMAIN file_metadata_mapping
    BY <1>1, TableIsMapped DEF CommandInv, ToldRight, Running
  <2>3. StartOf(id) \in Nat
    BY <2>2, ConstantTypes DEF StartOf, LayoutInv, MappingTypeOK
  <2>4. starts'[id] = StartOf(id) /\ DOMAIN starts' = DOMAIN starts
        /\ \A z \in DOMAIN starts : z # id => starts'[z] = starts[z]
    BY <2>1, <2>2 DEF StartOf, CommandInv, ToldRight
  <2>5. \A z : StartOf(z)' = StartOf(z) /\ LengthOf(z)' = LengthOf(z)
    BY <1>1 DEF StartOf, LengthOf, layoutVars
  <2> QED BY <1>1, <2>3, <2>4, <2>5 DEF CommandInv, ToldRight, layoutVars
<1> QED BY <1>1, <1>2, <1>3 DEF CommandInv

LEMMA TellLengthKeepsCommands ==
  ASSUME LayoutInv, CommandInv, TellLength
  PROVE  CommandInv'
<1>1. /\ phase = "command"
      /\ UNCHANGED <<layoutVars, phase, anon_pages, command, offset, starts, asked, replies>>
  BY DEF TellLength
<1>2. CommandTypeOK' /\ PagesTypeOK'
  BY <1>1 DEF CommandInv, CommandTypeOK, PagesTypeOK, Name, FileContents, layoutVars
<1>3. ToldRight'
  <2>1. PICK id \in Ids(files) :
          lengths' = [lengths EXCEPT ![id] = file_metadata_mapping[id].num_blocks]
    BY DEF TellLength
  <2>2. id # Region /\ id \in DOMAIN file_metadata_mapping
    BY <1>1, TableIsMapped DEF Running
  <2>3. LengthOf(id) \in Nat
    BY <2>2, ConstantTypes DEF LengthOf, LayoutInv, MappingTypeOK
  <2>4. lengths'[id] = LengthOf(id) /\ DOMAIN lengths' = DOMAIN lengths
        /\ \A z \in DOMAIN lengths : z # id => lengths'[z] = lengths[z]
    BY <2>1, <2>2 DEF LengthOf, CommandInv, ToldRight
  <2>5. \A z : StartOf(z)' = StartOf(z) /\ LengthOf(z)' = LengthOf(z)
    BY <1>1 DEF StartOf, LengthOf, layoutVars
  <2> QED BY <1>1, <2>3, <2>4, <2>5 DEF CommandInv, ToldRight, layoutVars
<1> QED BY <1>1, <1>2, <1>3 DEF CommandInv

LEMMA SendCommandKeepsCommands ==
  ASSUME LayoutInv, CommandInv, SendCommand
  PROVE  CommandInv'
<1>1. /\ phase = "command" /\ phase' \in {"get", "put"} /\ offset' = 0 /\ replies' = << >>
      /\ UNCHANGED <<layoutVars, anon_pages, starts, lengths>>
  BY DEF SendCommand
<1>2. PICK id \in DOMAIN starts, at \in Nat, count \in 0..MaxCount :
        /\ starts[id] # Unknown /\ lengths[id] # Unknown /\ at <= lengths[id] - 1
        /\ id = Region => at + count <= MaxPages
        /\ command' = [start |-> starts[id] + at, count |-> count]
        /\ asked' = [k \in 1..count |-> [of |-> id, at |-> at + k - 1]]
  <2>1. \A id \in DOMAIN starts : lengths[id] # Unknown => lengths[id] \in Nat
    BY DEF CommandInv, ToldRight
  <2> QED BY <2>1 DEF SendCommand
<1>3. /\ starts[id] = StartOf(id) /\ lengths[id] = LengthOf(id)
      /\ StartOf(id) \in Nat /\ LengthOf(id) \in Nat /\ id \in Ids(files) \cup {Region}
  BY <1>2 DEF CommandInv, ToldRight
<1>4. /\ at \in Nat /\ at < LengthOf(id) /\ count \in Nat /\ count <= MaxCount
      /\ MaxCount \in Nat /\ MaxPages \in Nat
  BY <1>2, <1>3, ConstantTypes
<1>5. command' \in [start : Nat, count : 0..MaxCount]
      /\ command'.start = StartOf(id) + at /\ command'.count = count
  BY <1>2, <1>3, <1>4
<1>6. \A k \in 1..count : asked'[k].of = id /\ asked'[k].at = at + k - 1 /\ asked'[k] \in Name
  BY <1>2, <1>3, <1>4 DEF Name
<1>7. asked' \in Seq(Name) /\ Len(asked') = count
  <2>1. asked' \in [1..count -> Name]
    BY <1>2, <1>6
  <2> QED BY <2>1, <1>4, FunctionIsSequence
<1>8. CommandTypeOK'
  BY <1>1, <1>4, <1>5, <1>7 DEF CommandTypeOK, Name, layoutVars
<1>9. PagesTypeOK' /\ ToldRight'
  BY <1>1 DEF CommandInv, PagesTypeOK, ToldRight, StartOf, LengthOf, layoutVars
<1>10. \A k \in 1..command'.count : AskedRight(k)'
  <2> SUFFICES ASSUME NEW k \in 1..count PROVE AskedRight(k)'
    BY <1>5
  <2>1. StartOf(id)' = StartOf(id) /\ LengthOf(id)' = LengthOf(id)
    BY <1>1 DEF StartOf, LengthOf, layoutVars
  <2>2. asked'[k].of = id /\ asked'[k].at = at + k - 1
    BY <1>6
  <2>3. command'.start + k = StartOf(id) + (at + k - 1) + 1
    BY <1>3, <1>4, <1>5
  <2>4. id = Region => at + k - 1 < MaxPages
    BY <1>2, <1>4
  <2>5. at + k - 1 < LengthOf(id) + MaxCount
    BY <1>3, <1>4
  <2> QED BY <2>1, <2>2, <2>3, <2>4, <2>5 DEF AskedRight, StartOf, LengthOf
<1> QED BY <1>1, <1>5, <1>7, <1>8, <1>9, <1>10 DEF CommandInv

\* The block that is served: where it lies, and that it was asked for.
LEMMA ServedBlock ==
  ASSUME LayoutInv, CommandInv, NEW kind \in {"get", "put"}, Serving(kind)
  PROVE  /\ offset \in Nat /\ offset + 1 \in 1..command.count /\ offset + 1 \in 1..Len(asked)
         /\ asked[offset + 1] \in Name /\ Block \in Nat
         /\ Block = StartOf(asked[offset + 1].of) + asked[offset + 1].at
         /\ AskedRight(offset + 1)
<1>1. /\ command \in [start : Nat, count : 0..MaxCount] /\ offset \in 0..command.count
      /\ asked \in Seq(Name) /\ phase = kind /\ offset < command.count
      /\ Len(asked) = command.count /\ \A k \in 1..command.count : AskedRight(k)
  BY DEF CommandInv, CommandTypeOK, Serving
<1>2. /\ offset \in Nat /\ offset + 1 \in 1..command.count /\ offset + 1 \in 1..Len(asked)
      /\ command.start \in Nat
  BY <1>1, ConstantTypes
<1>3. asked[offset + 1] \in Name /\ AskedRight(offset + 1)
  BY <1>1, <1>2, ElementType
<1>4. StartOf(asked[offset + 1].of) \in Nat
  BY <1>3, TableIsMapped DEF StartOf, Name, LayoutInv, MappingTypeOK, Serving, Running
<1> QED BY <1>2, <1>3, <1>4, SMTT(30) DEF AskedRight, Block, Name

\* A block of a table, or somewhat beyond it, is below the region.
LEMMA TableBelowRegion ==
  ASSUME LayoutInv, CommandInv, NEW kind \in {"get", "put"}, Serving(kind),
         asked[offset + 1].of # Region
  PROVE  Block < anon_start_index
<1> DEFINE id == asked[offset + 1].of
<1>1. /\ id \in DOMAIN file_metadata_mapping /\ phase = kind
      /\ Block = file_metadata_mapping[id].start_block + asked[offset + 1].at
      /\ asked[offset + 1].at < file_metadata_mapping[id].num_blocks + MaxCount
      /\ asked[offset + 1].at \in Nat
  BY ServedBlock, TableIsMapped DEF StartOf, LengthOf, AskedRight, Name, Serving, Running
<1>2. EndOf(file_metadata_mapping[id]) + MinGap <= anon_start_index
  BY <1>1 DEF LayoutInv, FilesApart
<1>3. /\ file_metadata_mapping[id].start_block \in Nat /\ file_metadata_mapping[id].num_blocks \in Nat
      /\ anon_start_index \in Nat
  BY <1>1 DEF LayoutInv, MappingTypeOK
<1> QED BY <1>1, <1>2, <1>3, ConstantTypes DEF EndOf

LEMMA GetBlockKeepsCommands ==
  ASSUME LayoutInv, CommandInv, GetBlock
  PROVE  CommandInv'
<1>1. /\ phase = "get" /\ Serving("get") /\ offset' = offset + 1
      /\ UNCHANGED <<layoutVars, phase, anon_pages, command, starts, lengths, asked>>
  BY DEF GetBlock, Serving, Served
<1>2. PICK content \in Contents \cup FileContents : replies' = Append(replies, content)
  BY DEF GetBlock
<1>3. /\ replies \in Seq(Contents \cup FileContents) /\ Len(replies) = offset
      /\ Len(asked) = command.count /\ asked \in Seq(Name)
      /\ command \in [start : Nat, count : 0..MaxCount]
  BY <1>1 DEF CommandInv, CommandTypeOK
<1>4. /\ replies' \in Seq(Contents \cup FileContents) /\ Len(replies') = offset + 1
  BY <1>2, <1>3, AppendProperties
<1>5. offset' \in 0..command.count /\ Len(replies') <= Len(asked)
  BY <1>1, <1>3, <1>4, ServedBlock
<1>6. CommandTypeOK'
  BY <1>1, <1>3, <1>4, <1>5 DEF CommandTypeOK, Name, FileContents, layoutVars
<1>7. PagesTypeOK' /\ ToldRight'
  BY <1>1 DEF CommandInv, PagesTypeOK, ToldRight, StartOf, LengthOf, layoutVars
<1>8. \A k \in 1..command.count : AskedRight(k)'
  BY <1>1 DEF CommandInv, AskedRight, StartOf, LengthOf, layoutVars
<1> QED BY <1>1, <1>3, <1>4, <1>6, <1>7, <1>8 DEF CommandInv

LEMMA PutBlockKeepsCommands ==
  ASSUME LayoutInv, CommandInv, PutBlock
  PROVE  CommandInv'
<1>1. /\ phase = "put" /\ Serving("put") /\ offset' = offset + 1 /\ Block >= anon_start_index
      /\ UNCHANGED <<layoutVars, phase, command, starts, lengths, asked, replies>>
  BY DEF PutBlock, Serving, Served
<1>2. PICK content \in Contents : anon_pages' = With(anon_pages, Block, content)
  BY DEF PutBlock
<1>3. Block \in {anon_start_index + p : p \in 0..(MaxPages - 1)}
  <2>1. anon_start_index \in Nat /\ Block \in Nat
    BY <1>1, ServedBlock DEF LayoutInv, MappingTypeOK
  <2>2. asked[offset + 1].of = Region
    BY <1>1, <2>1, TableBelowRegion
  <2>3. Block = anon_start_index + asked[offset + 1].at /\ asked[offset + 1].at \in 0..(MaxPages - 1)
    BY <1>1, <2>2, ServedBlock, ConstantTypes DEF StartOf, AskedRight, Name
  <2> QED BY <2>3
<1>4. PagesTypeOK'
  BY <1>1, <1>2, <1>3 DEF CommandInv, PagesTypeOK, With, layoutVars
<1>5. CommandTypeOK'
  <2>1. offset' \in 0..command.count
    BY <1>1, ServedBlock DEF CommandInv, CommandTypeOK
  <2> QED BY <1>1, <2>1 DEF CommandInv, CommandTypeOK, Name, FileContents, layoutVars
<1>6. ToldRight'
  BY <1>1 DEF CommandInv, ToldRight, StartOf, LengthOf, layoutVars
<1>7. \A k \in 1..command.count : AskedRight(k)'
  BY <1>1 DEF CommandInv, AskedRight, StartOf, LengthOf, layoutVars
<1> QED BY <1>1, <1>4, <1>5, <1>6, <1>7 DEF CommandInv

LEMMA OtherStepsKeepCommands ==
  ASSUME LayoutInv, CommandInv, EndCommand \/ UNCHANGED vars
  PROVE  CommandInv'
<1>1. /\ UNCHANGED <<layoutVars, anon_pages, command, offset, starts, lengths, asked, replies>>
      /\ phase' = phase \/ phase' = "command"
  BY DEF EndCommand, vars
<1>2. CommandTypeOK'
  BY <1>1 DEF CommandInv, CommandTypeOK, Name, FileContents, layoutVars
<1>3. PagesTypeOK' /\ ToldRight'
  BY <1>1 DEF CommandInv, PagesTypeOK, ToldRight, StartOf, LengthOf, layoutVars
<1>4. (\A k \in 1..command.count : AskedRight(k)) => \A k \in 1..command.count : AskedRight(k)'
  BY <1>1 DEF AskedRight, StartOf, LengthOf, layoutVars
<1> QED BY <1>1, <1>2, <1>3, <1>4 DEF CommandInv

LEMMA CommandStep == LayoutInv /\ CommandInv /\ [Next]_vars => CommandInv'
  BY StageKeepsCommands, TellStartKeepsCommands, TellLengthKeepsCommands,
     SendCommandKeepsCommands, GetBlockKeepsCommands, PutBlockKeepsCommands, OtherStepsKeepCommands DEF Next, Ended

THEOREM CommandInvariant == Spec => [](LayoutInv /\ CommandInv)
<1>1. LayoutInv /\ CommandInv /\ [Next]_vars => (LayoutInv /\ CommandInv)'
  BY LayoutStep, CommandStep
<1> QED BY <1>1, LayoutInit, CommandInit, PTL DEF Spec

-----------------------------------------------------------------------------
(* The head *)

HeadTypeOK ==
  /\ metrics \in [reads : Nat, writes : Nat, blocks : Nat, cylinders : Nat, latencies : Nat]
  /\ current_cylinder \in Nat /\ last_end_block \in Nat
  /\ head \in [block : Nat, blocks : Nat, cylinders : Nat, latencies : Nat]

AtRest ==
  /\ metrics.blocks = head.blocks
  /\ metrics.cylinders = head.cylinders
  /\ metrics.latencies = head.latencies
  /\ last_end_block = head.block /\ current_cylinder = Cylinder(head.block)

\* Some blocks of a command are served that is not counted yet.
UnderWay ==
  /\ head.block + 1 = Block
  /\ head.blocks = metrics.blocks + offset
  /\ head.cylinders = metrics.cylinders + Distance(current_cylinder, Cylinder(command.start))
                        + (Cylinder(head.block) - Cylinder(command.start))
  /\ head.latencies = metrics.latencies + (IF command.start = last_end_block + 1 THEN 0 ELSE 1)

HeadInv ==
  /\ HeadTypeOK
  /\ phase \notin {"get", "put", "failed"} => AtRest
  /\ phase \in {"get", "put"} => IF offset = 0 THEN AtRest ELSE UnderWay

LEMMA CylinderType ==
  ASSUME NEW block \in Nat
  PROVE  Cylinder(block) \in Nat
  BY ConstantTypes, DivType DEF Cylinder

LEMMA CylinderMonotone ==
  ASSUME NEW block \in Nat, NEW other \in Nat, block <= other
  PROVE  Distance(Cylinder(block), Cylinder(other)) = Cylinder(other) - Cylinder(block)
         /\ Distance(Cylinder(other), Cylinder(block)) = Cylinder(other) - Cylinder(block)
<1>1. Cylinder(block) <= Cylinder(other)
  BY ConstantTypes, DivMonotone DEF Cylinder
<1> QED BY <1>1, CylinderType DEF Distance, Larger

LEMMA HeadInit == Init => HeadInv
<1> SUFFICES ASSUME Init PROVE HeadInv
  OBVIOUS
<1>1. Cylinder(0) = 0
  BY ConstantTypes DEF Cylinder
<1> QED BY <1>1 DEF Init, HeadInv, HeadTypeOK, AtRest

\* A block that is served moves the head by one.
LEMMA ServedKeepsHead ==
  ASSUME LayoutInv, CommandInv, HeadInv, NEW kind \in {"get", "put"}, Serving(kind), Served,
         UNCHANGED <<phase, command, metricsVars>>
  PROVE  HeadInv'
<1>1. /\ offset \in Nat /\ Block \in Nat /\ command.start \in Nat /\ Block = command.start + offset
      /\ phase = kind /\ phase' = phase /\ command' = command /\ metrics' = metrics
      /\ current_cylinder' = current_cylinder /\ last_end_block' = last_end_block
      /\ offset' = offset + 1 /\ head' = Moved /\ Block' = Block + 1
  <2>1. offset \in Nat /\ Block \in Nat /\ phase = kind
    BY ServedBlock DEF Serving
  <2>2. command.start \in Nat
    BY DEF CommandInv, CommandTypeOK
  <2> QED BY <2>1, <2>2 DEF Served, metricsVars, Block
<1>2. HeadTypeOK /\ head.block \in Nat /\ head.blocks \in Nat /\ head.cylinders \in Nat
      /\ head.latencies \in Nat /\ metrics.blocks \in Nat /\ metrics.cylinders \in Nat
      /\ metrics.latencies \in Nat
  BY DEF HeadInv, HeadTypeOK
<1>3. /\ Cylinder(head.block) \in Nat /\ Cylinder(Block) \in Nat /\ Cylinder(command.start) \in Nat
      /\ Distance(Cylinder(head.block), Cylinder(Block)) \in Nat
  BY <1>1, <1>2, CylinderType, DistanceType
<1>4. /\ head'.block = Block /\ head'.blocks = head.blocks + 1
      /\ head'.cylinders = head.cylinders + Distance(Cylinder(head.block), Cylinder(Block))
      /\ head'.latencies = head.latencies + (IF Block = head.block + 1 THEN 0 ELSE 1)
      /\ head' \in [block : Nat, blocks : Nat, cylinders : Nat, latencies : Nat]
  BY <1>1, <1>2, <1>3 DEF Moved
<1>5. HeadTypeOK'
  BY <1>1, <1>2, <1>4 DEF HeadTypeOK
<1>6. Cylinder(head'.block) = Cylinder(Block)
  BY <1>4
<1>7. UnderWay'
  <2>1. CASE offset = 0
    <3>1. AtRest /\ Block = command.start
      BY <1>1, <2>1 DEF HeadInv
    <3> QED BY <1>1, <1>2, <1>3, <1>4, <1>6, <2>1, <3>1 DEF UnderWay, AtRest, Cylinder
  <2>2. CASE offset # 0
    <3>1. UnderWay
      BY <1>1, <2>2 DEF HeadInv
    <3>2. Distance(Cylinder(head.block), Cylinder(Block)) = Cylinder(Block) - Cylinder(head.block)
      BY <1>1, <1>2, <3>1, CylinderMonotone DEF UnderWay
    <3>3. Distance(current_cylinder, Cylinder(command.start)) \in Nat
      BY <1>2, <1>3, DistanceType DEF HeadTypeOK
    <3>4. head'.cylinders = metrics.cylinders + Distance(current_cylinder, Cylinder(command.start))
                              + (Cylinder(Block) - Cylinder(command.start))
      BY <1>2, <1>3, <1>4, <3>1, <3>2, <3>3 DEF UnderWay
    <3> QED BY <1>1, <1>2, <1>4, <1>6, <3>1, <3>4 DEF UnderWay, Cylinder
  <2> QED BY <2>1, <2>2
<1> QED BY <1>1, <1>5, <1>7 DEF HeadInv

\* The counts of a whole command are those of its blocks.
LEMMA EndCommandKeepsHead ==
  ASSUME LayoutInv, CommandInv, HeadInv, EndCommand
  PROVE  HeadInv'
<1>1. PICK kind \in {"reads", "writes"} : Counted(kind)
  BY DEF EndCommand
<1>2. /\ phase \in {"get", "put"} /\ phase' = "command" /\ head' = head
      /\ offset = command.count /\ command.start \in Nat /\ command.count \in Nat
  BY ConstantTypes DEF EndCommand, CommandInv, CommandTypeOK
<1>3. /\ HeadTypeOK /\ head.block \in Nat /\ head.blocks \in Nat /\ head.cylinders \in Nat
      /\ head.latencies \in Nat /\ metrics.blocks \in Nat /\ metrics.cylinders \in Nat
      /\ metrics.latencies \in Nat /\ metrics[kind] \in Nat
  BY DEF HeadInv, HeadTypeOK
<1>4. CASE command.count = 0
  <2>1. metrics' = [metrics EXCEPT ![kind] = @ + 1] /\ UNCHANGED <<current_cylinder, last_end_block>>
    BY <1>1, <1>4 DEF Counted
  <2>2. AtRest
    BY <1>2, <1>4 DEF HeadInv
  <2>3. metrics'.blocks = metrics.blocks /\ metrics'.cylinders = metrics.cylinders
        /\ metrics'.latencies = metrics.latencies
        /\ metrics' \in [reads : Nat, writes : Nat, blocks : Nat, cylinders : Nat, latencies : Nat]
    BY <1>3, <2>1 DEF HeadTypeOK
  <2> QED BY <1>2, <1>3, <2>1, <2>2, <2>3 DEF HeadInv, HeadTypeOK, AtRest, Cylinder
<1>5. CASE command.count # 0
  <2> DEFINE end   == command.start + command.count - 1
             seek  == Distance(current_cylinder, Cylinder(command.start))
             cross == Distance(Cylinder(end), Cylinder(command.start))
             turn  == IF command.start = last_end_block + 1 THEN 0 ELSE 1
  <2>1. UnderWay /\ head.block = end /\ end \in Nat /\ command.start <= end
    BY <1>2, <1>3, <1>5 DEF HeadInv, UnderWay, Block
  <2>2. cross = Cylinder(end) - Cylinder(command.start) /\ cross \in Nat /\ seek \in Nat
        /\ turn \in Nat /\ Cylinder(end) \in Nat
    BY <1>2, <1>3, <2>1, CylinderMonotone, CylinderType, DistanceType DEF HeadTypeOK
  <2>3. /\ metrics' = [metrics EXCEPT ![kind] = @ + 1, !.blocks = @ + command.count,
                         !.cylinders = @ + seek + cross, !.latencies = @ + turn]
        /\ current_cylinder' = Cylinder(end) /\ last_end_block' = end
    BY <1>1, <1>5 DEF Counted, HeadMoves
  <2> HIDE DEF seek, cross, turn, end
  <2>4. /\ metrics'.blocks = metrics.blocks + command.count
        /\ metrics'.cylinders = metrics.cylinders + seek + cross
        /\ metrics'.latencies = metrics.latencies + turn
        /\ metrics' \in [reads : Nat, writes : Nat, blocks : Nat, cylinders : Nat, latencies : Nat]
    <3>2. kind # "blocks" /\ kind # "cylinders" /\ kind # "latencies"
      OBVIOUS
    <3>3. metrics'.blocks = metrics.blocks + command.count
      BY <1>3, <2>3, <3>2 DEF HeadTypeOK
    <3>4. metrics'.cylinders = metrics.cylinders + seek + cross
      BY <1>3, <2>3, <3>2 DEF HeadTypeOK
    <3>5. metrics'.latencies = metrics.latencies + turn
      BY <1>3, <2>3, <3>2 DEF HeadTypeOK
    <3>6. metrics'.reads \in Nat /\ metrics'.writes \in Nat
      <4>1. DOMAIN metrics = {"reads", "writes", "blocks", "cylinders", "latencies"}
            /\ metrics["reads"] \in Nat /\ metrics["writes"] \in Nat
        BY <1>3 DEF HeadTypeOK
      <4>2. metrics'["reads"] = IF kind = "reads" THEN metrics["reads"] + 1 ELSE metrics["reads"]
        BY <2>3, <4>1
      <4>3. metrics'["writes"] = IF kind = "writes" THEN metrics["writes"] + 1 ELSE metrics["writes"]
        BY <2>3, <4>1
      <4> QED BY <4>1, <4>2, <4>3
    <3>7. metrics' = [reads |-> metrics'.reads, writes |-> metrics'.writes, blocks |-> metrics'.blocks,
                      cylinders |-> metrics'.cylinders, latencies |-> metrics'.latencies]
      BY <1>3, <2>3, <3>2 DEF HeadTypeOK
    <3> QED BY <1>2, <1>3, <2>2, <3>3, <3>4, <3>5, <3>6, <3>7
  <2>5. /\ head.blocks = metrics.blocks + command.count
        /\ head.cylinders = metrics.cylinders + seek + cross
        /\ head.latencies = metrics.latencies + turn
    BY <1>2, <1>3, <2>1, <2>2 DEF UnderWay, seek, cross, turn
  <2>6. AtRest'
    BY <1>2, <2>1, <2>3, <2>4, <2>5 DEF AtRest, Cylinder
  <2>7. HeadTypeOK'
    BY <1>2, <1>3, <2>1, <2>2, <2>3, <2>4 DEF HeadTypeOK
  <2> QED BY <1>2, <2>6, <2>7 DEF HeadInv
<1> QED BY <1>4, <1>5

\* The head rests while no block is served.
LEMMA HeadKept ==
  ASSUME HeadInv, UNCHANGED <<metricsVars, head>>,
         \/ phase' \notin {"get", "put"} /\ phase \notin {"get", "put", "failed"}
         \/ phase' = "failed"
         \/ phase = "command" /\ phase' \in {"get", "put"} /\ offset' = 0
  PROVE  HeadInv'
  BY DEF HeadInv, HeadTypeOK, AtRest, Cylinder, metricsVars

LEMMA HeadStep == LayoutInv /\ CommandInv /\ HeadInv /\ [Next]_vars => HeadInv'
<1> SUFFICES ASSUME LayoutInv, CommandInv, HeadInv, [Next]_vars PROVE HeadInv'
  OBVIOUS
<1>1. CASE GetBlock
  BY <1>1, ServedKeepsHead DEF GetBlock
<1>2. CASE PutBlock
  BY <1>2, ServedKeepsHead DEF PutBlock
<1>3. CASE EndCommand
  BY <1>3, EndCommandKeepsHead
<1>4. CASE SendCommand
  BY <1>4, HeadKept DEF SendCommand
<1>5. CASE Validate \/ MapFile \/ PlaceRegion \/ TellStart \/ TellLength \/ Fails \/ EndOfCommands
  BY <1>5, HeadKept DEF Validate, MapFile, PlaceRegion, TellStart, TellLength, Fails, EndOfCommands
<1>6. CASE UNCHANGED vars
  BY <1>6 DEF vars, metricsVars, HeadInv, HeadTypeOK, AtRest, UnderWay, Block, Cylinder
<1> QED BY <1>1, <1>2, <1>3, <1>4, <1>5, <1>6 DEF Next, Ended

DiskInv == LayoutInv /\ CommandInv /\ HeadInv

THEOREM DiskInvariant == Spec => []DiskInv
<1>1. Init => DiskInv
  BY LayoutInit, CommandInit, HeadInit DEF DiskInv
<1>2. DiskInv /\ [Next]_vars => DiskInv'
  BY LayoutStep, CommandStep, HeadStep DEF DiskInv
<1> QED BY <1>1, <1>2, PTL DEF Spec

\* However a run of blocks is split into commands, the disk counts the blocks,
\* cylinders and latencies of a head that goes through them (disk_io_metrics.rs:76-128).
THEOREM CountsFollowHead == Spec => []MetricsFollowHead
<1>1. DiskInv => MetricsFollowHead
  BY DEF DiskInv, HeadInv, AtRest, MetricsFollowHead
<1> QED BY <1>1, DiskInvariant, PTL

\* The state is well typed; what the database was told of the places is right.
THEOREM TypeCorrect == Spec => []TypeOK
<1>1. DiskInv => TypeOK
  <2> SUFFICES ASSUME DiskInv PROVE TypeOK
    OBVIOUS
  <2>1. \A id \in DOMAIN starts : starts[id] # Unknown => starts[id] = StartOf(id)
    BY DEF DiskInv, CommandInv, ToldRight
  <2>2. Len(replies) \in 0..Len(asked)
    BY DEF DiskInv, CommandInv, CommandTypeOK
  <2> QED BY <2>1, <2>2 DEF TypeOK, DiskInv, LayoutInv, MappingTypeOK, CommandInv, CommandTypeOK,
                            PagesTypeOK, HeadInv, HeadTypeOK, StartOf
<1> QED BY <1>1, DiskInvariant, PTL

-----------------------------------------------------------------------------
(* The refinement *)

LEMMA FileOfTable ==
  ASSUME LayoutInv, mapped = Len(files), NEW id \in DOMAIN file_metadata_mapping
  PROVE  /\ FileOf(id) = file_metadata_mapping[id].file
         /\ id \in Ids(files)
         /\ TablesSeen[id].file = file_metadata_mapping[id].file
         /\ TablesSeen[id].blocks = file_metadata_mapping[id].num_blocks
<1> DEFINE i == file_metadata_mapping[id].file
           IsLast(k) == files[k].id = id /\ \A j \in DOMAIN files : files[j].id = id => j <= k
<1>1. files \in FileLists /\ Len(files) \in Nat /\ DOMAIN files = 1..Len(files)
  BY DiskAssumption DEF LayoutInv, MappingTypeOK
<1>2. i \in DOMAIN files /\ IsLast(i) /\ file_metadata_mapping[id].num_blocks = Blocks(files[i])
  BY <1>1 DEF LayoutInv, MappingTypeOK, MappedRight
<1>3. \A k \in DOMAIN files : IsLast(k) => k = i
  BY <1>1, <1>2
<1>4. FileOf(id) = CHOOSE k \in DOMAIN files : IsLast(k)
  BY DEF FileOf
<1>5. FileOf(id) = i
  <2> HIDE DEF i, IsLast
  <2> QED BY <1>2, <1>3, <1>4
<1>6. id \in Ids(files)
  BY <1>2 DEF Ids
<1> QED BY <1>2, <1>5, <1>6 DEF TablesSeen

\* A page is found at its number above the start of the region.
PagesInPlace ==
  /\ \A p : p \in DOMAIN PagesSeen <=> p \in Nat /\ anon_start_index + p \in DOMAIN anon_pages
  /\ \A p \in DOMAIN PagesSeen : PagesSeen[p] = anon_pages[anon_start_index + p]

LEMMA PageSeen == LayoutInv /\ CommandInv => PagesInPlace
<1> SUFFICES ASSUME LayoutInv, CommandInv PROVE PagesInPlace
  OBVIOUS
<1>1. anon_start_index \in Nat
  BY DEF LayoutInv, MappingTypeOK
<1>2. DOMAIN PagesSeen = {b - anon_start_index : b \in DOMAIN anon_pages}
  BY DEF PagesSeen
<1>3. \A b \in DOMAIN anon_pages : b \in Nat /\ b - anon_start_index \in Nat
  BY <1>1, ConstantTypes DEF CommandInv, PagesTypeOK
<1>4. \A p : p \in DOMAIN PagesSeen <=> p \in Nat /\ anon_start_index + p \in DOMAIN anon_pages
  BY <1>1, <1>2, <1>3
<1>5. \A p \in DOMAIN PagesSeen : PagesSeen[p] = anon_pages[p + anon_start_index]
  BY DEF PagesSeen
<1>6. \A p \in DOMAIN PagesSeen : p + anon_start_index = anon_start_index + p
  BY <1>1, <1>4
<1> QED BY <1>4, <1>5, <1>6 DEF PagesInPlace

\* A file that holds a block that was asked for is the one it was asked of.
LEMMA HolderIsTable ==
  ASSUME LayoutInv, CommandInv, Serving("get"), asked[offset + 1].of # Region,
         NEW id \in Holders(Block)
  PROVE  /\ id = asked[offset + 1].of
         /\ asked[offset + 1].at = Block - file_metadata_mapping[id].start_block
         /\ asked[offset + 1].at < file_metadata_mapping[id].num_blocks
<1> DEFINE own == asked[offset + 1].of
<1>1. /\ own \in DOMAIN file_metadata_mapping /\ Block \in Nat
      /\ Block = file_metadata_mapping[own].start_block + asked[offset + 1].at
      /\ asked[offset + 1].at < file_metadata_mapping[own].num_blocks + MaxCount
      /\ asked[offset + 1].at \in Nat
  BY ServedBlock, TableIsMapped DEF StartOf, LengthOf, AskedRight, Name, Serving, Running
<1>2. /\ id \in DOMAIN file_metadata_mapping
      /\ Block >= file_metadata_mapping[id].start_block
      /\ Block < EndOf(file_metadata_mapping[id])
  BY DEF Holders
<1>3. /\ file_metadata_mapping[own].start_block \in Nat /\ file_metadata_mapping[own].num_blocks \in Nat
      /\ file_metadata_mapping[id].start_block \in Nat /\ file_metadata_mapping[id].num_blocks \in Nat
  BY <1>1, <1>2 DEF LayoutInv, MappingTypeOK
<1>4. id # own => \/ EndOf(file_metadata_mapping[own]) + MinGap <= file_metadata_mapping[id].start_block
                  \/ EndOf(file_metadata_mapping[id]) + MinGap <= file_metadata_mapping[own].start_block
  BY <1>1, <1>2 DEF LayoutInv, FilesApart
<1>5. id = own
  BY <1>1, <1>2, <1>3, <1>4, ConstantTypes DEF EndOf
<1> QED BY <1>1, <1>2, <1>3, <1>5 DEF EndOf

LEMMA DeviceInitially == Init => Device!DeviceInit
<1> SUFFICES ASSUME Init PROVE Device!DeviceInit
  OBVIOUS
<1>1. DOMAIN anon_pages = {}
  BY DEF Init
<1>2. PagesSeen = << >>
  BY <1>1 DEF PagesSeen
<1> QED BY <1>2 DEF Init, Device!DeviceInit

LEMMA StutterStep ==
  ASSUME LayoutInv, CommandInv,
         Validate \/ MapFile \/ PlaceRegion \/ TellStart \/ TellLength \/ Fails \/ EndCommand \/ EndOfCommands
           \/ UNCHANGED vars
  PROVE  UNCHANGED Device!deviceVars
<1>1. UNCHANGED <<files, anon_pages, asked, replies>>
  BY DEF Validate, MapFile, PlaceRegion, TellStart, TellLength, Fails, EndCommand, EndOfCommands, vars, layoutVars
<1>2. TablesSeen' = TablesSeen
  BY <1>1 DEF TablesSeen, FileOf
<1>3. PagesSeen' = PagesSeen
  <2>1. CASE PlaceRegion
    <3>1. DOMAIN anon_pages = {} /\ DOMAIN anon_pages' = {}
      BY <1>1, <2>1 DEF PlaceRegion, CommandInv
    <3> QED BY <3>1 DEF PagesSeen
  <2>2. CASE ~PlaceRegion
    <3>1. anon_start_index' = anon_start_index
      BY <2>2 DEF Validate, MapFile, TellStart, TellLength, Fails, EndCommand, EndOfCommands, vars, layoutVars
    <3> QED BY <1>1, <3>1 DEF PagesSeen
  <2> QED BY <2>1, <2>2
<1> QED BY <1>1, <1>2, <1>3 DEF Device!deviceVars

LEMMA SendIsAsk ==
  ASSUME LayoutInv, CommandInv, SendCommand
  PROVE  Device!Ask
<1>1. UNCHANGED <<layoutVars, anon_pages>> /\ replies' = << >>
  BY DEF SendCommand
<1>2. TablesSeen' = TablesSeen /\ PagesSeen' = PagesSeen
  BY <1>1 DEF TablesSeen, FileOf, PagesSeen, layoutVars
<1>3. asked' \in Seq(Name)
  BY <1>1, SendCommandKeepsCommands DEF CommandInv, CommandTypeOK, Name, layoutVars
<1>4. DOMAIN TablesSeen = Ids(files)
  BY DEF TablesSeen
<1> QED BY <1>1, <1>2, <1>3, <1>4 DEF Device!Ask, Name

LEMMA GetIsAnswer ==
  ASSUME LayoutInv, CommandInv, GetBlock
  PROVE  Device!Answer
<1> DEFINE name == asked[offset + 1]
<1>1. /\ Serving("get") /\ phase = "get" /\ UNCHANGED <<layoutVars, anon_pages, asked>>
  BY DEF GetBlock, Serving
<1>2. PICK content : ReadBlock(content) /\ replies' = Append(replies, content)
  BY DEF GetBlock
<1>3. /\ Len(replies) = offset /\ Len(replies) < Len(asked)
      /\ name \in Name /\ Block = StartOf(name.of) + name.at /\ offset \in Nat
  BY <1>1, ServedBlock DEF CommandInv, Serving
<1>4. TablesSeen' = TablesSeen /\ PagesSeen' = PagesSeen
  BY <1>1 DEF TablesSeen, FileOf, PagesSeen, layoutVars
<1>5. Device!Exists(name) /\ content = Device!ContentOf(name)
  <2>1. CASE name.of = Region
    <3>1. Block = anon_start_index + name.at /\ anon_start_index \in Nat /\ name.at \in Nat
      BY <1>3, <2>1 DEF StartOf, LayoutInv, MappingTypeOK, Name
    <3>2. Block \in DOMAIN anon_pages /\ content = anon_pages[Block]
      BY <1>2, <3>1 DEF ReadBlock
    <3>3. name.at \in DOMAIN PagesSeen /\ PagesSeen[name.at] = anon_pages[Block]
      BY <3>1, <3>2, PageSeen DEF PagesInPlace
    <3> QED BY <2>1, <3>2, <3>3 DEF Device!Exists, Device!ContentOf
  <2>2. CASE name.of # Region
    <3>1. Block < anon_start_index /\ Block \in Nat /\ anon_start_index \in Nat
      BY <1>1, <2>2, TableBelowRegion, ServedBlock DEF LayoutInv, MappingTypeOK
    <3>2. PICK id \in Holders(Block) :
            content = <<file_metadata_mapping[id].file,
                        Block - file_metadata_mapping[id].start_block>>
      BY <1>2, <3>1 DEF ReadBlock
    <3>3. /\ id = name.of /\ name.at = Block - file_metadata_mapping[id].start_block
          /\ name.at < file_metadata_mapping[id].num_blocks
      BY <1>1, <2>2, HolderIsTable
    <3>4. /\ name.of \in Ids(files)
          /\ TablesSeen[name.of].file = file_metadata_mapping[id].file
          /\ TablesSeen[name.of].blocks = file_metadata_mapping[id].num_blocks
      BY <1>1, <3>3, FileOfTable DEF Holders, LayoutInv, Running
    <3>5. DOMAIN TablesSeen = Ids(files)
      BY DEF TablesSeen
    <3> QED BY <2>2, <3>2, <3>3, <3>4, <3>5 DEF Device!Exists, Device!ContentOf
  <2> QED BY <2>1, <2>2
<1> QED BY <1>1, <1>2, <1>3, <1>4, <1>5 DEF Device!Answer

LEMMA PutIsStore ==
  ASSUME LayoutInv, CommandInv, PutBlock
  PROVE  Device!Store
<1> DEFINE at == asked[offset + 1].at
<1>1. /\ Serving("put") /\ Block >= anon_start_index
      /\ UNCHANGED <<layoutVars, asked, replies>>
  BY DEF PutBlock, Serving
<1>2. PICK content \in Contents : anon_pages' = With(anon_pages, Block, content)
  BY DEF PutBlock
<1>3. anon_start_index \in Nat /\ Block \in Nat /\ offset + 1 \in DOMAIN asked
      /\ asked[offset + 1] \in Name
  BY <1>1, ServedBlock DEF LayoutInv, MappingTypeOK, CommandInv, CommandTypeOK
<1>4. asked[offset + 1].of = Region
  BY <1>1, <1>3, TableBelowRegion
<1>5. Block = anon_start_index + at /\ at \in Nat
  BY <1>1, <1>3, <1>4, ServedBlock DEF StartOf, Name
<1>6. TablesSeen' = TablesSeen /\ anon_start_index' = anon_start_index
  BY <1>1 DEF TablesSeen, FileOf, layoutVars
<1>7. PagesInPlace /\ PagesInPlace'
  <2>1. (LayoutInv /\ CommandInv)'
    BY LayoutStep, PutBlockKeepsCommands DEF Next
  <2>2. PagesInPlace'
    BY <2>1, PageSeen, PTL
  <2> QED BY <2>2, PageSeen
<1>8. \A p : p \in DOMAIN PagesSeen' <=> p \in DOMAIN PagesSeen \cup {at}
  <2>1. \A p : p \in DOMAIN PagesSeen' <=> p \in Nat /\ anon_start_index + p \in DOMAIN anon_pages'
    BY <1>6, <1>7 DEF PagesInPlace
  <2>2. DOMAIN anon_pages' = DOMAIN anon_pages \cup {Block}
    BY <1>2 DEF With
  <2>3. \A p \in Nat : anon_start_index + p = Block <=> p = at
    BY <1>3, <1>5
  <2> QED BY <1>5, <2>1, <2>2, <2>3, <1>7 DEF PagesInPlace
<1>9. \A p \in DOMAIN PagesSeen' : PagesSeen'[p] = IF p = at THEN content ELSE PagesSeen[p]
  <2> SUFFICES ASSUME NEW p \in DOMAIN PagesSeen'
               PROVE  PagesSeen'[p] = IF p = at THEN content ELSE PagesSeen[p]
    OBVIOUS
  <2>1. PagesSeen'[p] = anon_pages'[anon_start_index + p] /\ p \in Nat
        /\ anon_start_index + p \in DOMAIN anon_pages'
    BY <1>6, <1>7 DEF PagesInPlace
  <2>2. anon_pages'[anon_start_index + p] =
          IF anon_start_index + p = Block THEN content ELSE anon_pages[anon_start_index + p]
    BY <1>2, <2>1 DEF With
  <2>3. anon_start_index + p = Block <=> p = at
    BY <1>3, <1>5, <2>1
  <2>4. p # at => PagesSeen[p] = anon_pages[anon_start_index + p]
    BY <1>7, <1>8 DEF PagesInPlace
  <2> QED BY <2>1, <2>2, <2>3, <2>4
<1>10. PagesSeen' = [p \in DOMAIN PagesSeen \cup {at} |-> IF p = at THEN content ELSE PagesSeen[p]]
  <2>1. DOMAIN PagesSeen' = DOMAIN PagesSeen \cup {at}
    BY <1>8
  <2>2. PagesSeen' = [p \in DOMAIN PagesSeen' |-> PagesSeen'[p]]
    BY DEF PagesSeen
  <2> QED BY <1>9, <2>1, <2>2
<1> QED BY <1>1, <1>3, <1>4, <1>6, <1>10 DEF Device!Store

\* For every configuration, gap and size of block, and every sequence of commands
\* that run over the end of a table by less than a gap, the disk process is a
\* BlockDevice: a table reads as its file, a page as what was put there last.
THEOREM DiskImplementsBlockDevice == Spec => ImplementsBlockDevice
<1>1. LayoutInv /\ CommandInv /\ [Next]_vars => [Device!DeviceNext]_(Device!deviceVars)
  BY StutterStep, SendIsAsk, GetIsAnswer, PutIsStore DEF Next, Ended, Device!DeviceNext
<1> QED BY <1>1, DeviceInitially, CommandInvariant, PTL DEF Spec, ImplementsBlockDevice, Device!DeviceSpec
=============================================================================
