---------------------------- MODULE BlockDevice ----------------------------
(***************************************************************************)
(* What the disk process promises the database, without block numbers: the *)
(* blocks of a table are those of its file and no command changes them; a  *)
(* page exists once it was put and holds what was put there last; a get is *)
(* answered block by block, in the order in which they were asked for, and *)
(* stops at a block that does not exist.                                   *)
(***************************************************************************)
EXTENDS Naturals, Sequences

CONSTANTS
  Region,   \* the owner of the pages, as opposed to the id of a table
  Contents  \* what a page may hold

VARIABLES
  tables,   \* id -> the file behind it and its number of blocks
  pages,    \* the pages that were put -> what they hold
  asked,    \* the blocks the command is about, each an owner and an index
  replies   \* what was answered to it so far

deviceVars == <<tables, pages, asked, replies>>

Exists(name) ==
  IF name.of = Region THEN name.at \in DOMAIN pages
    ELSE name.of \in DOMAIN tables /\ name.at < tables[name.of].blocks

ContentOf(name) ==
  IF name.of = Region THEN pages[name.at] ELSE <<tables[name.of].file, name.at>>

DeviceInit == pages = << >> /\ asked = << >> /\ replies = << >>

Ask ==
  /\ asked' \in Seq([of : DOMAIN tables \cup {Region}, at : Nat])
  /\ replies' = << >>
  /\ UNCHANGED <<tables, pages>>

Answer ==
  /\ Len(replies) < Len(asked)
  /\ LET name == asked[Len(replies) + 1]
     IN Exists(name) /\ replies' = Append(replies, ContentOf(name))
  /\ UNCHANGED <<tables, pages, asked>>

Store ==
  /\ \E k \in DOMAIN asked, content \in Contents :
       /\ asked[k].of = Region
       /\ pages' = [p \in DOMAIN pages \cup {asked[k].at} |->
                      IF p = asked[k].at THEN content ELSE pages[p]]
  /\ UNCHANGED <<tables, asked, replies>>

DeviceNext == Ask \/ Answer \/ Store

DeviceSpec == DeviceInit /\ [][DeviceNext]_deviceVars
=============================================================================
