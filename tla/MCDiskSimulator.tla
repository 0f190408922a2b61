-------------------------- MODULE MCDiskSimulator ---------------------------
(***************************************************************************)
(* Instances of DiskSimulator for TLC: no file, one, two of which the one  *)
(* or the other needs the larger room, three, an id that comes twice, and  *)
(* files that are not whole blocks.                                        *)
(***************************************************************************)
EXTENDS DiskSimulator

File(id, size) == [id |-> id, size |-> size]

MCFileLists ==
  { << >>, <<File("t", 4)>>, <<File("t", 8), File("u", 4)>>, <<File("t", 4), File("u", 8)>>,
    <<File("t", 4), File("u", 4), File("v", 4)>>, <<File("t", 8), File("t", 4)>>,
    <<File("t", 0)>>, <<File("t", 6)>> }
=============================================================================
