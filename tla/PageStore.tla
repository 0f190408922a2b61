----------------------------- MODULE PageStore -----------------------------
(***************************************************************************)
(* What temporary storage promises its callers, with no blocks in it: a    *)
(* file is a sequence of pages, an operation on one file changes that file *)
(* and no other, and a page holds what was last written to it.             *)
(*                                                                         *)
(* A page that was allocated and not yet written holds anything: the       *)
(* storage recycles the blocks of deleted files without clearing them.     *)
(***************************************************************************)
EXTENDS Naturals, Sequences

CONSTANTS
  FileIds,    \* the ids a file may be given
  Pages,      \* the contents a page may have
  Unwritten,  \* what a page holds when its block was never written
  MaxExtent   \* the most pages one call asks for

VARIABLE store  \* the live files: id -> sequence of pages

Held == Pages \cup {Unwritten}

PageRuns == UNION {[1..n -> Pages] : n \in 1..MaxExtent}

StoreType ==
  /\ DOMAIN store \subseteq FileIds
  /\ store \in [DOMAIN store -> Seq(Held)]

StoreInit == store = << >>

Create(f) ==
  /\ f \notin DOMAIN store
  /\ store' = [g \in DOMAIN store \cup {f} |-> IF g = f THEN << >> ELSE store[g]]

Delete(f) ==
  /\ f \in DOMAIN store
  /\ store' = [g \in DOMAIN store \ {f} |-> store[g]]

\* Reserve one page; its content is arbitrary until it is written.
Reserve(f) ==
  /\ f \in DOMAIN store
  /\ \E junk \in Held : store' = [store EXCEPT ![f] = Append(@, junk)]

AppendPages(f, data) ==
  /\ f \in DOMAIN store
  /\ store' = [store EXCEPT ![f] = @ \o data]

\* Overwrite the pages p, p+1, ... of f, counted from 0.
Overwrite(f, p, data) ==
  /\ f \in DOMAIN store
  /\ p + Len(data) <= Len(store[f])
  /\ store' = [store EXCEPT ![f] =
       [i \in DOMAIN @ |->
          IF i \in p+1..p+Len(data) THEN data[i - p] ELSE @[i]]]

StoreNext ==
  \/ \E f \in FileIds : Create(f)
  \/ \E f \in DOMAIN store :
       \/ Delete(f)
       \/ Reserve(f)
       \/ \E data \in PageRuns :
            \/ AppendPages(f, data)
            \/ \E p \in 0..Len(store[f]) : Overwrite(f, p, data)

StoreSpec == StoreInit /\ [][StoreNext]_store
=============================================================================
