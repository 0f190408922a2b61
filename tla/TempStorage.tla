---------------------------- MODULE TempStorage ----------------------------
(***************************************************************************)
(* TempStorageManager (database/src/temp_storage.rs): temporary files laid *)
(* out in extents of blocks of the disk's anonymous region, a free list    *)
(* fed by deleted files, best-fit reuse, and growth of the region when no  *)
(* free extent is large enough.  The manager runs in one thread, so a call *)
(* is one step; a call that returns Err before it changes anything is no   *)
(* step at all.                                                            *)
(***************************************************************************)
EXTENDS Naturals, Sequences

CONSTANTS
  Pages,      \* the contents a page may have
  Unwritten,  \* what a block that was never put holds
  None,       \* Option::None
  AnonStart,  \* the first block of the anonymous region, as the disk answers
  MaxBlock,   \* block ids stay at or below it: u64::MAX in the code
  MaxFiles,   \* bound: files created in a behaviour
  MaxExtent   \* bound: pages asked for in one call

ASSUME StorageAssumption ==
  /\ AnonStart \in Nat
  /\ MaxBlock \in Nat
  /\ AnonStart <= MaxBlock
  /\ MaxFiles \in Nat
  /\ MaxExtent \in Nat \ {0}
  /\ None \notin Nat
  /\ Unwritten \notin Pages

VARIABLES
  next_file_id,     \* the id the next file is given
  next_free_block,  \* the end of the region in use, None before the first growth
  files,            \* the live files: id -> extents and number of pages
  free_extents,     \* the extents of deleted files, in the order of the Vec
  anon_pages        \* the disk's anonymous blocks that were put, and their contents

storageVars == <<next_file_id, next_free_block, files, free_extents, anon_pages>>

PageRuns == UNION {[1..n -> Pages] : n \in 1..MaxExtent}

FreeExtent == [start_block : Nat, num_pages : Nat \ {0}]

(***************************************************************************)
(* first_page is the sum of num_pages over the file's earlier extents.     *)
(* locate_extent adds it up at each call; it is what meta.num_pages is     *)
(* when the extent is pushed, and is kept here from then on.               *)
(***************************************************************************)
FileExtent == [start_block : Nat, num_pages : Nat \ {0}, first_page : Nat]

TempFileMeta == [extents : Seq(FileExtent), num_pages : Nat]

BlocksOf(e) == e.start_block .. e.start_block + e.num_pages - 1

PagesOf(e) == e.first_page .. e.first_page + e.num_pages - 1

RegionEnd == IF next_free_block = None THEN AnonStart ELSE next_free_block

-----------------------------------------------------------------------------
(* Finding a page: locate_extent, and the block that holds the page. *)

ExtentWith(extents, page) ==
  extents[CHOOSE k \in DOMAIN extents : page \in PagesOf(extents[k])]

LocateExtent(f, page) == ExtentWith(files[f].extents, page)

\* Bug: the page number is not made relative to the extent it falls in.
BlockOfUnshifted(f, page) == LocateExtent(f, page).start_block + page

BlockOf(f, page) ==
  LET e == LocateExtent(f, page) IN e.start_block + (page - e.first_page)

\* The blocks of n pages from page on are read and written in one command,
\* so they must lie in one extent.
InOneExtent(f, page, n) ==
  LET e == LocateExtent(f, page) IN page + n <= e.first_page + e.num_pages

ContentOf(block) ==
  IF block \in DOMAIN anon_pages THEN anon_pages[block] ELSE Unwritten

\* The pages page .. page+n-1 of f, as read_pages returns them.
ReadPages(f, page, n) ==
  LET start == BlockOf(f, page) IN [i \in 1..n |-> ContentOf(start + i - 1)]

\* Bug: the pages are put one block too far.
PutBlocksOffByOne(start, data) ==
  LET written == start + 1 .. start + Len(data)
  IN anon_pages' = [b \in DOMAIN anon_pages \cup written |->
                      IF b \in written THEN data[b - start] ELSE anon_pages[b]]

PutBlocks(start, data) ==
  LET written == start .. start + Len(data) - 1
  IN anon_pages' = [b \in DOMAIN anon_pages \cup written |->
                      IF b \in written THEN data[b - start + 1] ELSE anon_pages[b]]

-----------------------------------------------------------------------------
(* allocate_extent: best fit, or growth of the region. *)

\* The first of the smallest free extents that are large enough.
IsBestFit(i, n) ==
  /\ free_extents[i].num_pages >= n
  /\ \A j \in DOMAIN free_extents :
       free_extents[j].num_pages >= n =>
         \/ free_extents[i].num_pages < free_extents[j].num_pages
         \/ free_extents[i].num_pages = free_extents[j].num_pages /\ i <= j

\* Vec::swap_remove: the last element takes the place of the removed one.
SwapRemove(s, i) ==
  [j \in 1..Len(s) - 1 |-> IF j = i THEN s[Len(s)] ELSE s[j]]

\* Bug: the unused end of a split extent keeps the extent's start.
RemainderUnmoved(e, n) ==
  [start_block |-> e.start_block, num_pages |-> e.num_pages - n]

Remainder(e, n) ==
  [start_block |-> e.start_block + n, num_pages |-> e.num_pages - n]

\* Bug: the unused end of a larger extent is dropped.
ReuseExtentWhole(n, start) ==
  /\ \E i \in DOMAIN free_extents :
       /\ IsBestFit(i, n)
       /\ start = free_extents[i].start_block
       /\ free_extents' = SwapRemove(free_extents, i)
  /\ UNCHANGED next_free_block

ReuseExtent(n, start) ==
  /\ \E i \in DOMAIN free_extents :
       /\ IsBestFit(i, n)
       /\ start = free_extents[i].start_block
       /\ free_extents' =
            IF free_extents[i].num_pages > n
            THEN Append(SwapRemove(free_extents, i), Remainder(free_extents[i], n))
            ELSE SwapRemove(free_extents, i)
  /\ UNCHANGED next_free_block

GrowRegion(n, start) ==
  /\ \A i \in DOMAIN free_extents : free_extents[i].num_pages < n
  /\ start = RegionEnd
  /\ start + n <= MaxBlock
  /\ next_free_block' = start + n
  /\ UNCHANGED free_extents

\* Bug: the file grows by one page for each extent.
RecordExtentAsPage(f, n, start) ==
  files' = [files EXCEPT ![f] =
    [extents   |-> Append(@.extents, [start_block |-> start,
                                      num_pages   |-> n,
                                      first_page  |-> @.num_pages]),
     num_pages |-> @.num_pages + 1]]

RecordExtent(f, n, start) ==
  files' = [files EXCEPT ![f] =
    [extents   |-> Append(@.extents, [start_block |-> start,
                                      num_pages   |-> n,
                                      first_page  |-> @.num_pages]),
     num_pages |-> @.num_pages + n]]

AllocateExtent(f, n, start) ==
  /\ ReuseExtent(n, start) \/ GrowRegion(n, start)
  /\ RecordExtent(f, n, start)

-----------------------------------------------------------------------------
(* The manager's operations. *)

Init ==
  /\ next_file_id = 0
  /\ next_free_block = None
  /\ files = << >>
  /\ free_extents = << >>
  /\ anon_pages = << >>

CreateTempFile ==
  /\ next_file_id < MaxFiles
  /\ next_file_id' = next_file_id + 1
  /\ files' = [g \in DOMAIN files \cup {next_file_id} |->
                 IF g = next_file_id THEN [extents |-> << >>, num_pages |-> 0]
                                     ELSE files[g]]
  /\ UNCHANGED <<next_free_block, free_extents, anon_pages>>

Freed(extents) ==
  [k \in 1..Len(extents) |-> [start_block |-> extents[k].start_block,
                              num_pages   |-> extents[k].num_pages]]

DeleteTempFile(f) ==
  /\ f \in DOMAIN files
  /\ files' = [g \in DOMAIN files \ {f} |-> files[g]]
  /\ free_extents' = free_extents \o Freed(files[f].extents)
  /\ UNCHANGED <<next_file_id, next_free_block, anon_pages>>

AllocatePage(f) ==
  /\ f \in DOMAIN files
  /\ \E start \in AnonStart..MaxBlock : AllocateExtent(f, 1, start)
  /\ UNCHANGED <<next_file_id, anon_pages>>

WritePages(f, page, data) ==
  /\ f \in DOMAIN files
  /\ page < files[f].num_pages
  /\ InOneExtent(f, page, Len(data))
  /\ PutBlocks(BlockOf(f, page), data)
  /\ UNCHANGED <<next_file_id, next_free_block, files, free_extents>>

\* flush_pending_pages: one extent for the pending pages, then one write of
\* all of them to it.
FlushPendingPages(f, data) ==
  /\ f \in DOMAIN files
  /\ \E start \in AnonStart..MaxBlock :
       /\ AllocateExtent(f, Len(data), start)
       /\ PutBlocks(start, data)
  /\ UNCHANGED next_file_id

Next ==
  \/ CreateTempFile
  \/ \E f \in DOMAIN files :
       \/ DeleteTempFile(f)
       \/ AllocatePage(f)
       \/ \E data \in PageRuns :
            \/ FlushPendingPages(f, data)
            \/ \E page \in 0..files[f].num_pages : WritePages(f, page, data)

Spec == Init /\ [][Next]_storageVars

-----------------------------------------------------------------------------
(* Properties *)

ManagerTypeOK ==
  /\ next_file_id \in Nat
  /\ next_free_block \in Nat \cup {None}
  /\ RegionEnd \in AnonStart..MaxBlock
  /\ DOMAIN files \subseteq 0..next_file_id - 1
  /\ files \in [DOMAIN files -> TempFileMeta]
  /\ free_extents \in Seq(FreeExtent)

\* The disk refuses to put a block outside the anonymous region.
DiskTypeOK ==
  /\ DOMAIN anon_pages \subseteq AnonStart..RegionEnd - 1
  /\ anon_pages \in [DOMAIN anon_pages -> Pages]

\* The state is well typed: the ids in use were handed out, and the blocks
\* that were put lie in the part of the region in use, never in a table.
TypeOK == ManagerTypeOK /\ DiskTypeOK

WithinRegion(e) == BlocksOf(e) \subseteq AnonStart..RegionEnd - 1

Apart(d, e) == BlocksOf(d) \cap BlocksOf(e) = {}

\* Every extent, of a file or free, lies in the part of the region in use.
ExtentsWithinRegion ==
  /\ \A i \in DOMAIN free_extents : WithinRegion(free_extents[i])
  /\ \A f \in DOMAIN files : \A k \in DOMAIN files[f].extents :
       WithinRegion(files[f].extents[k])

FreeExtentsApart ==
  \A i, j \in DOMAIN free_extents :
    i # j => Apart(free_extents[i], free_extents[j])

FileExtentsApart ==
  \A f, g \in DOMAIN files :
    \A k \in DOMAIN files[f].extents, l \in DOMAIN files[g].extents :
      <<f, k>> # <<g, l>> => Apart(files[f].extents[k], files[g].extents[l])

FilesApartFromFree ==
  \A f \in DOMAIN files, i \in DOMAIN free_extents :
    \A k \in DOMAIN files[f].extents :
      Apart(files[f].extents[k], free_extents[i])

\* No block belongs to two live extents, to two free ones, or to a live and
\* a free one, through any sequence of best-fit splits, swap_remove
\* reorderings and deletions.
NoBlockSharedTwice ==
  FreeExtentsApart /\ FileExtentsApart /\ FilesApartFromFree

EveryBlockHeld ==
  \A b \in AnonStart..RegionEnd - 1 :
    \/ \E i \in DOMAIN free_extents : b \in BlocksOf(free_extents[i])
    \/ \E f \in DOMAIN files : \E k \in DOMAIN files[f].extents :
         b \in BlocksOf(files[f].extents[k])

\* No block of the region is lost: the extents of the live files and the free
\* extents together are the whole region in use and nothing else, so deleting
\* every file makes all of it reusable.
NoBlockLost == ExtentsWithinRegion /\ EveryBlockHeld

\* Every page number of a file falls in exactly one of its extents, so that
\* locate_extent finds one and the last bail! of it is never reached.
EveryPageLocated ==
  \A f \in DOMAIN files :
    /\ \A k \in DOMAIN files[f].extents :
         PagesOf(files[f].extents[k]) \subseteq 0..files[f].num_pages - 1
    /\ \A k, l \in DOMAIN files[f].extents :
         k # l => PagesOf(files[f].extents[k]) \cap PagesOf(files[f].extents[l]) = {}
    /\ \A page \in 0..files[f].num_pages - 1 :
         \E k \in DOMAIN files[f].extents : page \in PagesOf(files[f].extents[k])

\* The four together are inductive (TempStorage_proofs).
StorageInv == TypeOK /\ NoBlockSharedTwice /\ NoBlockLost /\ EveryPageLocated

-----------------------------------------------------------------------------
(* Refinement: the files, read through their extents, are a PageStore. *)

StoredPages(f) ==
  [i \in 1..files[f].num_pages |-> ContentOf(BlockOf(f, i - 1))]

Stored == [f \in DOMAIN files |-> StoredPages(f)]

Abstract == INSTANCE PageStore WITH FileIds <- 0..MaxFiles - 1, store <- Stored

\* A file reads back what was written to it, whatever is done to the others
\* and however often its blocks were recycled before.
ImplementsPageStore == Abstract!StoreSpec
=============================================================================
