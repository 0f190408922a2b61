------------------------------ MODULE TempRuns ------------------------------
(***************************************************************************)
(* TempRunWriter and TempRunReader (database/src/temp_storage.rs) over the *)
(* storage manager: rows are packed into pages, pages wait in the writer   *)
(* until a batch of them is full, and a reader takes a batch of pages at a *)
(* time, never past the end of an extent.  Several writers and readers are *)
(* open at once (a partitioned join has sixteen writers, a merge as many   *)
(* readers as runs), so their extents interleave in the region.            *)
(***************************************************************************)
EXTENDS Naturals, Sequences, SequencesExt

CONSTANTS
  Rows,          \* the rows
  RowSize,       \* row -> the bytes of its record, length prefix included
  PageCapacity,  \* the bytes of a page before the row count
  RowCountLimit, \* the row count of a page wraps at it: 2^16 in the code
  WriteBatches,  \* the io_batch_pages that writers are opened with
  ReadBatches,   \* the io_batch_pages that readers are opened with
  Readers,       \* names for the readers that are open at once
  MaxRunRows,    \* bound: rows appended to a run
  Unwritten, None, AnonStart, MaxBlock, MaxFiles, MaxExtent

ASSUME RunAssumption ==
  /\ RowSize \in [Rows -> Nat \ {0}]
  /\ PageCapacity \in Nat
  /\ RowCountLimit \in Nat /\ RowCountLimit > PageCapacity
  /\ WriteBatches \subseteq 1..MaxExtent
  /\ ReadBatches \subseteq Nat \ {0}
  /\ None \notin Rows

VARIABLES
  next_file_id, next_free_block, files, free_extents, anon_pages,
  writers,  \* the open writers, by the file they write
  readers   \* the open readers

\* A page is the records that fill it and the row count in its last two bytes.
PageWith(rows, count) == [rows |-> rows, count |-> count]

RunPages == [rows : Seq(Rows), count : 0..RowCountLimit - 1]

Storage == INSTANCE TempStorage WITH Pages <- RunPages

\* What TempStorage assumes of its constants.
ASSUME RegionAssumption ==
  /\ AnonStart \in Nat /\ MaxBlock \in Nat /\ AnonStart <= MaxBlock
  /\ MaxFiles \in Nat /\ MaxExtent \in Nat \ {0}
  /\ None \notin Nat /\ Unwritten \notin RunPages

storageVars == <<next_file_id, next_free_block, files, free_extents, anon_pages>>

vars == <<storageVars, writers, readers>>

Without(g, x) == [y \in DOMAIN g \ {x} |-> g[y]]

With(g, x, v) == [y \in DOMAIN g \cup {x} |-> IF y = x THEN v ELSE g[y]]

-----------------------------------------------------------------------------
(* TempRunWriter *)

NewWriter(batch) ==
  [io_batch_pages |-> batch, page_buf |-> << >>, page_offset |-> 0,
   row_count |-> 0, pending |-> << >>]

\* Bug: the next page starts at the offset where the last one ended.
SealedKeepingOffset(w) ==
  [w EXCEPT !.pending = Append(@, PageWith(w.page_buf, w.row_count)),
            !.page_buf = << >>, !.row_count = 0]

\* The current page joins the pending ones.
Sealed(w) ==
  [w EXCEPT !.pending = Append(@, PageWith(w.page_buf, w.row_count)),
            !.page_buf = << >>, !.page_offset = 0, !.row_count = 0]

Emptied(w) == [w EXCEPT !.pending = << >>]

Buffered(w, row) ==
  [w EXCEPT !.page_buf = Append(@, row),
            !.page_offset = @ + RowSize[row],
            !.row_count = (@ + 1) % RowCountLimit]

Fits(w, row) == w.page_offset + RowSize[row] <= PageCapacity

\* Bug: > for >=.
BatchFullLate(w) == Len(w.pending) > w.io_batch_pages

BatchFull(w) == Len(w.pending) >= w.io_batch_pages

OpenWriter(batch) ==
  /\ Storage!CreateTempFile
  /\ writers' = With(writers, next_file_id, NewWriter(batch))
  /\ UNCHANGED readers

\* append_row; a row larger than a page is refused before anything changes.
AppendRow(f, row) ==
  LET w == writers[f] IN
  /\ RowSize[row] <= PageCapacity
  /\ \/ /\ Fits(w, row)
        /\ writers' = [writers EXCEPT ![f] = Buffered(w, row)]
        /\ UNCHANGED storageVars
     \/ /\ ~Fits(w, row)
        /\ ~BatchFull(Sealed(w))
        /\ writers' = [writers EXCEPT ![f] = Buffered(Sealed(w), row)]
        /\ UNCHANGED storageVars
     \/ /\ ~Fits(w, row)
        /\ BatchFull(Sealed(w))
        /\ Storage!FlushPendingPages(f, Sealed(w).pending)
        /\ writers' = [writers EXCEPT ![f] = Buffered(Emptied(Sealed(w)), row)]
  /\ UNCHANGED readers

\* Bugs: an empty run is given no page; the last page is kept only if no other waits.
LastPageIfRows(f) == writers[f].row_count > 0
LastPageIfAlone(f) ==
  writers[f].pending = << >> /\ (writers[f].row_count > 0 \/ files[f].num_pages = 0)

\* An empty run is given one page with no row in it.
LastPageNeeded(f) ==
  \/ writers[f].row_count > 0
  \/ writers[f].pending = << >> /\ files[f].num_pages = 0

\* The page that completes a batch flushes it; the flush that follows then has
\* nothing left to do, so at most one extent is taken.
FinishWriter(f) ==
  LET w == IF LastPageNeeded(f) THEN Sealed(writers[f]) ELSE writers[f] IN
  /\ IF w.pending = << >> THEN UNCHANGED storageVars
                          ELSE Storage!FlushPendingPages(f, w.pending)
  /\ writers' = Without(writers, f)
  /\ UNCHANGED readers

-----------------------------------------------------------------------------
(* TempRunReader *)

NewReader(f, batch) ==
  [file_id |-> f, num_pages |-> files[f].num_pages, io_batch_pages |-> batch,
   current_page_index |-> 0, page_buf |-> PageWith(<< >>, 0), batch_buf |-> << >>,
   next_page_in_batch |-> 0, page_offset |-> 0, rows_remaining |-> 0, row |-> None]

PagesToRead(r) ==
  LET e == Storage!LocateExtent(r.file_id, r.current_page_index)
  IN Min({e.first_page + e.num_pages - r.current_page_index,
          r.num_pages - r.current_page_index,
          r.io_batch_pages})

RefillBatch(r) ==
  [r EXCEPT !.batch_buf = Storage!ReadPages(r.file_id, r.current_page_index, PagesToRead(r)),
            !.next_page_in_batch = 0]

LoadNextPage(r) ==
  LET s == IF r.next_page_in_batch >= Len(r.batch_buf) THEN RefillBatch(r) ELSE r
      page == s.batch_buf[s.next_page_in_batch + 1]
  IN [s EXCEPT !.page_buf = page,
               !.current_page_index = @ + 1,
               !.next_page_in_batch = @ + 1,
               !.rows_remaining = page.count,
               !.page_offset = 0]

\* The loop of next_row: pages are loaded until one has a row left or the run ends.
Settled(r) ==
  LET after[n \in 0..r.num_pages] ==
        IF n = 0 THEN r
        ELSE LET s == after[n - 1] IN
             IF s.rows_remaining > 0 \/ s.current_page_index >= s.num_pages
             THEN s ELSE LoadNextPage(s)
  IN after[r.num_pages]

Delivered(s) ==
  IF s.rows_remaining = 0 THEN [s EXCEPT !.row = None]
  ELSE [s EXCEPT !.row = s.page_buf.rows[s.page_offset + 1],
                 !.page_offset = @ + 1,
                 !.rows_remaining = @ - 1]

NextRow(r) ==
  /\ readers' = [readers EXCEPT ![r] = Delivered(Settled(@))]
  /\ UNCHANGED <<storageVars, writers>>

\* Every caller finishes the writer of a run before it opens a reader of it.
OpenReader(r, f, batch) ==
  /\ r \notin DOMAIN readers
  /\ f \in DOMAIN files \ DOMAIN writers
  /\ readers' = With(readers, r, NewReader(f, batch))
  /\ UNCHANGED <<storageVars, writers>>

DropReader(r) ==
  /\ readers' = Without(readers, r)
  /\ UNCHANGED <<storageVars, writers>>

\* Callers delete a run when its readers are gone.  partition_inputs also deletes
\* the file of a writer it drops unfinished.
DeleteRun(f) ==
  /\ \A r \in DOMAIN readers : readers[r].file_id # f
  /\ Storage!DeleteTempFile(f)
  /\ writers' = Without(writers, f)
  /\ UNCHANGED readers

-----------------------------------------------------------------------------

Init == Storage!Init /\ writers = << >> /\ readers = << >>

\* The rows a cursor over the whole run would deliver: those of the pages of the
\* file, of the pages that wait and of the page being filled.
PageRows(page) == SubSeq(page.rows, 1, page.count)

RowsOf(pages) == FlattenSeq([i \in 1..Len(pages) |-> PageRows(pages[i])])

RunRows(f) ==
  RowsOf(Storage!StoredPages(f))
    \o IF f \in DOMAIN writers
       THEN RowsOf(Append(writers[f].pending,
                          PageWith(writers[f].page_buf, writers[f].row_count)))
       ELSE << >>

Next ==
  \/ \E batch \in WriteBatches : OpenWriter(batch)
  \/ \E f \in DOMAIN writers : FinishWriter(f)
  \/ \E f \in DOMAIN writers, row \in Rows :
       Len(RunRows(f)) < MaxRunRows /\ AppendRow(f, row)
  \/ \E f \in DOMAIN files : DeleteRun(f)
  \/ \E r \in Readers, f \in DOMAIN files, batch \in ReadBatches : OpenReader(r, f, batch)
  \/ \E r \in DOMAIN readers : NextRow(r) \/ DropReader(r)

Spec == Init /\ [][Next]_vars

-----------------------------------------------------------------------------
(* Properties *)

WriterType ==
  [io_batch_pages : WriteBatches, page_buf : Seq(Rows), page_offset : 0..PageCapacity,
   row_count : 0..RowCountLimit - 1, pending : Seq(RunPages)]

ReaderType ==
  [file_id : Nat, num_pages : Nat, io_batch_pages : ReadBatches,
   current_page_index : Nat, page_buf : RunPages, batch_buf : Seq(RunPages),
   next_page_in_batch : Nat, page_offset : Nat, rows_remaining : Nat,
   row : Rows \cup {None}]

\* The state is well typed: in particular a reader never holds a block that was
\* not written, and each writer has a live file.
TypeOK ==
  /\ Storage!ManagerTypeOK
  /\ DOMAIN writers \subseteq DOMAIN files
  /\ \A f \in DOMAIN writers : writers[f] \in WriterType
  /\ DOMAIN readers \subseteq Readers
  /\ \A r \in DOMAIN readers : readers[r] \in ReaderType

\* A finished run has no page without rows, except that an empty run is one page
\* with none: its page count, which the join takes as its size, is never zero
\* and never more than the pages its rows fill.
NoEmptyPages ==
  \A f \in DOMAIN files \ DOMAIN writers :
    LET pages == Storage!StoredPages(f) IN
    /\ Len(pages) > 0
    /\ Len(pages) > 1 => \A i \in DOMAIN pages : pages[i].count > 0

\* Between two calls a writer holds less than a batch and a reader at most one:
\* the memory that the sort and the join set aside for them is enough.
BuffersBounded ==
  /\ \A f \in DOMAIN writers : Len(writers[f].pending) < writers[f].io_batch_pages
  /\ \A r \in DOMAIN readers : Len(readers[r].batch_buf) <= readers[r].io_batch_pages

-----------------------------------------------------------------------------
(* Refinement: runs of pages implement runs of rows. *)

PagesAhead(r) ==
  LET batched == Len(r.batch_buf) - r.next_page_in_batch
      stored  == Storage!StoredPages(r.file_id)
  IN SubSeq(r.batch_buf, r.next_page_in_batch + 1, Len(r.batch_buf))
       \o SubSeq(stored, r.current_page_index + batched + 1, r.num_pages)

RowsAhead(r) ==
  SubSeq(r.page_buf.rows, r.page_offset + 1, r.page_offset + r.rows_remaining)
    \o RowsOf(PagesAhead(r))

Runs ==
  [f \in DOMAIN files |-> [rows |-> RunRows(f), open |-> f \in DOMAIN writers]]

Cursors ==
  [r \in DOMAIN readers |->
     [run |-> readers[r].file_id, rest |-> RowsAhead(readers[r]), row |-> readers[r].row]]

Abstract == INSTANCE RunStore WITH
  RunIds <- 0..MaxFiles - 1, NoRow <- None, runs <- Runs, cursors <- Cursors

\* A reader delivers the rows appended to its run, each once and in order, and
\* then None, whatever other writers, readers and deletions do to the blocks
\* around its own and however its pages were batched and split over extents.
ImplementsRunStore == Abstract!RunStoreSpec
=============================================================================
