-------------------------- MODULE TempRuns_proofs --------------------------
(***************************************************************************)
(* The invariants of the temporary runs, and that they implement runs of   *)
(* rows, for every page size, row size and batch size and every number of  *)
(* writers and readers.  The layout of the region is proved once, in       *)
(* TempStorage_proofs; it is cited here for the pages that runs are made   *)
(* of.                                                                     *)
(***************************************************************************)
EXTENDS TempRuns, SequenceLemmas

StorageProofs == INSTANCE TempStorage_proofs WITH Pages <- RunPages

-----------------------------------------------------------------------------
(* The inductive invariant *)

\* Pages whose row count counts their rows: the count has not wrapped.
CountedPages == {page \in RunPages : page.count = Len(page.rows)}

NonEmpty(pages) == \A i \in 1..Len(pages) : pages[i].count > 0

\* What holds of a writer in the middle of a call too.
WriterHolds(w) ==
  /\ w \in WriterType
  /\ w.row_count = Len(w.page_buf)
  /\ Len(w.page_buf) <= w.page_offset
  /\ w.page_buf = << >> => w.page_offset = 0
  /\ w.pending \in Seq(CountedPages) /\ NonEmpty(w.pending)

WriterInv(w) == WriterHolds(w) /\ Len(w.pending) < w.io_batch_pages

\* What the pages of a file are, by whether its writer is open.
PagesInv(pages, open) ==
  /\ pages \in Seq(CountedPages)
  /\ open => NonEmpty(pages)
  /\ ~open => Len(pages) > 0 /\ (Len(pages) > 1 => NonEmpty(pages))

\* A reader of these pages: the pages of its batch that it has not loaded are
\* those that follow the page it is at.
ReaderInv(r, pages) ==
  /\ r \in ReaderType
  /\ r.num_pages = Len(pages)
  /\ Len(r.batch_buf) <= r.io_batch_pages
  /\ r.next_page_in_batch <= Len(r.batch_buf)
  /\ r.current_page_index + (Len(r.batch_buf) - r.next_page_in_batch) <= Len(pages)
  /\ \A i \in r.next_page_in_batch + 1..Len(r.batch_buf) :
       r.batch_buf[i] = pages[r.current_page_index + (i - r.next_page_in_batch)]
  /\ r.page_buf \in CountedPages
  /\ r.page_offset + r.rows_remaining = Len(r.page_buf.rows)

WritersInv ==
  /\ DOMAIN writers \subseteq DOMAIN files
  /\ \A f \in DOMAIN writers : WriterInv(writers[f])

FilesInv ==
  /\ next_file_id <= MaxFiles
  /\ \A f \in DOMAIN files : PagesInv(Storage!StoredPages(f), f \in DOMAIN writers)

ReadersInv ==
  /\ DOMAIN readers \subseteq Readers
  /\ \A r \in DOMAIN readers : readers[r].file_id \in DOMAIN files \ DOMAIN writers
  /\ \A r \in DOMAIN readers, f \in DOMAIN files :
       readers[r].file_id = f => ReaderInv(readers[r], Storage!StoredPages(f))

\* The layout of the region, and the three parts of the run state: inductive.
RunInv == Storage!StorageInv /\ WritersInv /\ FilesInv /\ ReadersInv

-----------------------------------------------------------------------------
(* Pages and their rows *)

LEMMA PageIsCounted ==
  ASSUME NEW rows \in Seq(Rows), Len(rows) < RowCountLimit
  PROVE  /\ PageWith(rows, Len(rows)) \in CountedPages
         /\ PageWith(rows, Len(rows)).rows = rows
         /\ PageWith(rows, Len(rows)).count = Len(rows)
<1>1. Len(rows) \in 0..RowCountLimit - 1
  BY RunAssumption, SequenceFacts
<1> QED BY <1>1 DEF PageWith, CountedPages, RunPages

LEMMA CountedRows ==
  ASSUME NEW page \in CountedPages
  PROVE  /\ page.rows \in Seq(Rows) /\ PageRows(page) = page.rows
         /\ page.count \in Nat /\ page.count = Len(page.rows)
<1>1. page.rows \in Seq(Rows) /\ page.count = Len(page.rows)
  BY DEF CountedPages, RunPages
<1> QED BY <1>1, SubSeqFull, SequenceFacts DEF PageRows

LEMMA NonEmptyConcat ==
  ASSUME NEW s \in Seq(CountedPages), NEW t \in Seq(CountedPages), NonEmpty(s), NonEmpty(t)
  PROVE  s \o t \in Seq(CountedPages) /\ NonEmpty(s \o t) /\ Len(s \o t) = Len(s) + Len(t)
<1>1. Len(s) \in Nat /\ Len(t) \in Nat
  BY SequenceFacts
<1>2. /\ s \o t \in Seq(CountedPages) /\ Len(s \o t) = Len(s) + Len(t)
      /\ \A i \in 1..Len(s) + Len(t) : (s \o t)[i] = IF i <= Len(s) THEN s[i] ELSE t[i - Len(s)]
  BY ConcatProperties
<1>3. ASSUME NEW i \in 1..Len(s) + Len(t) PROVE (s \o t)[i].count > 0
  <2>1. CASE i <= Len(s)
    <3>1. i \in 1..Len(s)
      BY <1>1, <2>1
    <3> QED BY <1>2, <2>1, <3>1 DEF NonEmpty
  <2>2. CASE ~(i <= Len(s))
    <3>1. i - Len(s) \in 1..Len(t)
      BY <1>1, <2>2
    <3> QED BY <1>2, <2>2, <3>1 DEF NonEmpty
  <2> QED BY <2>1, <2>2
<1> QED BY <1>2, <1>3 DEF NonEmpty

\* The rows of each page, as the sequence that RowsOf flattens.
RowLists(pages) == [i \in 1..Len(pages) |-> PageRows(pages[i])]

LEMMA RowListsTyped ==
  ASSUME NEW pages \in Seq(CountedPages)
  PROVE  /\ RowLists(pages) \in Seq(Seq(Rows)) /\ Len(RowLists(pages)) = Len(pages)
         /\ \A i \in 1..Len(pages) : RowLists(pages)[i] = pages[i].rows
<1>1. Len(pages) \in Nat /\ \A i \in 1..Len(pages) : pages[i] \in CountedPages
  BY SequenceFacts
<1>2. \A i \in 1..Len(pages) : PageRows(pages[i]) \in Seq(Rows)
                               /\ PageRows(pages[i]) = pages[i].rows
  BY <1>1, CountedRows
<1>3. RowLists(pages) \in [1..Len(pages) -> Seq(Rows)]
  BY <1>2 DEF RowLists
<1>4. \A i \in 1..Len(pages) : RowLists(pages)[i] = pages[i].rows
  BY <1>2 DEF RowLists
<1> QED BY <1>1, <1>3, <1>4, FunctionIsSequence

LEMMA RowsOfTyped ==
  ASSUME NEW pages \in Seq(CountedPages)
  PROVE  RowsOf(pages) \in Seq(Rows) /\ RowsOf(pages) = FlattenSeq(RowLists(pages))
<1>1. RowsOf(pages) = FlattenSeq(RowLists(pages))
  BY DEF RowsOf, RowLists
<1>2. << >> \in Seq(Rows)
  BY EmptySeq
<1>3. FlattenSeq(RowLists(pages)) \in Seq(Rows)
  BY <1>2, RowListsTyped, FlattenAppend
<1> QED BY <1>1, <1>3

LEMMA RowsOfEmpty == RowsOf(<< >>) = << >>
<1>1. Len(<< >>) = 0
  BY EmptyElements
<1>2. [i \in 1..0 |-> PageRows(<< >>[i])] = << >>
  OBVIOUS
<1> QED BY <1>1, <1>2, FlattenEmpty DEF RowsOf

LEMMA RowsOfConcat ==
  ASSUME NEW s \in Seq(CountedPages), NEW t \in Seq(CountedPages)
  PROVE  RowsOf(s \o t) = RowsOf(s) \o RowsOf(t)
<1> DEFINE u == s \o t
<1>1. /\ u \in Seq(CountedPages) /\ Len(u) = Len(s) + Len(t)
      /\ \A i \in 1..Len(s) + Len(t) : u[i] = IF i <= Len(s) THEN s[i] ELSE t[i - Len(s)]
  BY ConcatProperties
<1>2. Len(s) \in Nat /\ Len(t) \in Nat
  BY SequenceFacts
<1> HIDE DEF u
<1>3. RowLists(u) = RowLists(s) \o RowLists(t)
  <2> DEFINE v == RowLists(s) \o RowLists(t)
  <2>1. /\ v \in Seq(Seq(Rows)) /\ Len(v) = Len(s) + Len(t)
        /\ \A i \in 1..Len(s) + Len(t) :
             v[i] = IF i <= Len(s) THEN RowLists(s)[i] ELSE RowLists(t)[i - Len(s)]
    <3>1. /\ RowLists(s) \in Seq(Seq(Rows)) /\ Len(RowLists(s)) = Len(s)
          /\ RowLists(t) \in Seq(Seq(Rows)) /\ Len(RowLists(t)) = Len(t)
      BY RowListsTyped
    <3>2. /\ v \in Seq(Seq(Rows)) /\ Len(v) = Len(RowLists(s)) + Len(RowLists(t))
          /\ \A i \in 1..Len(RowLists(s)) + Len(RowLists(t)) :
               v[i] = IF i <= Len(RowLists(s)) THEN RowLists(s)[i]
                      ELSE RowLists(t)[i - Len(RowLists(s))]
      BY <3>1, ConcatProperties
    <3> HIDE DEF v
    <3> QED BY <3>1, <3>2
  <2> HIDE DEF v
  <2>2. ASSUME NEW i \in 1..Len(u) PROVE RowLists(u)[i] = v[i]
    <3>0. i \in 1..Len(s) + Len(t) /\ RowLists(u)[i] = u[i].rows
      BY <1>1, RowListsTyped
    <3>1. CASE i <= Len(s)
      <4>1. i \in 1..Len(s)
        BY <1>2, <3>0, <3>1
      <4> QED BY <1>1, <2>1, <3>0, <3>1, <4>1, RowListsTyped
    <3>2. CASE ~(i <= Len(s))
      <4>1. i - Len(s) \in 1..Len(t)
        BY <1>2, <3>0, <3>2
      <4> QED BY <1>1, <2>1, <3>0, <3>2, <4>1, RowListsTyped
    <3> QED BY <3>1, <3>2
  <2>3. RowLists(u) \in Seq(Seq(Rows)) /\ Len(RowLists(u)) = Len(u)
    BY <1>1, RowListsTyped
  <2>4. RowLists(u) = v
    BY <1>1, <2>1, <2>2, <2>3, SeqEqual
  <2> QED BY <2>4 DEF v
<1>4. FlattenSeq(RowLists(s) \o RowLists(t)) = FlattenSeq(RowLists(s)) \o FlattenSeq(RowLists(t))
  BY RowListsTyped, FlattenConcat
<1>5. RowsOf(u) = FlattenSeq(RowLists(u))
  BY <1>1, RowsOfTyped
<1> QED BY <1>3, <1>4, <1>5, RowsOfTyped DEF u

LEMMA RowsOfOne ==
  ASSUME NEW page \in CountedPages
  PROVE  RowsOf(<<page>>) = page.rows
<1>1. Len(<<page>>) = 1 /\ <<page>>[1] = page /\ page.rows \in Seq(Rows)
      /\ PageRows(page) = page.rows
  BY CountedRows
<1>2. [i \in 1..1 |-> PageRows(<<page>>[i])] = <<page.rows>>
  BY <1>1
<1>3. FlattenSeq(Append(<< >>, page.rows)) = FlattenSeq(<< >>) \o page.rows
  <2>1. << >> \in Seq(Seq(Rows))
    BY EmptySeq
  <2> QED BY <1>1, <2>1, FlattenAppend
<1>4. Append(<< >>, page.rows) = <<page.rows>>
  OBVIOUS
<1>5. FlattenSeq(<<page.rows>>) = page.rows
  BY <1>1, <1>3, <1>4, FlattenEmpty, ConcatEmptySeq
<1> QED BY <1>1, <1>2, <1>5 DEF RowsOf

LEMMA RowsOfAppend ==
  ASSUME NEW s \in Seq(CountedPages), NEW page \in CountedPages
  PROVE  RowsOf(Append(s, page)) = RowsOf(s) \o page.rows
<1>1. Append(s, page) = s \o <<page>> /\ <<page>> \in Seq(CountedPages)
  BY AppendIsConcat, SingletonElements
<1> QED BY <1>1, RowsOfConcat, RowsOfOne

-----------------------------------------------------------------------------
(* Writers *)

RowsIn(w) == RowsOf(Append(w.pending, PageWith(w.page_buf, w.row_count)))

LEMMA WriterFields ==
  ASSUME NEW w \in WriterType
  PROVE  /\ w.io_batch_pages \in WriteBatches /\ w.io_batch_pages \in 1..MaxExtent
         /\ w.page_buf \in Seq(Rows) /\ Len(w.page_buf) \in Nat
         /\ w.page_offset \in 0..PageCapacity /\ w.row_count \in 0..RowCountLimit - 1
         /\ w.pending \in Seq(RunPages) /\ Len(w.pending) \in Nat
  BY RunAssumption, SequenceFacts DEF WriterType

LEMMA WriterPage ==
  ASSUME NEW w, WriterHolds(w)
  PROVE  /\ PageWith(w.page_buf, w.row_count) \in CountedPages
         /\ PageWith(w.page_buf, w.row_count).rows = w.page_buf
         /\ PageWith(w.page_buf, w.row_count).count = Len(w.page_buf)
         /\ RowsOf(w.pending) \in Seq(Rows)
         /\ RowsIn(w) = RowsOf(w.pending) \o w.page_buf
<1>1. /\ w.page_buf \in Seq(Rows) /\ w.row_count = Len(w.page_buf)
      /\ Len(w.page_buf) < RowCountLimit /\ w.pending \in Seq(CountedPages)
  BY WriterFields, RunAssumption DEF WriterHolds
<1>2. /\ PageWith(w.page_buf, w.row_count) \in CountedPages
      /\ PageWith(w.page_buf, w.row_count).rows = w.page_buf
      /\ PageWith(w.page_buf, w.row_count).count = Len(w.page_buf)
  BY <1>1, PageIsCounted
<1> QED BY <1>1, <1>2, RowsOfAppend, RowsOfTyped DEF RowsIn

LEMMA NewWriterHolds ==
  ASSUME NEW batch \in WriteBatches
  PROVE  WriterInv(NewWriter(batch)) /\ RowsIn(NewWriter(batch)) = << >>
<1> DEFINE w == NewWriter(batch)
<1>1. /\ w.io_batch_pages = batch /\ w.page_buf = << >> /\ w.page_offset = 0
      /\ w.row_count = 0 /\ w.pending = << >>
  BY DEF NewWriter
<1>2. << >> \in Seq(Rows) /\ << >> \in Seq(RunPages) /\ << >> \in Seq(CountedPages)
      /\ Len(<< >>) = 0
  BY EmptyElements
<1>3. 0 \in 0..PageCapacity /\ 0 \in 0..RowCountLimit - 1 /\ batch \in Nat \ {0}
  BY RunAssumption
<1>4. w \in WriterType
  BY <1>2, <1>3 DEF NewWriter, WriterType
<1> HIDE DEF w
<1>5. WriterHolds(w)
  BY <1>1, <1>2, <1>4 DEF WriterHolds, NonEmpty
<1>6. RowsIn(w) = << >>
  BY <1>1, <1>2, <1>5, WriterPage, RowsOfEmpty, ConcatEmptySeq
<1> QED BY <1>1, <1>2, <1>3, <1>5, <1>6 DEF WriterInv, w

LEMMA SealedFields ==
  ASSUME NEW w \in WriterType
  PROVE  /\ Sealed(w).io_batch_pages = w.io_batch_pages
         /\ Sealed(w).page_buf = << >> /\ Sealed(w).page_offset = 0 /\ Sealed(w).row_count = 0
         /\ Sealed(w).pending = Append(w.pending, PageWith(w.page_buf, w.row_count))
         /\ DOMAIN Sealed(w) = DOMAIN w
  BY DEF Sealed, WriterType

LEMMA SealedTyped ==
  ASSUME NEW w \in WriterType, PageWith(w.page_buf, w.row_count) \in RunPages
  PROVE  Sealed(w) \in WriterType
<1>1. /\ << >> \in Seq(Rows) /\ 0 \in 0..PageCapacity /\ 0 \in 0..RowCountLimit - 1
      /\ Append(w.pending, PageWith(w.page_buf, w.row_count)) \in Seq(RunPages)
  BY RunAssumption, EmptySeq, WriterFields, AppendProperties
<1> QED BY <1>1 DEF Sealed, WriterType

LEMMA SealedHolds ==
  ASSUME NEW w, WriterHolds(w), w.page_buf # << >>
  PROVE  /\ WriterHolds(Sealed(w))
         /\ Sealed(w).pending = Append(w.pending, PageWith(w.page_buf, w.row_count))
         /\ Len(Sealed(w).pending) = Len(w.pending) + 1
         /\ Sealed(w).page_buf = << >>
         /\ Sealed(w).io_batch_pages = w.io_batch_pages
<1> DEFINE page == PageWith(w.page_buf, w.row_count)
           s == Sealed(w)
<1>1. w \in WriterType /\ w.pending \in Seq(CountedPages) /\ NonEmpty(w.pending)
  BY DEF WriterHolds
<1>2. /\ page \in CountedPages /\ page \in RunPages /\ page.count > 0
  <2>1. page \in CountedPages /\ page.count = Len(w.page_buf)
    BY WriterPage
  <2>2. Len(w.page_buf) \in Nat /\ Len(w.page_buf) # 0
    BY <1>1, WriterFields, SequenceFacts
  <2> QED BY <2>1, <2>2 DEF CountedPages
<1>3. /\ s \in WriterType /\ s.io_batch_pages = w.io_batch_pages
      /\ s.page_buf = << >> /\ s.page_offset = 0 /\ s.row_count = 0
      /\ s.pending = Append(w.pending, page)
  BY <1>1, <1>2, SealedFields, SealedTyped
<1> HIDE DEF page, s
<1>4. /\ s.pending \in Seq(CountedPages) /\ Len(s.pending) = Len(w.pending) + 1
      /\ \A i \in 1..Len(w.pending) : s.pending[i] = w.pending[i]
      /\ s.pending[Len(w.pending) + 1] = page
  BY <1>1, <1>2, <1>3, AppendProperties
<1>5. NonEmpty(s.pending)
  <2>1. Len(w.pending) \in Nat
    BY <1>1, WriterFields
  <2>2. ASSUME NEW i \in 1..Len(s.pending) PROVE s.pending[i].count > 0
    <3>1. i \in 1..Len(w.pending) \/ i = Len(w.pending) + 1
      BY <1>4, <2>1
    <3> QED BY <1>1, <1>2, <1>4, <3>1 DEF NonEmpty
  <2> QED BY <2>2 DEF NonEmpty
<1>6. WriterHolds(s)
  BY <1>3, <1>4, <1>5, EmptyElements DEF WriterHolds
<1> QED BY <1>3, <1>4, <1>6 DEF s, page

LEMMA EmptiedHolds ==
  ASSUME NEW w, WriterHolds(w)
  PROVE  /\ WriterHolds(Emptied(w)) /\ Emptied(w).pending = << >>
         /\ Emptied(w).page_buf = w.page_buf /\ Emptied(w).io_batch_pages = w.io_batch_pages
<1> DEFINE s == Emptied(w)
<1>1. w \in WriterType
  BY DEF WriterHolds
<1>2. /\ s.io_batch_pages = w.io_batch_pages /\ s.page_buf = w.page_buf
      /\ s.page_offset = w.page_offset /\ s.row_count = w.row_count /\ s.pending = << >>
  BY <1>1 DEF Emptied, WriterType
<1>3. << >> \in Seq(CountedPages) /\ << >> \in Seq(RunPages) /\ Len(<< >>) = 0
  BY EmptyElements
<1>4. s \in WriterType
  BY <1>1, <1>3 DEF Emptied, WriterType
<1> HIDE DEF s
<1>5. WriterHolds(s)
  BY <1>2, <1>3, <1>4 DEF WriterHolds, NonEmpty
<1> QED BY <1>2, <1>5 DEF s

\* A row that fits: the count stays below the limit at which it would wrap.
LEMMA BufferedHolds ==
  ASSUME NEW w, WriterHolds(w), NEW row \in Rows, Fits(w, row)
  PROVE  /\ WriterHolds(Buffered(w, row))
         /\ Buffered(w, row).page_buf = Append(w.page_buf, row)
         /\ Buffered(w, row).pending = w.pending
         /\ Buffered(w, row).io_batch_pages = w.io_batch_pages
<1> DEFINE s == Buffered(w, row)
<1>1. w \in WriterType
  BY DEF WriterHolds
<1>2. /\ s.io_batch_pages = w.io_batch_pages /\ s.page_buf = Append(w.page_buf, row)
      /\ s.page_offset = w.page_offset + RowSize[row]
      /\ s.row_count = (w.row_count + 1) % RowCountLimit /\ s.pending = w.pending
  BY <1>1 DEF Buffered, WriterType
<1>3. RowSize[row] \in Nat \ {0} /\ w.page_offset + RowSize[row] <= PageCapacity
  BY RunAssumption DEF Fits
<1>4. /\ w.page_buf \in Seq(Rows) /\ Len(w.page_buf) \in Nat /\ w.page_offset \in Nat
      /\ Len(w.page_buf) <= w.page_offset /\ w.row_count = Len(w.page_buf)
  BY <1>1, WriterFields, RunAssumption DEF WriterHolds
<1>5. /\ Append(w.page_buf, row) \in Seq(Rows) /\ Append(w.page_buf, row) # << >>
      /\ Len(Append(w.page_buf, row)) = Len(w.page_buf) + 1
  BY <1>4, AppendProperties
<1>6. /\ Len(w.page_buf) + 1 <= w.page_offset + RowSize[row]
      /\ w.page_offset + RowSize[row] \in 0..PageCapacity
      /\ Len(w.page_buf) + 1 \in 0..RowCountLimit - 1
      /\ (w.row_count + 1) % RowCountLimit = Len(w.page_buf) + 1
  <2> DEFINE n == Len(w.page_buf)
             off == w.page_offset
             size == RowSize[row]
  <2>1. PageCapacity \in Nat /\ RowCountLimit \in Nat /\ RowCountLimit > PageCapacity
    BY RunAssumption
  <2>2. n \in Nat /\ off \in Nat /\ size \in Nat \ {0} /\ n <= off /\ off + size <= PageCapacity
    BY <1>3, <1>4
  <2> HIDE DEF n, off, size
  <2>3. /\ n + 1 <= off + size /\ off + size \in 0..PageCapacity
        /\ n + 1 \in 0..RowCountLimit - 1
    BY <2>1, <2>2
  <2>4. (n + 1) % RowCountLimit = n + 1
    BY <2>1, <2>3
  <2> QED BY <1>4, <2>3, <2>4 DEF n, off, size
<1>7. s \in WriterType
  BY <1>1, <1>5, <1>6 DEF Buffered, WriterType
<1> HIDE DEF s
<1>8. WriterHolds(s)
  BY <1>2, <1>5, <1>6, <1>7 DEF WriterHolds
<1> QED BY <1>2, <1>8 DEF s

-----------------------------------------------------------------------------
(* What TempStorage_proofs says of the manager, with these pages.          *)

LEMMA StorageConstants == StorageProofs!StorageAssumption
  BY RegionAssumption DEF StorageProofs!StorageAssumption

LEMMA SameStorageInv == Storage!StorageInv <=> StorageProofs!StorageInv
<1> USE DEF Storage!RegionEnd, StorageProofs!RegionEnd, Storage!BlocksOf,
            StorageProofs!BlocksOf, Storage!PagesOf, StorageProofs!PagesOf
<1>1. Storage!TypeOK <=> StorageProofs!TypeOK
  BY DEF Storage!TypeOK, StorageProofs!TypeOK, Storage!ManagerTypeOK,
     StorageProofs!ManagerTypeOK, Storage!DiskTypeOK, StorageProofs!DiskTypeOK,
     Storage!TempFileMeta, StorageProofs!TempFileMeta, Storage!FileExtent,
     StorageProofs!FileExtent, Storage!FreeExtent, StorageProofs!FreeExtent
<1>2. Storage!NoBlockSharedTwice <=> StorageProofs!NoBlockSharedTwice
  BY DEF Storage!NoBlockSharedTwice, StorageProofs!NoBlockSharedTwice,
     Storage!FreeExtentsApart, StorageProofs!FreeExtentsApart, Storage!FileExtentsApart,
     StorageProofs!FileExtentsApart, Storage!FilesApartFromFree,
     StorageProofs!FilesApartFromFree, Storage!Apart, StorageProofs!Apart
<1>3. Storage!NoBlockLost <=> StorageProofs!NoBlockLost
  BY DEF Storage!NoBlockLost, StorageProofs!NoBlockLost, Storage!ExtentsWithinRegion,
     StorageProofs!ExtentsWithinRegion, Storage!EveryBlockHeld,
     StorageProofs!EveryBlockHeld, Storage!WithinRegion, StorageProofs!WithinRegion
<1>4. Storage!EveryPageLocated <=> StorageProofs!EveryPageLocated
  BY DEF Storage!EveryPageLocated, StorageProofs!EveryPageLocated
<1> QED BY <1>1, <1>2, <1>3, <1>4 DEF Storage!StorageInv, StorageProofs!StorageInv

LEMMA SameStorageInvNext == (Storage!StorageInv <=> StorageProofs!StorageInv)'
  BY SameStorageInv, PTL

LEMMA SameBlocks ==
  ASSUME NEW f, NEW page
  PROVE  /\ Storage!LocateExtent(f, page) = StorageProofs!LocateExtent(f, page)
         /\ Storage!BlockOf(f, page) = StorageProofs!BlockOf(f, page)
  BY DEF Storage!BlockOf, StorageProofs!BlockOf, Storage!LocateExtent,
     StorageProofs!LocateExtent, Storage!ExtentWith, StorageProofs!ExtentWith,
     Storage!PagesOf, StorageProofs!PagesOf

LEMMA SamePages ==
  ASSUME NEW f
  PROVE  /\ Storage!StoredPages(f) = StorageProofs!StoredPages(f)
         /\ Storage!StoredPages(f)' = StorageProofs!StoredPages(f)'
  BY DEF Storage!StoredPages, StorageProofs!StoredPages, Storage!ContentOf,
     StorageProofs!ContentOf, Storage!BlockOf, StorageProofs!BlockOf,
     Storage!LocateExtent, StorageProofs!LocateExtent, Storage!ExtentWith,
     StorageProofs!ExtentWith, Storage!PagesOf, StorageProofs!PagesOf

LEMMA SameFlush ==
  ASSUME NEW f, NEW data
  PROVE  Storage!FlushPendingPages(f, data) <=> StorageProofs!FlushPendingPages(f, data)
  BY DEF Storage!FlushPendingPages, StorageProofs!FlushPendingPages,
     Storage!AllocateExtent, StorageProofs!AllocateExtent, Storage!PutBlocks,
     StorageProofs!PutBlocks, Storage!ReuseExtent, StorageProofs!ReuseExtent,
     Storage!GrowRegion, StorageProofs!GrowRegion, Storage!RecordExtent,
     StorageProofs!RecordExtent, Storage!IsBestFit, StorageProofs!IsBestFit,
     Storage!SwapRemove, StorageProofs!SwapRemove, Storage!Remainder,
     StorageProofs!Remainder, Storage!RegionEnd, StorageProofs!RegionEnd

LEMMA StorageInitially ==
  ASSUME Storage!Init
  PROVE  Storage!StorageInv
<1>1. StorageProofs!Init
  BY DEF Storage!Init, StorageProofs!Init
<1> QED BY <1>1, StorageConstants, StorageProofs!InitEstablishes, SameStorageInv

\* The pages of a file, as many as the file has.
LEMMA PagesOfFile ==
  ASSUME Storage!StorageInv, NEW f \in DOMAIN files
  PROVE  /\ Len(Storage!StoredPages(f)) = files[f].num_pages
         /\ files[f].num_pages \in Nat
         /\ f \in Nat
<1>1. StorageProofs!StorageInv
  BY SameStorageInv
<1>2. /\ Len(StorageProofs!StoredPages(f)) = files[f].num_pages
      /\ files[f].num_pages \in Nat
  BY <1>1, StorageConstants, StorageProofs!StoredPagesIsSeq
<1>3. next_file_id \in Nat /\ DOMAIN files \subseteq 0..next_file_id - 1
  BY DEF Storage!StorageInv, Storage!TypeOK, Storage!ManagerTypeOK
<1>4. f \in Nat
  BY <1>3
<1> QED BY <1>2, <1>4, SamePages

\* A new file: it has no page, and the others keep theirs.
LEMMA FileCreated ==
  ASSUME Storage!StorageInv, Storage!CreateTempFile
  PROVE  /\ Storage!StorageInv'
         /\ next_file_id \in Nat /\ next_file_id < MaxFiles
         /\ next_file_id' = next_file_id + 1
         /\ next_file_id \notin DOMAIN files
         /\ DOMAIN files' = DOMAIN files \cup {next_file_id}
         /\ \A f \in DOMAIN files : Storage!StoredPages(f)' = Storage!StoredPages(f)
         /\ \A f : f = next_file_id => Storage!StoredPages(f)' = << >>
<1>0. StorageProofs!StorageInv /\ StorageProofs!CreateTempFile
  BY SameStorageInv DEF Storage!CreateTempFile, StorageProofs!CreateTempFile
<1>1. StorageProofs!StorageInv'
  BY <1>0, StorageConstants, StorageProofs!CreateTempFileKeeps
<1>2. next_file_id \in Nat /\ DOMAIN files \subseteq 0..next_file_id - 1
  BY DEF Storage!StorageInv, Storage!TypeOK, Storage!ManagerTypeOK
<1>3. next_file_id \notin DOMAIN files
  BY <1>2
<1>4. /\ next_file_id < MaxFiles /\ next_file_id' = next_file_id + 1
      /\ DOMAIN files' = DOMAIN files \cup {next_file_id}
  BY DEF Storage!CreateTempFile
<1>5. PICK g \in 0..MaxFiles - 1 : StorageProofs!Abstract!Create(g)
  BY <1>0, <1>1, StorageConstants, StorageProofs!CreateTempFileRefines
<1>6. /\ g \notin DOMAIN files /\ DOMAIN files' = DOMAIN files \cup {g}
      /\ StorageProofs!StoredPages(g)' = << >>
      /\ \A f \in DOMAIN files : StorageProofs!StoredPages(f)' = StorageProofs!StoredPages(f)
  BY <1>5 DEF StorageProofs!Abstract!Create, StorageProofs!Stored
<1>7. g = next_file_id
  BY <1>3, <1>4, <1>6
<1> QED BY <1>1, <1>2, <1>3, <1>4, <1>6, <1>7, SameStorageInvNext, SamePages

LEMMA FileDeleted ==
  ASSUME Storage!StorageInv, NEW f, Storage!DeleteTempFile(f)
  PROVE  /\ Storage!StorageInv'
         /\ f \in DOMAIN files /\ next_file_id' = next_file_id
         /\ DOMAIN files' = DOMAIN files \ {f}
         /\ \A g \in DOMAIN files' : Storage!StoredPages(g)' = Storage!StoredPages(g)
<1>0. StorageProofs!StorageInv /\ StorageProofs!DeleteTempFile(f) /\ f \in DOMAIN files
  BY SameStorageInv DEF Storage!DeleteTempFile, StorageProofs!DeleteTempFile,
     Storage!Freed, StorageProofs!Freed
<1>1. StorageProofs!StorageInv'
  BY <1>0, StorageConstants, StorageProofs!DeleteTempFileKeeps
<1>2. next_file_id' = next_file_id /\ DOMAIN files' = DOMAIN files \ {f}
  BY DEF Storage!DeleteTempFile
<1>3. StorageProofs!Abstract!Delete(f)
  BY <1>0, StorageConstants, StorageProofs!DeleteTempFileRefines
<1>4. \A g \in DOMAIN files' : StorageProofs!StoredPages(g)' = StorageProofs!StoredPages(g)
  BY <1>2, <1>3 DEF StorageProofs!Abstract!Delete, StorageProofs!Stored
<1> QED BY <1>0, <1>1, <1>2, <1>4, SameStorageInvNext, SamePages

\* A flush: the pages of the file grow by those written, and no other file's change.
LEMMA FileFlushed ==
  ASSUME Storage!StorageInv, NEW f \in DOMAIN files, NEW data \in Seq(RunPages),
         Len(data) \in 1..MaxExtent, Storage!FlushPendingPages(f, data)
  PROVE  /\ Storage!StorageInv'
         /\ next_file_id' = next_file_id
         /\ DOMAIN files' = DOMAIN files
         /\ Storage!StoredPages(f)' = Storage!StoredPages(f) \o data
         /\ \A g \in DOMAIN files : g # f =>
              Storage!StoredPages(g)' = Storage!StoredPages(g)
<1>0. StorageProofs!StorageInv /\ StorageProofs!FlushPendingPages(f, data)
  BY SameStorageInv, SameFlush
<1>1. data \in StorageProofs!PageRuns
  <2>1. data \in [1..Len(data) -> RunPages]
    BY SequenceFacts
  <2> QED BY <2>1 DEF StorageProofs!PageRuns
<1>2. StorageProofs!StorageInv'
  BY <1>0, <1>1, StorageConstants, StorageProofs!FlushPendingPagesKeeps
<1>3. next_file_id' = next_file_id
  BY DEF Storage!FlushPendingPages
<1>4. StorageProofs!Abstract!AppendPages(f, data)
  BY <1>0, <1>1, <1>2, StorageConstants, StorageProofs!FlushPendingPagesRefines
<1>5. /\ DOMAIN files' = DOMAIN files
      /\ StorageProofs!StoredPages(f)' = StorageProofs!StoredPages(f) \o data
      /\ \A g \in DOMAIN files : g # f =>
           StorageProofs!StoredPages(g)' = StorageProofs!StoredPages(g)
  BY <1>4 DEF StorageProofs!Abstract!AppendPages, StorageProofs!Stored
<1> QED BY <1>2, <1>3, <1>5, SameStorageInvNext, SamePages

LEMMA FilesUntouched ==
  ASSUME Storage!StorageInv, UNCHANGED storageVars
  PROVE  /\ Storage!StorageInv'
         /\ next_file_id' = next_file_id /\ files' = files
         /\ \A f \in DOMAIN files : Storage!StoredPages(f)' = Storage!StoredPages(f)
<1>1. StorageProofs!StorageInv /\ UNCHANGED StorageProofs!storageVars
  BY SameStorageInv DEF storageVars, StorageProofs!storageVars
<1>2. StorageProofs!StorageInv'
  BY <1>1, StorageConstants, StorageProofs!StepKeeps
<1>3. \A f \in DOMAIN files : Storage!StoredPages(f)' = Storage!StoredPages(f)
  BY DEF storageVars, Storage!StoredPages, Storage!ContentOf, Storage!BlockOf,
     Storage!LocateExtent
<1> QED BY <1>2, <1>3, SameStorageInvNext DEF storageVars

-----------------------------------------------------------------------------
(* Readers: the batch they hold, the next page, and the rows ahead *)

LEMMA ReaderFields ==
  ASSUME NEW r \in ReaderType
  PROVE  /\ r.file_id \in Nat /\ r.num_pages \in Nat
         /\ r.io_batch_pages \in ReadBatches /\ r.io_batch_pages \in Nat \ {0}
         /\ r.current_page_index \in Nat /\ r.page_buf \in RunPages
         /\ r.batch_buf \in Seq(RunPages) /\ Len(r.batch_buf) \in Nat
         /\ r.next_page_in_batch \in Nat /\ r.page_offset \in Nat
         /\ r.rows_remaining \in Nat /\ r.row \in Rows \cup {None}
  BY RunAssumption, SequenceFacts DEF ReaderType

LEMMA LeastOfThree ==
  ASSUME NEW a \in Int, NEW b \in Int, NEW c \in Int
  PROVE  /\ Min({a, b, c}) \in {a, b, c}
         /\ Min({a, b, c}) <= a /\ Min({a, b, c}) <= b /\ Min({a, b, c}) <= c
<1>1. \E x \in {a, b, c} : \A y \in {a, b, c} : x <= y
  <2>1. a <= b \/ b <= a
    OBVIOUS
  <2>2. a <= c \/ c <= a
    OBVIOUS
  <2>3. b <= c \/ c <= b
    OBVIOUS
  <2>4. a <= b /\ a <= c => \A y \in {a, b, c} : a <= y
    OBVIOUS
  <2>5. b <= a /\ b <= c => \A y \in {a, b, c} : b <= y
    OBVIOUS
  <2>6. c <= a /\ c <= b => \A y \in {a, b, c} : c <= y
    OBVIOUS
  <2> QED BY <2>1, <2>2, <2>3, <2>4, <2>5, <2>6
<1>2. Min({a, b, c}) \in {a, b, c} /\ \A y \in {a, b, c} : Min({a, b, c}) <= y
  BY <1>1 DEF Min
<1> QED BY <1>2

\* A batch is never read past the end of an extent, so its pages are where one
\* read of consecutive blocks finds them.
LEMMA BatchRead ==
  ASSUME Storage!StorageInv, NEW r \in ReaderType, r.file_id \in DOMAIN files,
         r.num_pages = Len(Storage!StoredPages(r.file_id)),
         r.current_page_index < r.num_pages,
         NEW f, f = r.file_id, NEW page, page = r.current_page_index
  PROVE  LET n == PagesToRead(r) IN
         /\ n \in Nat \ {0} /\ n <= r.io_batch_pages /\ page + n <= r.num_pages
         /\ Storage!ReadPages(f, page, n) = [i \in 1..n |-> Storage!StoredPages(f)[page + i]]
<1> DEFINE e == Storage!LocateExtent(f, page)
           a == e.first_page + e.num_pages - page
           b == r.num_pages - page
           c == r.io_batch_pages
           n == PagesToRead(r)
<1>1. /\ page \in Nat /\ r.num_pages \in Nat /\ c \in Nat \ {0} /\ f \in DOMAIN files
      /\ r.num_pages = files[f].num_pages /\ page < r.num_pages
      /\ page \in 0..files[f].num_pages - 1
  <2>1. /\ page \in Nat /\ r.num_pages \in Nat /\ c \in Nat \ {0} /\ f \in DOMAIN files
        /\ r.num_pages = files[f].num_pages /\ page < r.num_pages
    BY ReaderFields, PagesOfFile
  <2> HIDE DEF c
  <2> QED BY <2>1
<1>2. StorageProofs!StorageInv
  BY SameStorageInv
<1>3. PICK k \in DOMAIN files[f].extents :
        /\ page \in StorageProofs!PagesOf(files[f].extents[k])
        /\ StorageProofs!LocateExtent(f, page) = files[f].extents[k]
  BY <1>1, <1>2, StorageConstants, StorageProofs!BlockOfPage
<1>4. e = files[f].extents[k]
  BY <1>3, SameBlocks
<1>5. e.first_page \in Nat /\ e.num_pages \in Nat
  <2>1. StorageProofs!TypeOK
    BY <1>2 DEF StorageProofs!StorageInv
  <2>2. files[f].extents[k] \in StorageProofs!FileExtent
    BY <1>1, <2>1, StorageConstants, StorageProofs!TypedExtents
  <2> QED BY <1>4, <2>2 DEF StorageProofs!FileExtent
<1>6. page \in e.first_page..e.first_page + e.num_pages - 1
  BY <1>3, <1>4 DEF StorageProofs!PagesOf
<1>7. a \in Nat \ {0} /\ b \in Nat \ {0}
  <2> HIDE DEF e
  <2> QED BY <1>1, <1>5, <1>6
<1>8. n = Min({a, b, c})
  BY DEF PagesToRead
<1>9. n \in Nat \ {0} /\ n <= a /\ n <= b /\ n <= c
  <2>1. a \in Int /\ b \in Int /\ c \in Int /\ c \in Nat \ {0}
    <3> HIDE DEF a, b
    <3> QED BY <1>1, <1>7
  <2> HIDE DEF n, a, b, c
  <2>2. n \in {a, b, c} /\ n <= a /\ n <= b /\ n <= c
    BY <1>8, <2>1, LeastOfThree
  <2> QED BY <1>7, <2>1, <2>2
<1>10. page + n <= e.first_page + e.num_pages /\ page + n <= r.num_pages
  <2> HIDE DEF n, e
  <2> QED BY <1>1, <1>5, <1>9
<1>11. StorageProofs!InOneExtent(f, page, n)
  <2> HIDE DEF n
  <2> QED BY <1>3, <1>4, <1>10 DEF StorageProofs!InOneExtent
<1> HIDE DEF n, e
<1>12. /\ StorageProofs!BlockOf(f, page) \in Nat
       /\ \A q \in page..page + n - 1 :
            StorageProofs!BlockOf(f, q) = StorageProofs!BlockOf(f, page) + (q - page)
  BY <1>1, <1>2, <1>9, <1>11, StorageConstants, StorageProofs!ConsecutiveBlocks
<1> DEFINE start == Storage!BlockOf(f, page)
<1>13. /\ start \in Nat
       /\ \A q \in page..page + n - 1 : Storage!BlockOf(f, q) = start + (q - page)
  BY <1>12, SameBlocks
<1>14. ASSUME NEW i \in 1..n
       PROVE  Storage!ContentOf(start + i - 1) = Storage!StoredPages(f)[page + i]
  <2> HIDE DEF start
  <2>1. page + i \in 1..files[f].num_pages
    BY <1>1, <1>9, <1>10
  <2>2. Storage!StoredPages(f)[page + i] = Storage!ContentOf(Storage!BlockOf(f, (page + i) - 1))
    BY <2>1 DEF Storage!StoredPages
  <2>3. PICK q \in page..page + n - 1 : q = (page + i) - 1
    BY <1>1, <1>9
  <2>4. Storage!BlockOf(f, q) = start + (q - page)
    BY <1>13
  <2>5. start + (q - page) = start + i - 1
    BY <1>1, <1>13, <2>3
  <2> QED BY <2>2, <2>3, <2>4, <2>5
<1>15. Storage!ReadPages(f, page, n) = [i \in 1..n |-> Storage!StoredPages(f)[page + i]]
  BY <1>14 DEF Storage!ReadPages
<1> QED BY <1>9, <1>10, <1>15 DEF n

\* What a reader keeps while it looks for its next row.
SameRun(r, s) == s.file_id = r.file_id /\ s.num_pages = r.num_pages /\ s.row = r.row

LEMMA BatchRefilled ==
  ASSUME Storage!StorageInv, NEW pages \in Seq(CountedPages), NEW r, ReaderInv(r, pages),
         r.file_id \in DOMAIN files, pages = Storage!StoredPages(r.file_id),
         r.current_page_index < Len(pages)
  PROVE  LET s == RefillBatch(r) IN
         /\ ReaderInv(s, pages) /\ SameRun(r, s)
         /\ s.next_page_in_batch < Len(s.batch_buf)
         /\ s.current_page_index = r.current_page_index
         /\ s.rows_remaining = r.rows_remaining
<1> DEFINE s == RefillBatch(r)
           cur == r.current_page_index
           n == PagesToRead(r)
           batch == [i \in 1..n |-> pages[cur + i]]
<1>1. /\ r \in ReaderType /\ r.num_pages = Len(pages) /\ cur \in Nat /\ Len(pages) \in Nat
      /\ cur < Len(pages)
  BY ReaderFields, SequenceFacts DEF ReaderInv
<1>2. /\ n \in Nat \ {0} /\ n <= r.io_batch_pages /\ cur + n <= Len(pages)
      /\ Storage!ReadPages(r.file_id, cur, n) = batch
  BY <1>1, BatchRead
<1> HIDE DEF n
<1>3. /\ s.batch_buf = batch /\ s.next_page_in_batch = 0
      /\ s.file_id = r.file_id /\ s.num_pages = r.num_pages /\ s.row = r.row
      /\ s.io_batch_pages = r.io_batch_pages /\ s.current_page_index = cur
      /\ s.page_buf = r.page_buf /\ s.page_offset = r.page_offset
      /\ s.rows_remaining = r.rows_remaining
  BY <1>1, <1>2 DEF RefillBatch, ReaderType, n
<1>4. /\ batch \in Seq(RunPages) /\ Len(batch) = n
      /\ \A i \in 1..n : batch[i] = pages[cur + i]
  <2>1. ASSUME NEW i \in 1..n PROVE pages[cur + i] \in RunPages
    <3>1. cur + i \in 1..Len(pages)
      BY <1>1, <1>2
    <3>2. pages[cur + i] \in CountedPages
      BY <3>1, SequenceFacts
    <3> QED BY <3>2 DEF CountedPages
  <2>2. batch \in [1..n -> RunPages]
    BY <2>1
  <2>3. \A i \in 1..n : batch[i] = pages[cur + i]
    OBVIOUS
  <2> HIDE DEF batch
  <2> QED BY <1>2, <2>2, <2>3, FunctionIsSequence
<1> HIDE DEF batch
<1>5. s \in ReaderType
  BY <1>1, <1>2, <1>4 DEF RefillBatch, ReaderType, n
<1> HIDE DEF s
<1>6. \A i \in s.next_page_in_batch + 1..Len(s.batch_buf) :
        s.batch_buf[i] = pages[s.current_page_index + (i - s.next_page_in_batch)]
  <2>1. \A i \in 1..n : i - 0 = i
    BY <1>2
  <2> QED BY <1>3, <1>4, <2>1
<1>7. s.current_page_index + (Len(s.batch_buf) - s.next_page_in_batch) <= Len(pages)
  BY <1>1, <1>2, <1>3, <1>4
<1>8. ReaderInv(s, pages)
  BY <1>1, <1>2, <1>3, <1>4, <1>5, <1>6, <1>7 DEF ReaderInv
<1> QED BY <1>2, <1>3, <1>4, <1>8 DEF s, SameRun

\* The reader moves to the next page of its batch.
NextPage(s) ==
  LET page == s.batch_buf[s.next_page_in_batch + 1] IN
  [s EXCEPT !.page_buf = page, !.current_page_index = @ + 1, !.next_page_in_batch = @ + 1,
            !.rows_remaining = page.count, !.page_offset = 0]

LEMMA NextPageTaken ==
  ASSUME NEW pages \in Seq(CountedPages), NEW r, ReaderInv(r, pages),
         r.next_page_in_batch < Len(r.batch_buf)
  PROVE  LET s == NextPage(r) IN
         /\ ReaderInv(s, pages) /\ SameRun(r, s)
         /\ s.current_page_index = r.current_page_index + 1
         /\ s.page_buf = pages[r.current_page_index + 1]
         /\ s.page_offset = 0
<1> DEFINE s == NextPage(r)
           cur == r.current_page_index
           next == r.next_page_in_batch
           len == Len(r.batch_buf)
           page == r.batch_buf[next + 1]
<1>1. /\ r \in ReaderType /\ r.num_pages = Len(pages) /\ cur \in Nat /\ next \in Nat
      /\ len \in Nat /\ Len(pages) \in Nat /\ next < len /\ len <= r.io_batch_pages
      /\ cur + (len - next) <= Len(pages)
      /\ r.io_batch_pages \in Nat
  BY ReaderFields, SequenceFacts DEF ReaderInv
<1>2. \A i \in next + 1..len : r.batch_buf[i] = pages[cur + (i - next)]
  BY DEF ReaderInv
<1>3. page = pages[cur + 1] /\ cur + 1 \in 1..Len(pages)
  <2>1. next + 1 \in next + 1..len /\ (next + 1) - next = 1
    BY <1>1
  <2>2. page = pages[cur + ((next + 1) - next)]
    BY <1>2, <2>1
  <2> HIDE DEF page, cur, next, len
  <2> QED BY <1>1, <2>1, <2>2
<1>4. /\ page \in CountedPages /\ page \in RunPages /\ page.count \in Nat
      /\ page.count = Len(page.rows)
  <2>1. page \in CountedPages
    BY <1>3, SequenceFacts
  <2> HIDE DEF page
  <2> QED BY <2>1, CountedRows DEF CountedPages
<1>5. /\ s.page_buf = page /\ s.current_page_index = cur + 1
      /\ s.next_page_in_batch = next + 1 /\ s.rows_remaining = page.count
      /\ s.page_offset = 0 /\ s.batch_buf = r.batch_buf /\ s.io_batch_pages = r.io_batch_pages
      /\ s.file_id = r.file_id /\ s.num_pages = r.num_pages /\ s.row = r.row
  BY <1>1 DEF NextPage, ReaderType
<1>6. s \in ReaderType
  <2>1. cur + 1 \in Nat /\ next + 1 \in Nat
    BY <1>1
  <2>2. s = [r EXCEPT !.page_buf = page, !.current_page_index = cur + 1,
                      !.next_page_in_batch = next + 1,
                      !.rows_remaining = page.count, !.page_offset = 0]
    BY <1>1 DEF NextPage
  <2> HIDE DEF s, page, cur, next
  <2> QED BY <1>1, <1>4, <2>1, <2>2 DEF ReaderType
<1> HIDE DEF s, page, cur, next, len
<1>7. ASSUME NEW i \in next + 2..len
      PROVE  r.batch_buf[i] = pages[(cur + 1) + (i - (next + 1))]
  <2>1. i \in next + 1..len /\ cur + (i - next) = (cur + 1) + (i - (next + 1))
    BY <1>1
  <2> QED BY <1>2, <2>1
<1>8. (next + 1) + 1 = next + 2 /\ next + 1 <= len
      /\ (cur + 1) + (len - (next + 1)) <= Len(pages)
  BY <1>1
<1>9. \A i \in s.next_page_in_batch + 1..Len(s.batch_buf) :
        s.batch_buf[i] = pages[s.current_page_index + (i - s.next_page_in_batch)]
  BY <1>5, <1>7, <1>8 DEF len
<1>10. 0 + page.count = page.count
  BY <1>4
<1>11. ReaderInv(s, pages)
  BY <1>1, <1>4, <1>5, <1>6, <1>8, <1>9, <1>10 DEF ReaderInv, len
<1> QED BY <1>3, <1>5, <1>11 DEF s, SameRun, cur

LEMMA PageLoaded ==
  ASSUME Storage!StorageInv, NEW pages \in Seq(CountedPages), NEW r, ReaderInv(r, pages),
         r.file_id \in DOMAIN files, pages = Storage!StoredPages(r.file_id),
         r.current_page_index < Len(pages)
  PROVE  LET s == LoadNextPage(r) IN
         /\ ReaderInv(s, pages) /\ SameRun(r, s)
         /\ s.current_page_index = r.current_page_index + 1
         /\ s.page_buf = pages[r.current_page_index + 1]
         /\ s.page_offset = 0
<1>1. CASE r.next_page_in_batch >= Len(r.batch_buf)
  <2> DEFINE t == RefillBatch(r)
  <2>1. /\ ReaderInv(t, pages) /\ SameRun(r, t)
        /\ t.next_page_in_batch < Len(t.batch_buf)
        /\ t.current_page_index = r.current_page_index
    BY BatchRefilled
  <2>2. LoadNextPage(r) = NextPage(t)
    BY <1>1 DEF LoadNextPage, NextPage
  <2> HIDE DEF t
  <2>3. LET s == NextPage(t) IN
        /\ ReaderInv(s, pages) /\ SameRun(t, s)
        /\ s.current_page_index = t.current_page_index + 1
        /\ s.page_buf = pages[t.current_page_index + 1]
        /\ s.page_offset = 0
    BY <2>1, NextPageTaken
  <2> QED BY <2>1, <2>2, <2>3 DEF SameRun
<1>2. CASE ~(r.next_page_in_batch >= Len(r.batch_buf))
  <2>1. r.next_page_in_batch < Len(r.batch_buf)
    BY <1>2, ReaderFields DEF ReaderInv
  <2>2. LoadNextPage(r) = NextPage(r)
    BY <1>2 DEF LoadNextPage, NextPage
  <2> QED BY <2>1, <2>2, NextPageTaken
<1> QED BY <1>1, <1>2

\* The pages ahead of a reader are those of its file that it has not loaded,
\* however many of them are in its batch.
LEMMA PagesAheadAreTheRest ==
  ASSUME NEW pages \in Seq(CountedPages), NEW r, ReaderInv(r, pages),
         pages = Storage!StoredPages(r.file_id)
  PROVE  /\ PagesAhead(r) = SubSeq(pages, r.current_page_index + 1, Len(pages))
         /\ PagesAhead(r) \in Seq(CountedPages)
         /\ r.current_page_index \in 0..Len(pages)
<1> DEFINE cur == r.current_page_index
           next == r.next_page_in_batch
           len == Len(r.batch_buf)
           batch == r.batch_buf
<1>1. /\ r \in ReaderType /\ r.num_pages = Len(pages) /\ cur \in Nat /\ next \in Nat
      /\ len \in Nat /\ Len(pages) \in Nat /\ next <= len /\ batch \in Seq(RunPages)
      /\ cur + (len - next) <= Len(pages)
  BY ReaderFields, SequenceFacts DEF ReaderInv
<1>2. \A i \in next + 1..len : batch[i] = pages[cur + (i - next)]
  BY DEF ReaderInv
<1>3. PagesAhead(r) = SubSeq(batch, next + 1, len)
                        \o SubSeq(pages, (cur + (len - next)) + 1, Len(pages))
  BY <1>1 DEF PagesAhead
<1> HIDE DEF cur, next, len, batch
<1>4. PICK k \in 0..Len(pages) : k = cur + (len - next)
  BY <1>1
<1>5. cur \in 0..Len(pages) /\ cur <= k
  BY <1>1, <1>4
<1>6. SubSeq(batch, next + 1, len) = SubSeq(pages, cur + 1, k)
  <2> DEFINE u == SubSeq(batch, next + 1, len)
             v == SubSeq(pages, cur + 1, k)
  <2>1. /\ u \in Seq(RunPages) /\ Len(u) = len - next
        /\ \A i \in 1..(len - next) : u[i] = batch[next + i]
    <3>1. \A i \in next + 1..len : batch[i] \in RunPages
      BY <1>1, SequenceFacts DEF len, batch
    <3>2. /\ u \in Seq(RunPages)
          /\ Len(u) = IF next + 1 <= len THEN len - (next + 1) + 1 ELSE 0
          /\ \A i \in 1..(len - (next + 1) + 1) : u[i] = batch[(next + 1) + i - 1]
      BY <1>1, <3>1, SubSeqProperties
    <3> HIDE DEF u
    <3> QED BY <1>1, <3>2
  <2>2. /\ v \in Seq(CountedPages) /\ Len(v) = k - cur
        /\ \A i \in 1..(k - cur) : v[i] = pages[cur + i]
    <3>1. \A i \in cur + 1..k : pages[i] \in CountedPages
      BY <1>1, <1>4, SequenceFacts
    <3>2. /\ v \in Seq(CountedPages)
          /\ Len(v) = IF cur + 1 <= k THEN k - (cur + 1) + 1 ELSE 0
          /\ \A i \in 1..(k - (cur + 1) + 1) : v[i] = pages[(cur + 1) + i - 1]
      BY <1>1, <1>4, <3>1, SubSeqProperties
    <3> HIDE DEF v
    <3> QED BY <1>1, <1>4, <1>5, <3>2, SMTT(20)
  <2> HIDE DEF u, v
  <2>3. v \in Seq(RunPages)
    BY <2>2, SeqMonotonic DEF CountedPages
  <2>4. k - cur = len - next
    BY <1>1, <1>4
  <2>5. ASSUME NEW i \in 1..Len(u) PROVE u[i] = v[i]
    <3>1. i \in 1..(len - next) /\ next + i \in next + 1..len /\ cur + ((next + i) - next) = cur + i
      BY <1>1, <2>1
    <3> QED BY <1>2, <2>1, <2>2, <2>4, <3>1
  <2>6. u = v
    BY <2>1, <2>2, <2>3, <2>4, <2>5, SeqEqual
  <2> QED BY <2>6 DEF u, v
<1>7. SubSeq(pages, cur + 1, k) \o SubSeq(pages, k + 1, Len(pages))
        = SubSeq(pages, cur + 1, Len(pages))
  <2>1. cur + 1 \in 1..Len(pages) + 1 /\ k \in (cur + 1) - 1..Len(pages) /\ Len(pages) \in k..Len(pages)
    BY <1>1, <1>4, <1>5
  <2> QED BY <2>1, ConcatAdjacentSubSeq
<1>8. SubSeq(pages, cur + 1, Len(pages)) \in Seq(CountedPages)
  <2>1. \A i \in cur + 1..Len(pages) : pages[i] \in CountedPages
    BY <1>1, SequenceFacts
  <2>2. cur + 1 \in Int /\ Len(pages) \in Int
    BY <1>1
  <2> QED BY <2>1, <2>2, SubSeqProperties
<1> QED BY <1>3, <1>4, <1>5, <1>6, <1>7, <1>8 DEF cur

\* The rows ahead of a reader: what is left of its page, and all of the pages after it.
LEMMA RowsAheadAreTheRest ==
  ASSUME NEW pages \in Seq(CountedPages), NEW r, ReaderInv(r, pages),
         pages = Storage!StoredPages(r.file_id)
  PROVE  LET rows == r.page_buf.rows
             left == SubSeq(rows, r.page_offset + 1, Len(rows))
             rest == RowsOf(SubSeq(pages, r.current_page_index + 1, Len(pages)))
         IN /\ RowsAhead(r) = left \o rest
            /\ left \in Seq(Rows) /\ rest \in Seq(Rows) /\ RowsAhead(r) \in Seq(Rows)
            /\ rows \in Seq(Rows) /\ Len(rows) \in Nat /\ r.page_offset \in 0..Len(rows)
<1> DEFINE rows == r.page_buf.rows
           left == SubSeq(rows, r.page_offset + 1, Len(rows))
           rest == RowsOf(SubSeq(pages, r.current_page_index + 1, Len(pages)))
<1>1. rows \in Seq(Rows) /\ Len(rows) \in Nat
  BY CountedRows, SequenceFacts DEF ReaderInv
<1>2. /\ r.page_offset \in Nat /\ r.rows_remaining \in Nat
      /\ r.page_offset + r.rows_remaining = Len(rows)
  BY ReaderFields DEF ReaderInv
<1>3. RowsAhead(r) = left \o rest
  BY <1>2, PagesAheadAreTheRest DEF RowsAhead
<1>4. left \in Seq(Rows)
  <2>1. \A i \in r.page_offset + 1..Len(rows) : rows[i] \in Rows
    BY <1>1, <1>2, SequenceFacts
  <2>2. r.page_offset + 1 \in Int /\ Len(rows) \in Int
    BY <1>1, <1>2
  <2> QED BY <2>1, <2>2, SubSeqProperties
<1>5. rest \in Seq(Rows)
  BY PagesAheadAreTheRest, RowsOfTyped
<1>6. RowsAhead(r) \in Seq(Rows)
  <2> HIDE DEF left, rest
  <2> QED BY <1>3, <1>4, <1>5, ConcatProperties
<1>7. r.page_offset \in 0..Len(rows)
  BY <1>1, <1>2
<1> QED BY <1>1, <1>3, <1>4, <1>5, <1>6, <1>7

\* Loading the next page, when the last one is used up, moves no row.
LEMMA LoadingKeepsRows ==
  ASSUME Storage!StorageInv, NEW pages \in Seq(CountedPages), NEW r, ReaderInv(r, pages),
         r.file_id \in DOMAIN files, pages = Storage!StoredPages(r.file_id),
         r.current_page_index < Len(pages), r.rows_remaining = 0
  PROVE  RowsAhead(LoadNextPage(r)) = RowsAhead(r)
<1> DEFINE s == LoadNextPage(r)
           cur == r.current_page_index
           rest == SubSeq(pages, (cur + 1) + 1, Len(pages))
<1>1. /\ ReaderInv(s, pages) /\ s.file_id = r.file_id
      /\ s.current_page_index = cur + 1 /\ s.page_buf = pages[cur + 1] /\ s.page_offset = 0
  BY PageLoaded DEF SameRun
<1> HIDE DEF s
<1>2. cur \in Nat /\ Len(pages) \in Nat /\ cur + 1 \in 1..Len(pages)
  BY ReaderFields, SequenceFacts DEF ReaderInv
<1>3. pages[cur + 1] \in CountedPages /\ pages[cur + 1].rows \in Seq(Rows)
  BY <1>2, SequenceFacts, CountedRows
<1>4. RowsAhead(s) = pages[cur + 1].rows \o RowsOf(rest)
  <2>1. RowsAhead(s) = SubSeq(pages[cur + 1].rows, 0 + 1, Len(pages[cur + 1].rows)) \o RowsOf(rest)
    BY <1>1, RowsAheadAreTheRest
  <2>2. SubSeq(pages[cur + 1].rows, 0 + 1, Len(pages[cur + 1].rows)) = pages[cur + 1].rows
    BY <1>3, SubSeqFull
  <2> QED BY <2>1, <2>2
<1>5. RowsAhead(r) = RowsOf(SubSeq(pages, cur + 1, Len(pages)))
  <2> DEFINE rows == r.page_buf.rows
             all == RowsOf(SubSeq(pages, cur + 1, Len(pages)))
  <2>1. /\ RowsAhead(r) = SubSeq(rows, r.page_offset + 1, Len(rows)) \o all
        /\ all \in Seq(Rows) /\ Len(rows) \in Nat /\ r.page_offset \in 0..Len(rows)
    BY RowsAheadAreTheRest
  <2>2. r.page_offset + 0 = Len(rows)
    BY DEF ReaderInv
  <2> HIDE DEF all, rows
  <2>3. SubSeq(rows, r.page_offset + 1, Len(rows)) = << >>
    BY <2>1, <2>2, SubSeqEmpty
  <2> QED BY <2>1, <2>3, ConcatEmptySeq DEF all
<1>6. SubSeq(pages, cur + 1, Len(pages)) = <<pages[cur + 1]>> \o rest
  <2>1. Len(pages) \in cur + 1..Len(pages)
    BY <1>2
  <2> QED BY <1>2, <2>1, SubSeqRecursiveFirst
<1>7. rest \in Seq(CountedPages)
  <2>1. \A i \in (cur + 1) + 1..Len(pages) : pages[i] \in CountedPages
    BY <1>2, SequenceFacts
  <2>2. (cur + 1) + 1 \in Int /\ Len(pages) \in Int
    BY <1>2
  <2> QED BY <2>1, <2>2, SubSeqProperties
<1>8. RowsOf(<<pages[cur + 1]>> \o rest) = pages[cur + 1].rows \o RowsOf(rest)
  <2>1. <<pages[cur + 1]>> \in Seq(CountedPages) /\ RowsOf(<<pages[cur + 1]>>) = pages[cur + 1].rows
    BY <1>3, SingletonElements, RowsOfOne
  <2> HIDE DEF rest
  <2> QED BY <1>7, <2>1, RowsOfConcat
<1> QED BY <1>4, <1>5, <1>6, <1>8 DEF s

\* Nothing is left to look for: a row of the page, or the end of the run.
AtRowOrEnd(s) == s.rows_remaining > 0 \/ s.current_page_index >= s.num_pages

\* Once around the loop of next_row.
Around(s) == IF AtRowOrEnd(s) THEN s ELSE LoadNextPage(s)

\* Where a reader may be while it looks for its next row.
Searching(r, pages) ==
  {s \in ReaderType : ReaderInv(s, pages) /\ SameRun(r, s) /\ RowsAhead(s) = RowsAhead(r)}

LEMMA AroundKeeps ==
  ASSUME Storage!StorageInv, NEW pages \in Seq(CountedPages), NEW r, ReaderInv(r, pages),
         r.file_id \in DOMAIN files, pages = Storage!StoredPages(r.file_id),
         NEW s \in Searching(r, pages)
  PROVE  /\ Around(s) \in Searching(r, pages)
         /\ AtRowOrEnd(s) => Around(s) = s
         /\ ~AtRowOrEnd(s) => Around(s).current_page_index = s.current_page_index + 1
<1>1. /\ s \in ReaderType /\ ReaderInv(s, pages) /\ SameRun(r, s)
      /\ RowsAhead(s) = RowsAhead(r) /\ s.file_id = r.file_id
  BY DEF Searching, SameRun
<1>2. CASE AtRowOrEnd(s)
  BY <1>2 DEF Around
<1>3. CASE ~AtRowOrEnd(s)
  <2>1. s.rows_remaining = 0 /\ s.current_page_index < Len(pages)
    <3>1. /\ s.rows_remaining \in Nat /\ s.current_page_index \in Nat
          /\ s.num_pages = Len(pages) /\ s.num_pages \in Nat
      BY <1>1, ReaderFields DEF ReaderInv
    <3> QED BY <1>3, <3>1 DEF AtRowOrEnd
  <2>2. /\ ReaderInv(LoadNextPage(s), pages) /\ SameRun(s, LoadNextPage(s))
        /\ LoadNextPage(s).current_page_index = s.current_page_index + 1
    BY <1>1, <2>1, PageLoaded
  <2>3. RowsAhead(LoadNextPage(s)) = RowsAhead(s)
    BY <1>1, <2>1, LoadingKeepsRows
  <2>4. LoadNextPage(s) \in ReaderType
    BY <2>2 DEF ReaderInv
  <2> QED BY <1>1, <1>3, <2>2, <2>3, <2>4 DEF Around, Searching, SameRun
<1> QED BY <1>2, <1>3

\* The loop of next_row ends at a row or at the end of the run, and passes no row.
LEMMA SettledFinds ==
  ASSUME Storage!StorageInv, NEW pages \in Seq(CountedPages), NEW r, ReaderInv(r, pages),
         r.file_id \in DOMAIN files, pages = Storage!StoredPages(r.file_id)
  PROVE  Settled(r) \in Searching(r, pages) /\ AtRowOrEnd(Settled(r))
<1> DEFINE S == Searching(r, pages)
           N == r.num_pages
           step == [q \in S \X Nat |-> Around(q[1])]
<1>1. N \in Nat /\ N = Len(pages)
  BY ReaderFields DEF ReaderInv
<1>2. r \in S
  BY DEF Searching, SameRun, ReaderInv
<1>3. step \in [S \X Nat -> S]
  <2>1. \A s \in S : Around(s) \in S
    BY AroundKeeps
  <2> HIDE DEF S
  <2> QED BY <2>1
<1>4. PICK h \in [Nat -> S] : Iterates(h, r, step)
  <2> HIDE DEF S, step
  <2> QED BY <1>2, <1>3, NaturalRecursion
<1>5. /\ h[0] = r
      /\ \A n \in Nat : h[n] \in S /\ h[n + 1] = Around(h[n])
  <2>1. \A n \in Nat : h[n] \in S /\ step[<<h[n], n>>] = Around(h[n])
    <3> HIDE DEF S
    <3> QED BY <1>4
  <2> HIDE DEF S, step
  <2> QED BY <1>4, <2>1 DEF Iterates
<1> DEFINE IsAfter(f) == f = [n \in 0..N |->
                IF n = 0 THEN r
                ELSE LET s == f[n - 1] IN
                     IF s.rows_remaining > 0 \/ s.current_page_index >= s.num_pages
                     THEN s ELSE LoadNextPage(s)]
           after == CHOOSE f : IsAfter(f)
           g == [n \in 0..N |-> h[n]]
<1>6. Settled(r) = after[N]
  BY DEF Settled
<1>7. IsAfter(g)
  <2> DEFINE z == [n \in 0..N |-> IF n = 0 THEN r ELSE Around(g[n - 1])]
  <2>1. ASSUME NEW n \in 0..N PROVE g[n] = z[n]
    <3>1. CASE n = 0
      BY <1>1, <1>5, <3>1
    <3>2. CASE n # 0
      <4>1. PICK m \in Nat : n = m + 1 /\ n - 1 = m /\ m \in 0..N
        <5>1. n - 1 \in Nat /\ n = (n - 1) + 1 /\ n - 1 \in 0..N
          BY <1>1, <3>2
        <5> QED BY <5>1
      <4>2. g[n] = h[m + 1] /\ g[n - 1] = h[m]
        BY <4>1
      <4>3. z[n] = Around(g[n - 1])
        BY <3>2
      <4> HIDE DEF g, z
      <4> QED BY <1>5, <4>1, <4>2, <4>3
    <3> QED BY <3>1, <3>2
  <2>2. g = [n \in 0..N |-> g[n]] /\ z = [n \in 0..N |-> z[n]]
    OBVIOUS
  <2> HIDE DEF g, z, N
  <2>3. g = z
    BY <2>1, <2>2
  <2> QED BY <2>3 DEF z, Around, AtRowOrEnd
<1>8. IsAfter(after)
  <2> HIDE DEF IsAfter, g
  <2> QED BY <1>7
<1>9. after[0] = r /\ \A n \in 0..N : n # 0 => after[n] = Around(after[n - 1])
  <2> HIDE DEF after
  <2>1. after[0] = r
    BY <1>1, <1>8
  <2>2. ASSUME NEW n \in 0..N, n # 0 PROVE after[n] = Around(after[n - 1])
    BY <1>8, <2>2 DEF Around, AtRowOrEnd
  <2> QED BY <2>1, <2>2
<1> HIDE DEF after, IsAfter, g, N, S, step
<1>10. after[N] = h[N]
  <2> DEFINE T == {n \in Nat : n <= N => after[n] = h[n]}
  <2>1. 0 \in T
    BY <1>5, <1>9
  <2>2. ASSUME NEW n \in T PROVE n + 1 \in T
    <3> SUFFICES ASSUME n + 1 <= N PROVE after[n + 1] = h[n + 1]
      OBVIOUS
    <3>1. n \in Nat /\ n <= N /\ n + 1 \in 0..N /\ n + 1 # 0 /\ (n + 1) - 1 = n
      BY <1>1
    <3>2. after[n] = h[n]
      BY <3>1
    <3>3. after[n + 1] = Around(after[(n + 1) - 1])
      BY <1>9, <3>1
    <3> QED BY <1>5, <3>1, <3>2, <3>3
  <2>3. T \in SUBSET Nat
    OBVIOUS
  <2>4. N \in T
    <3> HIDE DEF T
    <3> QED BY <1>1, <2>1, <2>2, <2>3, SetInduction
  <2> QED BY <1>1, <2>4
<1>11. ASSUME NEW n \in Nat
       PROVE  /\ h[n] \in S /\ h[n].current_page_index \in Nat
              /\ h[n].num_pages = N
              /\ Around(h[n]) = h[n + 1]
              /\ AtRowOrEnd(h[n]) => h[n + 1] = h[n]
              /\ ~AtRowOrEnd(h[n]) => h[n + 1].current_page_index = h[n].current_page_index + 1
  <2>1. h[n] \in S /\ h[n] \in Searching(r, pages) /\ h[n + 1] = Around(h[n])
    BY <1>5 DEF S
  <2>2. h[n].current_page_index \in Nat /\ h[n].num_pages = r.num_pages
    BY <2>1, ReaderFields DEF Searching, SameRun
  <2>3. /\ AtRowOrEnd(h[n]) => Around(h[n]) = h[n]
        /\ ~AtRowOrEnd(h[n]) =>
             Around(h[n]).current_page_index = h[n].current_page_index + 1
    BY <2>1, AroundKeeps
  <2> QED BY <2>1, <2>2, <2>3 DEF N
<1>12. AtRowOrEnd(h[N])
  <2> DEFINE T == {n \in Nat : AtRowOrEnd(h[n]) \/ h[n].current_page_index >= n}
  <2>1. 0 \in T
    BY <1>11
  <2>2. ASSUME NEW n \in T PROVE n + 1 \in T
    <3>1. n \in Nat /\ (AtRowOrEnd(h[n]) \/ h[n].current_page_index >= n)
      OBVIOUS
    <3>2. CASE AtRowOrEnd(h[n])
      BY <1>11, <3>1, <3>2
    <3>3. CASE ~AtRowOrEnd(h[n])
      <4>1. h[n + 1].current_page_index = h[n].current_page_index + 1 /\ h[n].current_page_index >= n
            /\ h[n].current_page_index \in Nat
        BY <1>11, <3>1, <3>3
      <4>2. h[n + 1].current_page_index >= n + 1
        BY <3>1, <4>1
      <4> QED BY <3>1, <4>2
    <3> QED BY <3>2, <3>3
  <2>3. T \in SUBSET Nat
    OBVIOUS
  <2>4. N \in T
    <3> HIDE DEF T
    <3> QED BY <1>1, <2>1, <2>2, <2>3, SetInduction
  <2> QED BY <1>1, <1>11, <2>4 DEF AtRowOrEnd
<1> QED BY <1>1, <1>5, <1>6, <1>10, <1>12 DEF S

-----------------------------------------------------------------------------
(* The row delivered *)

LEMMA DeliveredFields ==
  ASSUME NEW s \in ReaderType
  PROVE  LET t == Delivered(s) IN
         /\ t.file_id = s.file_id /\ t.num_pages = s.num_pages
         /\ t.io_batch_pages = s.io_batch_pages /\ t.page_buf = s.page_buf
         /\ t.current_page_index = s.current_page_index /\ t.batch_buf = s.batch_buf
         /\ t.next_page_in_batch = s.next_page_in_batch
         /\ s.rows_remaining = 0 =>
              t.row = None /\ t.page_offset = s.page_offset /\ t.rows_remaining = 0
         /\ s.rows_remaining # 0 =>
              /\ t.row = s.page_buf.rows[s.page_offset + 1]
              /\ t.page_offset = s.page_offset + 1
              /\ t.rows_remaining = s.rows_remaining - 1
<1>1. CASE s.rows_remaining = 0
  <2>1. Delivered(s) = [s EXCEPT !.row = None]
    BY <1>1 DEF Delivered
  <2> QED BY <1>1, <2>1 DEF ReaderType
<1>2. CASE s.rows_remaining # 0
  <2>1. Delivered(s) = [s EXCEPT !.row = s.page_buf.rows[s.page_offset + 1],
                                 !.page_offset = s.page_offset + 1,
                                 !.rows_remaining = s.rows_remaining - 1]
    BY <1>2 DEF Delivered
  <2> QED BY <1>2, <2>1 DEF ReaderType
<1> QED BY <1>1, <1>2

\* A reader keeps its invariant when it delivers a row, or None.
LEMMA DeliveredKeeps ==
  ASSUME NEW pages \in Seq(CountedPages), NEW s, ReaderInv(s, pages)
  PROVE  ReaderInv(Delivered(s), pages)
<1> DEFINE t == Delivered(s)
           rows == s.page_buf.rows
           off == s.page_offset
           left == s.rows_remaining
<1>0. s \in ReaderType
  BY DEF ReaderInv
<1>1. /\ rows \in Seq(Rows) /\ Len(rows) \in Nat /\ off \in Nat /\ left \in Nat
      /\ off + left = Len(rows)
  BY <1>0, CountedRows, SequenceFacts, ReaderFields DEF ReaderInv
<1>2. t \in ReaderType /\ t.page_offset + t.rows_remaining = Len(rows)
  <2>1. CASE left = 0
    <3>1. t = [s EXCEPT !.row = None]
      BY <2>1 DEF Delivered
    <3>2. t \in ReaderType
      BY <1>0, <3>1 DEF ReaderType
    <3>3. t.page_offset = off /\ t.rows_remaining = 0
      BY <1>0, <2>1, DeliveredFields
    <3> QED BY <1>1, <2>1, <3>2, <3>3
  <2>2. CASE left # 0
    <3>1. off + 1 \in Nat /\ left - 1 \in Nat /\ rows[off + 1] \in Rows \cup {None}
          /\ (off + 1) + (left - 1) = Len(rows)
      <4>1. off + 1 \in 1..Len(rows)
        <5> HIDE DEF rows, off, left
        <5> QED BY <1>1, <2>2
      <4>2. rows[off + 1] \in Rows
        BY <1>1, <4>1, SequenceFacts
      <4> HIDE DEF rows, off, left
      <4> QED BY <1>1, <2>2, <4>2
    <3>2. t = [s EXCEPT !.row = rows[off + 1], !.page_offset = off + 1,
                        !.rows_remaining = left - 1]
      BY <2>2 DEF Delivered
    <3>3. t \in ReaderType
      <4> HIDE DEF t, rows, off, left
      <4> QED BY <1>0, <3>1, <3>2 DEF ReaderType
    <3>4. t.page_offset = off + 1 /\ t.rows_remaining = left - 1
      BY <1>0, <2>2, DeliveredFields
    <3> HIDE DEF t, rows, off, left
    <3> QED BY <3>1, <3>3, <3>4
  <2> QED BY <2>1, <2>2
<1>3. /\ t.num_pages = s.num_pages
      /\ t.io_batch_pages = s.io_batch_pages /\ t.page_buf = s.page_buf
      /\ t.current_page_index = s.current_page_index /\ t.batch_buf = s.batch_buf
      /\ t.next_page_in_batch = s.next_page_in_batch
  BY <1>0, DeliveredFields
<1> HIDE DEF t
<1> QED BY <1>2, <1>3 DEF ReaderInv, t, rows

\* What next_row answers: the first of the rows ahead, or None if there is none.
LEMMA DeliveredRow ==
  ASSUME NEW pages \in Seq(CountedPages), NEW s, ReaderInv(s, pages), AtRowOrEnd(s),
         pages = Storage!StoredPages(s.file_id)
  PROVE  LET t == Delivered(s) IN
         IF RowsAhead(s) = << >> THEN t.row = None /\ RowsAhead(t) = << >>
         ELSE t.row = Head(RowsAhead(s)) /\ RowsAhead(t) = Tail(RowsAhead(s))
<1> DEFINE t == Delivered(s)
           rows == s.page_buf.rows
           off == s.page_offset
           left == s.rows_remaining
           rest == RowsOf(SubSeq(pages, s.current_page_index + 1, Len(pages)))
<1>0. s \in ReaderType
  BY DEF ReaderInv
<1>1. /\ rows \in Seq(Rows) /\ Len(rows) \in Nat /\ off \in Nat /\ left \in Nat
      /\ off + left = Len(rows) /\ rest \in Seq(Rows)
      /\ s.num_pages = Len(pages) /\ s.current_page_index \in Nat /\ Len(pages) \in Nat
  BY <1>0, RowsAheadAreTheRest, ReaderFields, SequenceFacts DEF ReaderInv
<1>2. RowsAhead(s) = SubSeq(rows, off + 1, Len(rows)) \o rest
  BY RowsAheadAreTheRest
<1>3. ReaderInv(t, pages) /\ t.file_id = s.file_id
  BY <1>0, DeliveredKeeps, DeliveredFields
<1>4. RowsAhead(t) = SubSeq(rows, t.page_offset + 1, Len(rows)) \o rest
  <2>1. t.page_buf = s.page_buf /\ t.current_page_index = s.current_page_index
    BY <1>0, DeliveredFields
  <2> HIDE DEF t
  <2> QED BY <1>3, <2>1, RowsAheadAreTheRest
<1>5. CASE left = 0
  <2>1. t.row = None /\ t.page_offset = off
    BY <1>0, <1>5, DeliveredFields
  <2>2. SubSeq(rows, off + 1, Len(rows)) = << >>
    <3>1. Len(rows) < off + 1 /\ off + 1 \in Int /\ Len(rows) \in Int
      <4> HIDE DEF rows, off, left
      <4> QED BY <1>1, <1>5
    <3> QED BY <3>1, SubSeqEmpty
  <2>3. rest = << >>
    <3>1. Len(pages) < s.current_page_index + 1
      BY <1>1, <1>5 DEF AtRowOrEnd
    <3>2. s.current_page_index + 1 \in Int /\ Len(pages) \in Int
      BY <1>1
    <3>3. SubSeq(pages, s.current_page_index + 1, Len(pages)) = << >>
      BY <3>1, <3>2, SubSeqEmpty
    <3> QED BY <3>3, RowsOfEmpty
  <2>4. << >> \o << >> = << >>
    OBVIOUS
  <2> HIDE DEF t, rest, rows, off
  <2>5. RowsAhead(s) = << >> /\ RowsAhead(t) = << >>
    BY <1>2, <1>4, <2>1, <2>2, <2>3, <2>4
  <2> QED BY <2>1, <2>5 DEF t
<1>6. CASE left # 0
  <2>1. t.row = rows[off + 1] /\ t.page_offset = off + 1
    BY <1>0, <1>6, DeliveredFields
  <2>2. off + 1 \in 1..Len(rows) /\ Len(rows) \in off + 1..Len(rows)
    <3> HIDE DEF rows, off, left
    <3> QED BY <1>1, <1>6
  <2> DEFINE after == SubSeq(rows, (off + 1) + 1, Len(rows))
             e == rows[off + 1]
  <2>3. SubSeq(rows, off + 1, Len(rows)) = <<e>> \o after
    BY <1>1, <2>2, SubSeqRecursiveFirst
  <2>4. after \in Seq(Rows) /\ e \in Rows
    <3>1. \A i \in (off + 1) + 1..Len(rows) : rows[i] \in Rows
      BY <1>1, SequenceFacts
    <3>2. (off + 1) + 1 \in Int /\ Len(rows) \in Int
      BY <1>1
    <3>3. after \in Seq(Rows)
      BY <3>1, <3>2, SubSeqProperties
    <3> QED BY <1>1, <2>2, <3>3, SequenceFacts
  <2> HIDE DEF after, e, rest, t, rows, off
  <2>5. RowsAhead(s) = <<e>> \o (after \o rest) /\ after \o rest \in Seq(Rows)
        /\ RowsAhead(t) = after \o rest
    <3>1. (<<e>> \o after) \o rest = <<e>> \o (after \o rest)
      BY <1>1, <2>4, SingletonElements, ConcatAssociative
    <3>2. after \o rest \in Seq(Rows)
      BY <1>1, <2>4, ConcatProperties
    <3>3. RowsAhead(s) = <<e>> \o (after \o rest)
      BY <1>2, <2>3, <3>1
    <3>4. RowsAhead(t) = after \o rest
      <4>1. after = SubSeq(rows, (off + 1) + 1, Len(rows))
        BY DEF after
      <4> QED BY <1>4, <2>1, <4>1
    <3> QED BY <3>2, <3>3, <3>4
  <2>6. /\ <<e>> \o (after \o rest) # << >>
        /\ Head(<<e>> \o (after \o rest)) = e
        /\ Tail(<<e>> \o (after \o rest)) = after \o rest
    BY <2>4, <2>5, HeadOfConcat
  <2> QED BY <2>1, <2>5, <2>6 DEF t, e
<1> QED BY <1>5, <1>6

-----------------------------------------------------------------------------
(* What a step leaves as it is *)

\* The rows ahead of a reader depend on the reader and on the pages of its file.
LEMMA CursorNext ==
  ASSUME NEW q, NEW r, r = readers'[q]
  PROVE  RowsAhead(readers[q])' = RowsAhead(r)'
  BY DEF RowsAhead, PagesAhead, Storage!StoredPages, Storage!ContentOf, Storage!BlockOf,
     Storage!LocateExtent

LEMMA AheadKept ==
  ASSUME NEW r, Storage!StoredPages(r.file_id)' = Storage!StoredPages(r.file_id)
  PROVE  RowsAhead(r)' = RowsAhead(r)
  BY DEF RowsAhead, PagesAhead

LEMMA RunRowsKept ==
  ASSUME NEW f, Storage!StoredPages(f)' = Storage!StoredPages(f),
         f \in DOMAIN writers' <=> f \in DOMAIN writers,
         f \in DOMAIN writers => writers'[f] = writers[f]
  PROVE  RunRows(f)' = RunRows(f)
<1>1. CASE f \in DOMAIN writers
  BY <1>1 DEF RunRows
<1>2. CASE f \notin DOMAIN writers
  BY <1>2 DEF RunRows
<1> QED BY <1>1, <1>2

LEMMA PagesOfRun ==
  ASSUME RunInv, NEW f \in DOMAIN files
  PROVE  /\ Storage!StoredPages(f) \in Seq(CountedPages)
         /\ RowsOf(Storage!StoredPages(f)) \in Seq(Rows)
         /\ f \notin DOMAIN writers => RunRows(f) = RowsOf(Storage!StoredPages(f))
         /\ f \in DOMAIN writers =>
              /\ RunRows(f) = RowsOf(Storage!StoredPages(f)) \o RowsIn(writers[f])
              /\ RowsIn(writers[f]) \in Seq(Rows)
<1>1. Storage!StoredPages(f) \in Seq(CountedPages)
  BY DEF RunInv, FilesInv, PagesInv
<1>2. RowsOf(Storage!StoredPages(f)) \in Seq(Rows)
  BY <1>1, RowsOfTyped
<1>3. f \notin DOMAIN writers => RunRows(f) = RowsOf(Storage!StoredPages(f))
  BY <1>2, ConcatEmptySeq DEF RunRows
<1>4. ASSUME f \in DOMAIN writers
      PROVE  /\ RunRows(f) = RowsOf(Storage!StoredPages(f)) \o RowsIn(writers[f])
             /\ RowsIn(writers[f]) \in Seq(Rows)
  <2>1. WriterHolds(writers[f])
    BY <1>4 DEF RunInv, WritersInv, WriterInv
  <2>2. writers[f].page_buf \in Seq(Rows)
    BY <2>1, WriterFields DEF WriterHolds
  <2>3. RowsIn(writers[f]) \in Seq(Rows)
    BY <2>1, <2>2, WriterPage, ConcatProperties
  <2> QED BY <1>4, <2>3 DEF RunRows, RowsIn
<1> QED BY <1>1, <1>2, <1>3, <1>4

\* Readers see no difference when the finished runs keep their pages.
LEMMA ReadersKept ==
  ASSUME RunInv, UNCHANGED readers,
         \A r \in DOMAIN readers : readers[r].file_id \in DOMAIN files' \ DOMAIN writers',
         \A f \in DOMAIN files \ DOMAIN writers : f \in DOMAIN files' =>
           Storage!StoredPages(f)' = Storage!StoredPages(f)
  PROVE  ReadersInv' /\ UNCHANGED Cursors
<1>1. ASSUME NEW q \in DOMAIN readers
      PROVE  /\ readers'[q] = readers[q]
             /\ readers[q].file_id \in DOMAIN files \ DOMAIN writers
             /\ readers[q].file_id \in DOMAIN files'
  BY <1>1 DEF RunInv, ReadersInv
<1>2. ReadersInv'
  <2>1. ASSUME NEW q \in DOMAIN readers', NEW f \in DOMAIN files', readers'[q].file_id = f
        PROVE  ReaderInv(readers'[q], Storage!StoredPages(f)')
    <3>1. f \in DOMAIN files \ DOMAIN writers /\ readers[q].file_id = f /\ q \in DOMAIN readers
      BY <1>1, <2>1
    <3>2. Storage!StoredPages(f)' = Storage!StoredPages(f)
      BY <2>1, <3>1
    <3>3. ReaderInv(readers[q], Storage!StoredPages(f))
      BY <3>1 DEF RunInv, ReadersInv
    <3> QED BY <3>2, <3>3
  <2>2. DOMAIN readers' \subseteq Readers
    BY DEF RunInv, ReadersInv
  <2> QED BY <2>1, <2>2 DEF ReadersInv
<1>3. ASSUME NEW q \in DOMAIN readers
      PROVE  RowsAhead(readers[q])' = RowsAhead(readers[q])
  <2>1. PICK r : r = readers[q]
    OBVIOUS
  <2>2. PICK f : f = r.file_id
    OBVIOUS
  <2>3. Storage!StoredPages(f)' = Storage!StoredPages(f)
    BY <1>1, <2>1, <2>2
  <2>4. RowsAhead(r)' = RowsAhead(r)
    BY <2>2, <2>3, AheadKept
  <2>5. RowsAhead(readers[q])' = RowsAhead(r)'
    BY <2>1, CursorNext
  <2> QED BY <2>1, <2>4, <2>5
<1>4. UNCHANGED Cursors
  BY <1>3 DEF Cursors
<1> QED BY <1>2, <1>4

-----------------------------------------------------------------------------
(* OpenWriter *)

LEMMA OpenWriterStep ==
  ASSUME RunInv, NEW batch \in WriteBatches, OpenWriter(batch)
  PROVE  RunInv' /\ \E f \in 0..MaxFiles - 1 : Abstract!Create(f)
<1>0. Storage!StorageInv /\ Storage!CreateTempFile /\ UNCHANGED readers
  BY DEF RunInv, OpenWriter
<1>1. PICK id : id = next_file_id
  OBVIOUS
<1>2. /\ Storage!StorageInv' /\ id \in Nat /\ id < MaxFiles /\ next_file_id' = id + 1
      /\ id \notin DOMAIN files /\ DOMAIN files' = DOMAIN files \cup {id}
      /\ \A f \in DOMAIN files : Storage!StoredPages(f)' = Storage!StoredPages(f)
      /\ Storage!StoredPages(id)' = << >>
  BY <1>0, <1>1, FileCreated
<1>3. /\ DOMAIN writers' = DOMAIN writers \cup {id} /\ writers'[id] = NewWriter(batch)
      /\ \A f \in DOMAIN writers : f # id => writers'[f] = writers[f]
  BY <1>1 DEF OpenWriter, With
<1>4. DOMAIN writers \subseteq DOMAIN files /\ id \notin DOMAIN writers
  BY <1>2 DEF RunInv, WritersInv
<1>5. WritersInv'
  BY <1>2, <1>3, <1>4, NewWriterHolds DEF RunInv, WritersInv
<1>6. FilesInv'
  <2>1. id + 1 <= MaxFiles
    BY <1>2, RegionAssumption
  <2>2. PagesInv(<< >>, TRUE)
    BY EmptyElements DEF PagesInv, NonEmpty
  <2>3. ASSUME NEW f \in DOMAIN files'
        PROVE  PagesInv(Storage!StoredPages(f)', f \in DOMAIN writers')
    <3>1. CASE f = id
      BY <1>2, <1>3, <2>2, <3>1
    <3>2. CASE f # id
      <4>1. /\ f \in DOMAIN files /\ Storage!StoredPages(f)' = Storage!StoredPages(f)
            /\ (f \in DOMAIN writers') = (f \in DOMAIN writers)
        BY <1>2, <1>3, <3>2
      <4> QED BY <4>1 DEF RunInv, FilesInv
    <3> QED BY <3>1, <3>2
  <2> QED BY <1>2, <2>1, <2>3 DEF FilesInv
<1>7. ReadersInv' /\ UNCHANGED Cursors
  <2>1. \A r \in DOMAIN readers : readers[r].file_id \in DOMAIN files' \ DOMAIN writers'
    BY <1>2, <1>3 DEF RunInv, ReadersInv
  <2> QED BY <1>0, <1>2, <2>1, ReadersKept
<1>8. RunRows(id)' = << >>
  <2>1. RunRows(id)' = RowsOf(<< >>) \o RowsIn(NewWriter(batch))
    BY <1>2, <1>3 DEF RunRows, RowsIn
  <2>2. << >> \o << >> = << >>
    OBVIOUS
  <2> QED BY <2>1, <2>2, RowsOfEmpty, NewWriterHolds
<1>9. ASSUME NEW f \in DOMAIN files PROVE RunRows(f)' = RunRows(f)
  <2>1. f # id
    BY <1>2
  <2> QED BY <1>2, <1>3, <2>1, RunRowsKept
<1>10. Abstract!Create(id)
  <2>1. Runs' = [g \in DOMAIN Runs \cup {id} |->
                   IF g = id THEN [rows |-> << >>, open |-> TRUE] ELSE Runs[g]]
    <3> DEFINE now == [g \in DOMAIN files' |->
                         [rows |-> RunRows(g)', open |-> g \in DOMAIN writers']]
               then == [g \in DOMAIN Runs \cup {id} |->
                          IF g = id THEN [rows |-> << >>, open |-> TRUE] ELSE Runs[g]]
    <3>1. Runs' = now
      BY DEF Runs
    <3>2. DOMAIN Runs \cup {id} = DOMAIN files'
      BY <1>2 DEF Runs
    <3>3. ASSUME NEW g \in DOMAIN files' PROVE now[g] = then[g]
      <4>1. CASE g = id
        <5>1. (g \in DOMAIN writers') = TRUE
          BY <1>3, <4>1
        <5>2. now[g] = [rows |-> << >>, open |-> TRUE]
          BY <1>8, <4>1, <5>1
        <5>3. then[g] = [rows |-> << >>, open |-> TRUE]
          BY <3>2, <4>1
        <5> QED BY <5>2, <5>3
      <4>2. CASE g # id
        <5>1. g \in DOMAIN files /\ (g \in DOMAIN writers') = (g \in DOMAIN writers)
          BY <1>2, <1>3, <4>2
        <5>2. RunRows(g)' = RunRows(g)
          BY <1>9, <5>1
        <5>3. now[g] = [rows |-> RunRows(g), open |-> g \in DOMAIN writers]
          BY <5>1, <5>2
        <5>4. then[g] = Runs[g]
          BY <3>2, <4>2
        <5> QED BY <5>1, <5>3, <5>4 DEF Runs
      <4> QED BY <4>1, <4>2
    <3> HIDE DEF now
    <3> QED BY <3>1, <3>2, <3>3 DEF now
  <2>2. id \notin DOMAIN Runs
    BY <1>2 DEF Runs
  <2> QED BY <1>7, <2>1, <2>2 DEF Abstract!Create
<1>11. id \in 0..MaxFiles - 1
  BY <1>2, RegionAssumption
<1> QED BY <1>2, <1>5, <1>6, <1>7, <1>10, <1>11 DEF RunInv

-----------------------------------------------------------------------------
(* AppendRow *)

LEMMA ShortRowFits ==
  ASSUME NEW w, NEW row \in Rows, RowSize[row] <= PageCapacity, w.page_offset = 0
  PROVE  Fits(w, row)
  BY RunAssumption DEF Fits

\* A page that the next row does not fit has rows: no empty page is put between others.
LEMMA FullPageHasRows ==
  ASSUME NEW w, WriterHolds(w), NEW row \in Rows, RowSize[row] <= PageCapacity, ~Fits(w, row)
  PROVE  w.page_buf # << >>
  BY ShortRowFits DEF WriterHolds

LEMMA RowsInSealed ==
  ASSUME NEW w, WriterHolds(w), w.page_buf # << >>
  PROVE  RowsOf(Sealed(w).pending) = RowsIn(w)
  BY SealedHolds DEF RowsIn

LEMMA RowsInBuffered ==
  ASSUME NEW w, WriterHolds(w), NEW row \in Rows, Fits(w, row)
  PROVE  /\ RowsIn(Buffered(w, row)) = RowsIn(w) \o <<row>>
         /\ RowsIn(w) \in Seq(Rows)
<1> DEFINE b == Buffered(w, row)
<1>1. w.page_buf \in Seq(Rows) /\ RowsOf(w.pending) \in Seq(Rows)
  BY WriterFields, WriterPage DEF WriterHolds
<1>2. WriterHolds(b) /\ b.page_buf = w.page_buf \o <<row>> /\ b.pending = w.pending
  <2>1. WriterHolds(b) /\ b.page_buf = Append(w.page_buf, row) /\ b.pending = w.pending
    BY BufferedHolds
  <2>2. Append(w.page_buf, row) = w.page_buf \o <<row>>
    BY <1>1, AppendIsConcat
  <2> HIDE DEF b
  <2> QED BY <2>1, <2>2
<1> HIDE DEF b
<1>3. /\ RowsIn(b) = RowsOf(w.pending) \o (w.page_buf \o <<row>>)
      /\ RowsIn(w) = RowsOf(w.pending) \o w.page_buf
  BY <1>2, WriterPage
<1>4. (RowsOf(w.pending) \o w.page_buf) \o <<row>> = RowsOf(w.pending) \o (w.page_buf \o <<row>>)
  <2>1. \A p, q \in Seq(Rows) : (p \o q) \o <<row>> = p \o (q \o <<row>>)
    <3>1. <<row>> \in Seq(Rows)
      OBVIOUS
    <3> QED BY <3>1, ConcatAssociative
  <2> QED BY <1>1, <2>1
<1>5. RowsIn(w) \in Seq(Rows)
  BY <1>1, <1>3, ConcatProperties
<1> QED BY <1>3, <1>4, <1>5 DEF b

\* A writer after a row: the pages it flushed and those it holds have one row more.
LEMMA AppendedRows ==
  ASSUME NEW w, WriterInv(w), NEW row \in Rows, RowSize[row] <= PageCapacity
  PROVE  /\ Fits(w, row) =>
              /\ WriterInv(Buffered(w, row))
              /\ RowsIn(Buffered(w, row)) = RowsIn(w) \o <<row>>
         /\ ~Fits(w, row) =>
              LET s == Sealed(w) IN
              /\ s.pending \in Seq(CountedPages) /\ NonEmpty(s.pending)
              /\ Len(s.pending) \in 1..MaxExtent
              /\ ~BatchFull(s) =>
                   /\ WriterInv(Buffered(s, row))
                   /\ RowsIn(Buffered(s, row)) = RowsIn(w) \o <<row>>
              /\ BatchFull(s) =>
                   /\ WriterInv(Buffered(Emptied(s), row))
                   /\ RowsOf(s.pending) \o RowsIn(Buffered(Emptied(s), row)) = RowsIn(w) \o <<row>>
<1>1. /\ WriterHolds(w) /\ w.io_batch_pages \in 1..MaxExtent /\ Len(w.pending) \in Nat
      /\ Len(w.pending) < w.io_batch_pages
  BY WriterFields DEF WriterInv, WriterHolds
<1>2. CASE Fits(w, row)
  <2>1. WriterInv(Buffered(w, row))
    BY <1>1, <1>2, BufferedHolds DEF WriterInv
  <2> QED BY <1>1, <1>2, <2>1, RowsInBuffered
<1>3. CASE ~Fits(w, row)
  <2> DEFINE s == Sealed(w)
             e == Emptied(s)
  <2>1. w.page_buf # << >>
    BY <1>1, <1>3, FullPageHasRows
  <2>2. /\ WriterHolds(s) /\ Len(s.pending) = Len(w.pending) + 1 /\ s.page_buf = << >>
        /\ s.io_batch_pages = w.io_batch_pages
    BY <1>1, <2>1, SealedHolds
  <2>3. RowsOf(s.pending) = RowsIn(w)
    BY <1>1, <2>1, RowsInSealed
  <2> HIDE DEF s
  <2>4. /\ s.page_offset = 0 /\ s.pending \in Seq(CountedPages) /\ NonEmpty(s.pending)
        /\ Len(s.pending) \in Nat
    BY <2>2, SequenceFacts DEF WriterHolds
  <2>5. Len(s.pending) \in 1..MaxExtent
    BY <1>1, <2>2, RegionAssumption
  <2>6. /\ WriterHolds(e) /\ e.pending = << >> /\ e.page_buf = << >>
        /\ e.io_batch_pages = s.io_batch_pages
    BY <2>2, EmptiedHolds
  <2> HIDE DEF e
  <2>7. Fits(s, row) /\ Fits(e, row)
    BY <2>2, <2>6, ShortRowFits DEF WriterHolds
  <2>8. RowsIn(s) = RowsIn(w) /\ RowsIn(e) = << >> /\ RowsOf(s.pending) \in Seq(Rows)
    BY <2>2, <2>3, <2>6, WriterPage, RowsOfEmpty, ConcatEmptySeq
  <2>9. ASSUME ~BatchFull(s)
        PROVE  /\ WriterInv(Buffered(s, row))
               /\ RowsIn(Buffered(s, row)) = RowsIn(w) \o <<row>>
    <3>1. Len(s.pending) < s.io_batch_pages
      BY <1>1, <2>2, <2>4, <2>9 DEF BatchFull
    <3>2. WriterInv(Buffered(s, row))
      BY <2>2, <2>7, <3>1, BufferedHolds DEF WriterInv
    <3>3. RowsIn(Buffered(s, row)) = RowsIn(s) \o <<row>>
      BY <2>2, <2>7, RowsInBuffered
    <3> QED BY <2>8, <3>2, <3>3
  <2>10. /\ WriterInv(Buffered(e, row))
         /\ RowsOf(s.pending) \o RowsIn(Buffered(e, row)) = RowsIn(w) \o <<row>>
    <3>1. Len(e.pending) < e.io_batch_pages
      BY <1>1, <2>2, <2>6, EmptyElements
    <3>2. WriterInv(Buffered(e, row))
      BY <2>6, <2>7, <3>1, BufferedHolds DEF WriterInv
    <3>3. RowsIn(Buffered(e, row)) = << >> \o <<row>>
      BY <2>6, <2>7, <2>8, RowsInBuffered
    <3>4. << >> \o <<row>> = <<row>>
      BY SingletonElements, ConcatEmptySeq
    <3> QED BY <2>3, <3>2, <3>3, <3>4
  <2> QED BY <1>3, <2>4, <2>5, <2>9, <2>10 DEF s, e
<1> QED BY <1>2, <1>3

LEMMA IdsInRange ==
  ASSUME RunInv, NEW f \in DOMAIN files
  PROVE  f \in 0..MaxFiles - 1
<1>1. next_file_id \in Nat /\ DOMAIN files \subseteq 0..next_file_id - 1
  BY DEF RunInv, Storage!StorageInv, Storage!TypeOK, Storage!ManagerTypeOK
<1>2. next_file_id <= MaxFiles /\ MaxFiles \in Nat
  BY RegionAssumption DEF RunInv, FilesInv
<1> QED BY <1>1, <1>2

\* A run that is written to: its pages or its writer change, and it has one row more.
LEMMA RunExtended ==
  ASSUME RunInv, NEW f \in DOMAIN writers, NEW w, WriterInv(w),
         writers' = [writers EXCEPT ![f] = w], UNCHANGED readers,
         Storage!StorageInv', next_file_id' = next_file_id, DOMAIN files' = DOMAIN files,
         Storage!StoredPages(f)' \in Seq(CountedPages), NonEmpty(Storage!StoredPages(f)'),
         \A g \in DOMAIN files : g # f => Storage!StoredPages(g)' = Storage!StoredPages(g),
         NEW row \in Rows,
         RowsOf(Storage!StoredPages(f)') \o RowsIn(w) = RunRows(f) \o <<row>>
  PROVE  RunInv' /\ Abstract!AppendRow(f, row)
<1>1. /\ f \in DOMAIN files /\ DOMAIN writers' = DOMAIN writers /\ writers'[f] = w
      /\ DOMAIN writers \subseteq DOMAIN files
      /\ \A g \in DOMAIN writers : g # f => writers'[g] = writers[g]
  BY DEF RunInv, WritersInv
<1>2. WritersInv'
  BY <1>1 DEF RunInv, WritersInv
<1>3. FilesInv'
  <2>1. ASSUME NEW g \in DOMAIN files'
        PROVE  PagesInv(Storage!StoredPages(g)', g \in DOMAIN writers')
    <3>1. CASE g = f
      BY <1>1, <3>1 DEF PagesInv
    <3>2. CASE g # f
      <4>1. g \in DOMAIN files /\ PagesInv(Storage!StoredPages(g), g \in DOMAIN writers)
        BY DEF RunInv, FilesInv
      <4>2. (g \in DOMAIN writers') = (g \in DOMAIN writers)
        BY <1>1
      <4> QED BY <3>2, <4>1, <4>2
    <3> QED BY <3>1, <3>2
  <2> QED BY <2>1 DEF RunInv, FilesInv
<1>4. ReadersInv' /\ UNCHANGED Cursors
  <2>1. \A r \in DOMAIN readers : readers[r].file_id \in DOMAIN files' \ DOMAIN writers'
    BY <1>1 DEF RunInv, ReadersInv
  <2>2. \A g \in DOMAIN files \ DOMAIN writers : g # f
    OBVIOUS
  <2> QED BY <2>1, <2>2, ReadersKept
<1>5. RunRows(f)' = Append(RunRows(f), row)
  <2>1. RunRows(f)' = RowsOf(Storage!StoredPages(f)') \o RowsIn(w)
    BY <1>1 DEF RunRows, RowsIn
  <2>2. RunRows(f) \in Seq(Rows)
    <3>1. /\ RowsOf(Storage!StoredPages(f)) \in Seq(Rows) /\ RowsIn(writers[f]) \in Seq(Rows)
          /\ RunRows(f) = RowsOf(Storage!StoredPages(f)) \o RowsIn(writers[f])
      BY <1>1, PagesOfRun
    <3> QED BY <3>1, ConcatProperties
  <2> QED BY <2>1, <2>2, AppendIsConcat
<1>6. ASSUME NEW g \in DOMAIN files, g # f PROVE RunRows(g)' = RunRows(g)
  BY <1>1, <1>6, RunRowsKept
<1>7. Runs' = [Runs EXCEPT ![f].rows = Append(@, row)]
  <2> DEFINE now == [g \in DOMAIN files |->
                       [rows |-> RunRows(g)', open |-> g \in DOMAIN writers]]
             then == [Runs EXCEPT ![f].rows = Append(@, row)]
  <2>1. Runs' = now
    BY <1>1 DEF Runs
  <2>2. DOMAIN then = DOMAIN files /\ DOMAIN Runs = DOMAIN files
    BY DEF Runs
  <2>3. ASSUME NEW g \in DOMAIN files PROVE now[g] = then[g]
    <3>0. Runs[g] = [rows |-> RunRows(g), open |-> g \in DOMAIN writers]
      BY DEF Runs
    <3>1. CASE g = f
      <4>1. now[g] = [rows |-> Append(RunRows(f), row), open |-> g \in DOMAIN writers]
        BY <1>5, <3>1
      <4>2. then[g] = [Runs[g] EXCEPT !.rows = Append(@, row)]
        BY <2>2, <3>1
      <4>3. PICK a, b : a = RunRows(f) /\ b = (g \in DOMAIN writers)
        OBVIOUS
      <4>4. [[rows |-> a, open |-> b] EXCEPT !.rows = Append(@, row)]
              = [rows |-> Append(a, row), open |-> b]
        <5>1. [rows |-> a, open |-> b].rows = a
          OBVIOUS
        <5>2. \A c : [[rows |-> a, open |-> b] EXCEPT !.rows = c] = [rows |-> c, open |-> b]
          OBVIOUS
        <5> QED BY <5>1, <5>2, Zenon
      <4> HIDE DEF now, then
      <4> QED BY <3>0, <3>1, <4>1, <4>2, <4>3, <4>4, Zenon
    <3>2. CASE g # f
      <4>1. now[g] = [rows |-> RunRows(g), open |-> g \in DOMAIN writers]
        BY <1>6, <3>2
      <4>2. then[g] = Runs[g]
        BY <2>2, <3>2
      <4> HIDE DEF now, then
      <4> QED BY <3>0, <4>1, <4>2
    <3> QED BY <3>1, <3>2
  <2>4. then = [g \in DOMAIN files |-> then[g]] /\ now = [g \in DOMAIN files |-> now[g]]
    BY <2>2
  <2> HIDE DEF now, then
  <2>5. now = then
    BY <2>3, <2>4
  <2> QED BY <2>1, <2>5 DEF then
<1>8. f \in DOMAIN Runs /\ Runs[f].open
  BY <1>1 DEF Runs
<1> QED BY <1>2, <1>3, <1>4, <1>7, <1>8 DEF RunInv, Abstract!AppendRow

LEMMA AppendRowStep ==
  ASSUME RunInv, NEW f \in DOMAIN writers, NEW row \in Rows, AppendRow(f, row)
  PROVE  RunInv' /\ Abstract!AppendRow(f, row)
<1>1. PICK w : w = writers[f]
  OBVIOUS
<1>2. /\ f \in DOMAIN files /\ WriterInv(w) /\ Storage!StorageInv
      /\ RowSize[row] <= PageCapacity /\ UNCHANGED readers
  BY <1>1 DEF RunInv, WritersInv, AppendRow
<1>3. PICK pages : pages = Storage!StoredPages(f)
  OBVIOUS
<1>4. /\ pages \in Seq(CountedPages) /\ NonEmpty(pages) /\ RowsOf(pages) \in Seq(Rows)
      /\ RunRows(f) = RowsOf(pages) \o RowsIn(w) /\ RowsIn(w) \in Seq(Rows)
      /\ <<row>> \in Seq(Rows)
  <2>1. NonEmpty(pages)
    BY <1>2, <1>3 DEF RunInv, FilesInv, PagesInv
  <2>2. <<row>> \in Seq(Rows)
    OBVIOUS
  <2> QED BY <1>1, <1>2, <1>3, <2>1, <2>2, PagesOfRun
<1>5. RowsOf(pages) \o (RowsIn(w) \o <<row>>) = RunRows(f) \o <<row>>
  BY <1>4, ConcatAssociative
<1>6. ASSUME NEW v, WriterInv(v), writers' = [writers EXCEPT ![f] = v],
             RowsIn(v) = RowsIn(w) \o <<row>>, UNCHANGED storageVars
      PROVE  RunInv' /\ Abstract!AppendRow(f, row)
  <2>1. /\ Storage!StorageInv' /\ next_file_id' = next_file_id /\ files' = files
        /\ \A g \in DOMAIN files : Storage!StoredPages(g)' = Storage!StoredPages(g)
    BY <1>2, <1>6, FilesUntouched
  <2>2. Storage!StoredPages(f)' = pages
    BY <1>2, <1>3, <2>1
  <2> QED BY <1>2, <1>4, <1>5, <1>6, <2>1, <2>2, RunExtended
<1>7. CASE Fits(w, row)
  <2>1. writers' = [writers EXCEPT ![f] = Buffered(w, row)] /\ UNCHANGED storageVars
    BY <1>1, <1>7 DEF AppendRow
  <2> QED BY <1>2, <1>6, <1>7, <2>1, AppendedRows
<1>8. CASE ~Fits(w, row)
  <2>1. PICK s : s = Sealed(w)
    OBVIOUS
  <2>2. CASE ~BatchFull(s)
    <3>1. writers' = [writers EXCEPT ![f] = Buffered(s, row)] /\ UNCHANGED storageVars
      BY <1>1, <1>8, <2>1, <2>2 DEF AppendRow
    <3> QED BY <1>2, <1>6, <1>8, <2>1, <2>2, <3>1, AppendedRows
  <2>3. CASE BatchFull(s)
    <3>1. PICK v : v = Buffered(Emptied(s), row)
      OBVIOUS
    <3>2. /\ Storage!FlushPendingPages(f, s.pending)
          /\ writers' = [writers EXCEPT ![f] = v]
      BY <1>1, <1>8, <2>1, <2>3, <3>1 DEF AppendRow
    <3>3. /\ s.pending \in Seq(CountedPages) /\ NonEmpty(s.pending)
          /\ Len(s.pending) \in 1..MaxExtent /\ WriterInv(v)
          /\ RowsOf(s.pending) \o RowsIn(v) = RowsIn(w) \o <<row>>
      BY <1>2, <1>8, <2>1, <2>3, <3>1, AppendedRows
    <3>4. s.pending \in Seq(RunPages)
      BY <3>3, SeqMonotonic DEF CountedPages
    <3>5. /\ Storage!StorageInv' /\ next_file_id' = next_file_id /\ DOMAIN files' = DOMAIN files
          /\ Storage!StoredPages(f)' = pages \o s.pending
          /\ \A g \in DOMAIN files : g # f => Storage!StoredPages(g)' = Storage!StoredPages(g)
      BY <1>2, <1>3, <3>2, <3>3, <3>4, FileFlushed
    <3>6. pages \o s.pending \in Seq(CountedPages) /\ NonEmpty(pages \o s.pending)
      BY <1>4, <3>3, NonEmptyConcat
    <3>7. RowsOf(pages \o s.pending) \o RowsIn(v) = RunRows(f) \o <<row>>
      <4>1. RowsOf(pages \o s.pending) = RowsOf(pages) \o RowsOf(s.pending)
        BY <1>4, <3>3, RowsOfConcat
      <4>2. RowsOf(s.pending) \in Seq(Rows) /\ RowsIn(v) \in Seq(Rows)
        <5>1. v.page_buf \in Seq(Rows) /\ WriterHolds(v)
          BY <3>3, WriterFields DEF WriterInv, WriterHolds
        <5> QED BY <3>3, <5>1, RowsOfTyped, WriterPage, ConcatProperties
      <4>3. (RowsOf(pages) \o RowsOf(s.pending)) \o RowsIn(v)
              = RowsOf(pages) \o (RowsOf(s.pending) \o RowsIn(v))
        BY <1>4, <4>2, ConcatAssociative, SMTT(20)
      <4> QED BY <1>5, <3>3, <4>1, <4>3
    <3> QED BY <1>2, <3>2, <3>3, <3>5, <3>6, <3>7, RunExtended
  <2> QED BY <2>2, <2>3
<1> QED BY <1>7, <1>8

-----------------------------------------------------------------------------
(* FinishWriter *)

\* A run that is finished: its rows are all in its pages, and they were its rows before.
LEMMA RunFinished ==
  ASSUME RunInv, NEW f \in DOMAIN writers, writers' = Without(writers, f), UNCHANGED readers,
         Storage!StorageInv', next_file_id' = next_file_id, DOMAIN files' = DOMAIN files,
         PagesInv(Storage!StoredPages(f)', FALSE),
         \A g \in DOMAIN files : g # f => Storage!StoredPages(g)' = Storage!StoredPages(g),
         RowsOf(Storage!StoredPages(f)') = RunRows(f)
  PROVE  RunInv' /\ Abstract!Finish(f)
<1>1. /\ f \in DOMAIN files /\ DOMAIN writers' = DOMAIN writers \ {f}
      /\ DOMAIN writers \subseteq DOMAIN files
      /\ \A g \in DOMAIN writers' : writers'[g] = writers[g]
  BY DEF RunInv, WritersInv, Without
<1>2. WritersInv'
  BY <1>1 DEF RunInv, WritersInv
<1>3. FilesInv'
  <2>1. ASSUME NEW g \in DOMAIN files'
        PROVE  PagesInv(Storage!StoredPages(g)', g \in DOMAIN writers')
    <3>1. CASE g = f
      <4>1. (g \in DOMAIN writers') = FALSE
        BY <1>1, <3>1
      <4> QED BY <3>1, <4>1
    <3>2. CASE g # f
      <4>1. g \in DOMAIN files /\ PagesInv(Storage!StoredPages(g), g \in DOMAIN writers)
        BY DEF RunInv, FilesInv
      <4>2. (g \in DOMAIN writers') = (g \in DOMAIN writers)
        BY <1>1, <3>2
      <4> QED BY <3>2, <4>1, <4>2
    <3> QED BY <3>1, <3>2
  <2> QED BY <2>1 DEF RunInv, FilesInv
<1>4. ReadersInv' /\ UNCHANGED Cursors
  <2>1. \A r \in DOMAIN readers : readers[r].file_id \in DOMAIN files' \ DOMAIN writers'
    BY <1>1 DEF RunInv, ReadersInv
  <2>2. \A g \in DOMAIN files \ DOMAIN writers : g # f
    OBVIOUS
  <2> QED BY <2>1, <2>2, ReadersKept
<1>5. RunRows(f)' = RunRows(f)
  <2>1. RunRows(f)' = RowsOf(Storage!StoredPages(f)') \o << >>
    BY <1>1 DEF RunRows
  <2>2. RowsOf(Storage!StoredPages(f)') \in Seq(Rows)
    BY RowsOfTyped DEF PagesInv
  <2> QED BY <2>1, <2>2, ConcatEmptySeq
<1>6. ASSUME NEW g \in DOMAIN files, g # f PROVE RunRows(g)' = RunRows(g)
  BY <1>1, <1>6, RunRowsKept
<1>7. Runs' = [Runs EXCEPT ![f].open = FALSE]
  <2> DEFINE now == [g \in DOMAIN files |->
                       [rows |-> RunRows(g)', open |-> g \in DOMAIN writers']]
             then == [Runs EXCEPT ![f].open = FALSE]
  <2>1. Runs' = now
    BY <1>1 DEF Runs
  <2>2. DOMAIN then = DOMAIN files /\ DOMAIN Runs = DOMAIN files
    BY DEF Runs
  <2>3. ASSUME NEW g \in DOMAIN files PROVE now[g] = then[g]
    <3>0. Runs[g] = [rows |-> RunRows(g), open |-> g \in DOMAIN writers]
      BY DEF Runs
    <3>1. CASE g = f
      <4>1. (g \in DOMAIN writers') = FALSE /\ (g \in DOMAIN writers) = TRUE
        BY <1>1, <3>1
      <4>2. now[g] = [rows |-> RunRows(f), open |-> FALSE]
        BY <1>5, <3>1, <4>1
      <4>3. then[g] = [Runs[g] EXCEPT !.open = FALSE]
        BY <2>2, <3>1
      <4>4. \A a, b, c : [[rows |-> a, open |-> b] EXCEPT !.open = c] = [rows |-> a, open |-> c]
        OBVIOUS
      <4>5. PICK b : b = (g \in DOMAIN writers)
        OBVIOUS
      <4>6. Runs[g] = [rows |-> RunRows(g), open |-> b]
        BY <3>0, <4>5, Zenon
      <4> HIDE DEF now, then
      <4>7. then[g] = [[rows |-> RunRows(g), open |-> b] EXCEPT !.open = FALSE]
        BY <4>3, <4>6
      <4>8. then[g] = [rows |-> RunRows(g), open |-> FALSE]
        BY <4>4, <4>7, Zenon
      <4> QED BY <3>1, <4>2, <4>8
    <3>2. CASE g # f
      <4>0. (g \in DOMAIN writers') = (g \in DOMAIN writers)
        BY <1>1, <3>2
      <4>1. now[g] = [rows |-> RunRows(g), open |-> g \in DOMAIN writers]
        BY <1>6, <3>2, <4>0
      <4>2. then[g] = Runs[g]
        BY <2>2, <3>2
      <4> HIDE DEF now, then
      <4> QED BY <3>0, <4>1, <4>2
    <3> QED BY <3>1, <3>2
  <2>4. then = [g \in DOMAIN files |-> then[g]] /\ now = [g \in DOMAIN files |-> now[g]]
    BY <2>2
  <2> HIDE DEF now, then
  <2>5. now = then
    BY <2>3, <2>4
  <2> QED BY <2>1, <2>5 DEF then
<1>8. f \in DOMAIN Runs /\ Runs[f].open
  BY <1>1 DEF Runs
<1> QED BY <1>2, <1>3, <1>4, <1>7, <1>8 DEF RunInv, Abstract!Finish

LEMMA FinishWriterStep ==
  ASSUME RunInv, NEW f \in DOMAIN writers, FinishWriter(f)
  PROVE  RunInv' /\ Abstract!Finish(f)
<1>1. PICK w : w = writers[f]
  OBVIOUS
<1>2. PICK pages : pages = Storage!StoredPages(f)
  OBVIOUS
<1>3. /\ f \in DOMAIN files /\ WriterInv(w) /\ Storage!StorageInv /\ UNCHANGED readers
      /\ writers' = Without(writers, f)
  BY <1>1 DEF RunInv, WritersInv, FinishWriter
<1>4. /\ pages \in Seq(CountedPages) /\ NonEmpty(pages) /\ RowsOf(pages) \in Seq(Rows)
      /\ RunRows(f) = RowsOf(pages) \o RowsIn(w) /\ RowsIn(w) \in Seq(Rows)
      /\ Len(pages) = files[f].num_pages /\ Len(pages) \in Nat
  <2>1. NonEmpty(pages)
    BY <1>2, <1>3 DEF RunInv, FilesInv, PagesInv
  <2> QED BY <1>1, <1>2, <1>3, <2>1, PagesOfRun, PagesOfFile
<1>5. /\ WriterHolds(w) /\ w.io_batch_pages \in 1..MaxExtent /\ Len(w.pending) \in Nat
      /\ Len(w.pending) < w.io_batch_pages /\ w.page_buf \in Seq(Rows) /\ Len(w.page_buf) \in Nat
      /\ w.row_count = Len(w.page_buf) /\ w.pending \in Seq(CountedPages) /\ NonEmpty(w.pending)
      /\ RowsOf(w.pending) \in Seq(Rows) /\ RowsIn(w) = RowsOf(w.pending) \o w.page_buf
  BY <1>3, WriterFields, WriterPage DEF WriterInv, WriterHolds
<1>6. ASSUME NEW data \in Seq(CountedPages), Len(data) \in 1..MaxExtent,
             Storage!FlushPendingPages(f, data),
             PagesInv(pages \o data, FALSE),
             RowsOf(data) = RowsIn(w)
      PROVE  RunInv' /\ Abstract!Finish(f)
  <2>1. data \in Seq(RunPages)
    BY SeqMonotonic DEF CountedPages
  <2>2. /\ Storage!StorageInv' /\ next_file_id' = next_file_id /\ DOMAIN files' = DOMAIN files
        /\ Storage!StoredPages(f)' = pages \o data
        /\ \A g \in DOMAIN files : g # f => Storage!StoredPages(g)' = Storage!StoredPages(g)
    BY <1>2, <1>3, <1>6, <2>1, FileFlushed
  <2>3. RowsOf(pages \o data) = RunRows(f)
    BY <1>4, <1>6, RowsOfConcat
  <2> QED BY <1>3, <1>6, <2>2, <2>3, RunFinished
<1>7. ASSUME NEW data \in Seq(CountedPages), NonEmpty(data), Len(data) \in Nat \ {0}
      PROVE  PagesInv(pages \o data, FALSE)
  BY <1>4, <1>7, NonEmptyConcat DEF PagesInv
<1>8. CASE w.row_count > 0
  <2>1. PICK s : s = Sealed(w)
    OBVIOUS
  <2>2. w.page_buf # << >>
    BY <1>5, <1>8, SequenceFacts
  <2>3. /\ s.pending \in Seq(CountedPages) /\ NonEmpty(s.pending)
        /\ Len(s.pending) = Len(w.pending) + 1 /\ RowsOf(s.pending) = RowsIn(w)
    BY <1>5, <2>1, <2>2, SealedHolds, RowsInSealed DEF WriterHolds
  <2>4. Len(s.pending) \in 1..MaxExtent /\ Len(s.pending) \in Nat \ {0} /\ s.pending # << >>
    <3>1. Len(s.pending) \in 1..MaxExtent /\ Len(s.pending) \in Nat \ {0}
      BY <1>5, <2>3, RegionAssumption
    <3> QED BY <2>3, <3>1, SequenceFacts
  <2>5. Storage!FlushPendingPages(f, s.pending)
    BY <1>1, <1>8, <2>1, <2>4 DEF FinishWriter, LastPageNeeded
  <2> QED BY <1>6, <1>7, <2>3, <2>4, <2>5
<1>9. CASE ~(w.row_count > 0) /\ w.pending = << >> /\ Len(pages) = 0
  <2>1. PICK page : page = PageWith(w.page_buf, w.row_count)
    OBVIOUS
  <2>2. page \in CountedPages
    BY <1>5, <2>1, WriterPage
  <2>3. Sealed(w).pending = <<page>>
    <3>1. Sealed(w).pending = Append(w.pending, page)
      BY <1>5, <2>1, SealedFields DEF WriterHolds
    <3>2. Append(<< >>, page) = <<page>>
      OBVIOUS
    <3> QED BY <1>9, <3>1, <3>2
  <2>4. Storage!FlushPendingPages(f, <<page>>)
    <3>1. LastPageNeeded(f) /\ <<page>> # << >>
      BY <1>1, <1>4, <1>9 DEF LastPageNeeded
    <3> QED BY <1>1, <2>3, <3>1 DEF FinishWriter
  <2>5. <<page>> \in Seq(CountedPages) /\ Len(<<page>>) = 1 /\ 1 \in 1..MaxExtent
    BY <2>2, SingletonElements, RegionAssumption
  <2>6. pages \o <<page>> = <<page>>
    BY <1>4, <1>9, <2>5, SequenceFacts, ConcatEmptySeq
  <2>7. PagesInv(pages \o <<page>>, FALSE)
    <3>1. \A s \in Seq(CountedPages) : Len(s) = 1 => PagesInv(s, FALSE)
      BY DEF PagesInv
    <3> QED BY <2>5, <2>6, <3>1
  <2>8. RowsOf(<<page>>) = RowsIn(w)
    <3>1. Append(<< >>, page) = <<page>>
      OBVIOUS
    <3> QED BY <1>9, <2>1, <3>1 DEF RowsIn
  <2> QED BY <1>6, <2>4, <2>5, <2>7, <2>8
<1>10. CASE ~(w.row_count > 0) /\ ~(w.pending = << >> /\ Len(pages) = 0)
  <2>1. w.page_buf = << >>
    BY <1>5, <1>10, SequenceFacts
  <2>2. RowsOf(w.pending) = RowsIn(w)
    BY <1>5, <2>1, ConcatEmptySeq
  <2>3. ~LastPageNeeded(f)
    BY <1>1, <1>4, <1>10 DEF LastPageNeeded
  <2>4. CASE w.pending # << >>
    <3>1. Storage!FlushPendingPages(f, w.pending)
      BY <1>1, <2>3, <2>4 DEF FinishWriter
    <3>2. Len(w.pending) \in 1..MaxExtent /\ Len(w.pending) \in Nat \ {0}
      <4>1. Len(w.pending) # 0
        BY <1>5, <2>4, SequenceFacts
      <4> QED BY <1>5, <4>1, RegionAssumption
    <3> QED BY <1>5, <1>6, <1>7, <2>2, <3>1, <3>2
  <2>5. CASE w.pending = << >>
    <3>1. UNCHANGED storageVars
      BY <1>1, <2>3, <2>5 DEF FinishWriter
    <3>2. /\ Storage!StorageInv' /\ next_file_id' = next_file_id /\ files' = files
          /\ \A g \in DOMAIN files : Storage!StoredPages(g)' = Storage!StoredPages(g)
      BY <1>3, <3>1, FilesUntouched
    <3>3. Storage!StoredPages(f)' = pages
      BY <1>2, <1>3, <3>2
    <3>4. PagesInv(pages, FALSE)
      BY <1>4, <1>10, <2>5 DEF PagesInv
    <3>5. RowsOf(pages) = RunRows(f)
      BY <1>4, <2>2, <2>5, RowsOfEmpty, ConcatEmptySeq
    <3> QED BY <1>3, <3>2, <3>3, <3>4, <3>5, RunFinished
  <2> QED BY <2>4, <2>5
<1> QED BY <1>8, <1>9, <1>10

-----------------------------------------------------------------------------
(* DeleteRun *)

LEMMA DeleteRunStep ==
  ASSUME RunInv, NEW f \in DOMAIN files, DeleteRun(f)
  PROVE  RunInv' /\ Abstract!Delete(f)
<1>1. /\ Storage!StorageInv /\ Storage!DeleteTempFile(f) /\ UNCHANGED readers
      /\ \A r \in DOMAIN readers : readers[r].file_id # f
      /\ writers' = Without(writers, f)
  BY DEF RunInv, DeleteRun
<1>2. /\ Storage!StorageInv' /\ next_file_id' = next_file_id
      /\ DOMAIN files' = DOMAIN files \ {f}
      /\ \A g \in DOMAIN files' : Storage!StoredPages(g)' = Storage!StoredPages(g)
  BY <1>1, FileDeleted
<1>3. /\ DOMAIN writers' = DOMAIN writers \ {f}
      /\ \A g \in DOMAIN writers' : writers'[g] = writers[g]
  BY <1>1 DEF Without
<1>4. WritersInv'
  BY <1>2, <1>3 DEF RunInv, WritersInv
<1>5. FilesInv'
  <2>1. ASSUME NEW g \in DOMAIN files'
        PROVE  PagesInv(Storage!StoredPages(g)', g \in DOMAIN writers')
    <3>1. /\ g \in DOMAIN files /\ Storage!StoredPages(g)' = Storage!StoredPages(g)
          /\ (g \in DOMAIN writers') = (g \in DOMAIN writers)
      BY <1>2, <1>3
    <3> QED BY <3>1 DEF RunInv, FilesInv
  <2> QED BY <1>2, <2>1 DEF RunInv, FilesInv
<1>6. ReadersInv' /\ UNCHANGED Cursors
  <2>1. \A r \in DOMAIN readers : readers[r].file_id \in DOMAIN files' \ DOMAIN writers'
    BY <1>1, <1>2, <1>3 DEF RunInv, ReadersInv
  <2> QED BY <1>1, <1>2, <2>1, ReadersKept
<1>7. ASSUME NEW g \in DOMAIN files' PROVE RunRows(g)' = RunRows(g)
  <2>1. g # f /\ g \in DOMAIN files
    BY <1>2
  <2> QED BY <1>2, <1>3, <2>1, RunRowsKept
<1>8. Runs' = [g \in DOMAIN Runs \ {f} |-> Runs[g]]
  <2> DEFINE now == [g \in DOMAIN files' |->
                       [rows |-> RunRows(g)', open |-> g \in DOMAIN writers']]
             then == [g \in DOMAIN Runs \ {f} |-> Runs[g]]
  <2>1. Runs' = now
    BY DEF Runs
  <2>2. DOMAIN Runs \ {f} = DOMAIN files'
    BY <1>2 DEF Runs
  <2>3. ASSUME NEW g \in DOMAIN files' PROVE now[g] = then[g]
    <3>1. g \in DOMAIN files /\ (g \in DOMAIN writers') = (g \in DOMAIN writers)
      BY <1>2, <1>3
    <3>2. now[g] = [rows |-> RunRows(g), open |-> g \in DOMAIN writers]
      BY <1>7, <3>1
    <3>3. then[g] = Runs[g]
      BY <2>2
    <3> QED BY <3>1, <3>2, <3>3 DEF Runs
  <2> HIDE DEF now
  <2> QED BY <2>1, <2>2, <2>3 DEF now
<1>9. f \in DOMAIN Runs /\ \A r \in DOMAIN Cursors : Cursors[r].run # f
  BY <1>1 DEF Runs, Cursors
<1> QED BY <1>2, <1>4, <1>5, <1>6, <1>8, <1>9 DEF RunInv, Abstract!Delete

-----------------------------------------------------------------------------
(* OpenReader, NextRow, DropReader: only the readers change *)

\* The files and the writers when only a reader moves.
LEMMA OnlyReaders ==
  ASSUME RunInv, UNCHANGED <<storageVars, writers>>
  PROVE  /\ Storage!StorageInv' /\ WritersInv' /\ FilesInv' /\ UNCHANGED Runs
         /\ files' = files
         /\ \A f \in DOMAIN files : Storage!StoredPages(f)' = Storage!StoredPages(f)
<1>1. Storage!StorageInv /\ UNCHANGED storageVars /\ writers' = writers
  BY DEF RunInv
<1>2. /\ Storage!StorageInv' /\ next_file_id' = next_file_id /\ files' = files
      /\ \A f \in DOMAIN files : Storage!StoredPages(f)' = Storage!StoredPages(f)
  BY <1>1, FilesUntouched
<1>3. WritersInv'
  BY <1>1, <1>2 DEF RunInv, WritersInv
<1>4. FilesInv'
  <2>1. ASSUME NEW g \in DOMAIN files'
        PROVE  PagesInv(Storage!StoredPages(g)', g \in DOMAIN writers')
    BY <1>1, <1>2 DEF RunInv, FilesInv
  <2> QED BY <1>2, <2>1 DEF RunInv, FilesInv
<1>5. UNCHANGED Runs
  <2>1. \A f \in DOMAIN files : RunRows(f)' = RunRows(f)
    BY <1>1, <1>2, RunRowsKept
  <2> QED BY <1>1, <1>2, <2>1 DEF Runs
<1> QED BY <1>2, <1>3, <1>4, <1>5

\* What the cursor of a reader is after a step, with the reader named.
LEMMA CursorAt ==
  ASSUME RunInv, UNCHANGED <<storageVars, writers>>, NEW q \in DOMAIN readers',
         NEW r, r = readers'[q], r.file_id \in DOMAIN files
  PROVE  Cursors'[q] = [run |-> r.file_id, rest |-> RowsAhead(r), row |-> r.row]
<1>1. Storage!StoredPages(r.file_id)' = Storage!StoredPages(r.file_id)
  BY OnlyReaders
<1>2. RowsAhead(readers[q])' = RowsAhead(r)
  BY <1>1, AheadKept, CursorNext
<1> QED BY <1>2 DEF Cursors

LEMMA ReaderOpened ==
  ASSUME RunInv, NEW f \in DOMAIN files \ DOMAIN writers, NEW batch \in ReadBatches
  PROVE  LET r == NewReader(f, batch) IN
         /\ r.file_id = f /\ r.row = None
         /\ ReaderInv(r, Storage!StoredPages(f))
         /\ RowsAhead(r) = RunRows(f)
<1>1. PICK r : r = NewReader(f, batch)
  OBVIOUS
<1>2. PICK pages : pages = Storage!StoredPages(f)
  OBVIOUS
<1>3. /\ Storage!StorageInv /\ pages \in Seq(CountedPages) /\ RowsOf(pages) \in Seq(Rows)
      /\ RunRows(f) = RowsOf(pages) /\ Len(pages) = files[f].num_pages /\ Len(pages) \in Nat
      /\ f \in Nat
  BY <1>2, PagesOfRun, PagesOfFile DEF RunInv
<1>4. PICK blank : blank = PageWith(<< >>, 0)
  OBVIOUS
<1>5. /\ r.file_id = f /\ r.num_pages = Len(pages) /\ r.io_batch_pages = batch
      /\ r.current_page_index = 0 /\ r.page_buf = blank /\ r.batch_buf = << >>
      /\ r.next_page_in_batch = 0 /\ r.page_offset = 0 /\ r.rows_remaining = 0 /\ r.row = None
  BY <1>1, <1>3, <1>4 DEF NewReader
<1>6. blank \in CountedPages /\ blank \in RunPages /\ blank.rows = << >> /\ Len(<< >>) = 0
  <2>1. << >> \in Seq(Rows) /\ Len(<< >>) = 0 /\ 0 < RowCountLimit
    BY RunAssumption, EmptyElements
  <2> QED BY <1>4, <2>1, PageIsCounted DEF CountedPages
<1>7. r \in ReaderType
  <2>1. << >> \in Seq(RunPages)
    BY EmptySeq
  <2> QED BY <1>1, <1>3, <1>4, <1>6, <2>1 DEF NewReader, ReaderType
<1>8. ReaderInv(r, pages)
  <2>1. 0 <= batch /\ 0 + (0 - 0) <= Len(pages) /\ 0 + 0 = 0 /\ 0 <= 0
    BY <1>3, RunAssumption
  <2>2. \A i \in 0 + 1..0 : FALSE
    OBVIOUS
  <2> QED BY <1>5, <1>6, <1>7, <2>1, <2>2 DEF ReaderInv
<1>9. RowsAhead(r) = RowsOf(pages)
  <2>1. RowsAhead(r) = SubSeq(<< >>, 0 + 1, Len(<< >>)) \o RowsOf(SubSeq(pages, 0 + 1, Len(pages)))
    BY <1>2, <1>3, <1>5, <1>6, <1>8, RowsAheadAreTheRest
  <2>2. SubSeq(<< >>, 0 + 1, Len(<< >>)) = << >>
    BY EmptyElements, SubSeqEmpty
  <2>3. SubSeq(pages, 0 + 1, Len(pages)) = pages
    BY <1>3, SubSeqFull
  <2> QED BY <1>3, <2>1, <2>2, <2>3, ConcatEmptySeq
<1> QED BY <1>1, <1>2, <1>3, <1>5, <1>8, <1>9

LEMMA OpenReaderStep ==
  ASSUME RunInv, NEW q \in Readers, NEW f \in DOMAIN files, NEW batch \in ReadBatches,
         OpenReader(q, f, batch)
  PROVE  RunInv' /\ Abstract!Open(q, f)
<1>1. PICK r : r = NewReader(f, batch)
  OBVIOUS
<1>2. /\ q \notin DOMAIN readers /\ f \in DOMAIN files \ DOMAIN writers
      /\ UNCHANGED <<storageVars, writers>>
      /\ DOMAIN readers' = DOMAIN readers \cup {q} /\ readers'[q] = r
      /\ \A p \in DOMAIN readers : p # q => readers'[p] = readers[p]
  BY <1>1 DEF OpenReader, With
<1>3. /\ r.file_id = f /\ r.row = None /\ ReaderInv(r, Storage!StoredPages(f))
      /\ RowsAhead(r) = RunRows(f)
  BY <1>1, <1>2, ReaderOpened
<1>4. /\ Storage!StorageInv' /\ WritersInv' /\ FilesInv' /\ UNCHANGED Runs
      /\ files' = files /\ writers' = writers
      /\ \A g \in DOMAIN files : Storage!StoredPages(g)' = Storage!StoredPages(g)
  BY <1>2, OnlyReaders
<1>5. ReadersInv'
  <2>1. ASSUME NEW p \in DOMAIN readers', NEW g \in DOMAIN files', readers'[p].file_id = g
        PROVE  ReaderInv(readers'[p], Storage!StoredPages(g)')
    BY <1>2, <1>3, <1>4, <2>1 DEF RunInv, ReadersInv
  <2>2. DOMAIN readers' \subseteq Readers
    BY <1>2 DEF RunInv, ReadersInv
  <2>3. \A p \in DOMAIN readers' : readers'[p].file_id \in DOMAIN files' \ DOMAIN writers'
    BY <1>2, <1>3, <1>4 DEF RunInv, ReadersInv
  <2> QED BY <2>1, <2>2, <2>3 DEF ReadersInv
<1>6. ASSUME NEW p \in DOMAIN readers PROVE Cursors'[p] = Cursors[p]
  <2>1. PICK s : s = readers'[p]
    OBVIOUS
  <2>2. p \in DOMAIN readers' /\ s = readers[p] /\ s.file_id \in DOMAIN files
    BY <1>2, <2>1 DEF RunInv, ReadersInv
  <2>3. Cursors'[p] = [run |-> s.file_id, rest |-> RowsAhead(s), row |-> s.row]
    BY <1>2, <2>1, <2>2, CursorAt
  <2> QED BY <2>2, <2>3 DEF Cursors
<1>7. Cursors'[q] = [run |-> f, rest |-> RunRows(f), row |-> None]
  <2>1. q \in DOMAIN readers' /\ r = readers'[q] /\ r.file_id \in DOMAIN files
    BY <1>2, <1>3
  <2> QED BY <1>2, <1>3, <2>1, CursorAt
<1>8. Cursors' = [p \in DOMAIN Cursors \cup {q} |->
                    IF p = q THEN [run |-> f, rest |-> Runs[f].rows, row |-> None]
                             ELSE Cursors[p]]
  <2>1. DOMAIN Cursors = DOMAIN readers /\ Runs[f].rows = RunRows(f)
    BY DEF Cursors, Runs
  <2>2. Cursors' = [p \in DOMAIN readers' |-> Cursors'[p]]
    BY DEF Cursors
  <2> QED BY <1>2, <1>6, <1>7, <2>1, <2>2
<1>9. q \notin DOMAIN Cursors /\ f \in DOMAIN Runs /\ ~Runs[f].open
  BY <1>2 DEF Cursors, Runs
<1> QED BY <1>4, <1>5, <1>8, <1>9 DEF RunInv, Abstract!Open

LEMMA NextRowStep ==
  ASSUME RunInv, NEW q \in DOMAIN readers, NextRow(q)
  PROVE  RunInv' /\ Abstract!NextRow(q)
<1>1. PICK r, s, t : r = readers[q] /\ s = Settled(r) /\ t = Delivered(s)
  OBVIOUS
<1>2. /\ UNCHANGED <<storageVars, writers>> /\ DOMAIN readers' = DOMAIN readers
      /\ readers'[q] = t
      /\ \A p \in DOMAIN readers : p # q => readers'[p] = readers[p]
  BY <1>1 DEF NextRow
<1>3. PICK f \in DOMAIN files \ DOMAIN writers : f = r.file_id
  BY <1>1 DEF RunInv, ReadersInv
<1>4. PICK pages : pages = Storage!StoredPages(f)
  OBVIOUS
<1>5. pages \in Seq(CountedPages) /\ ReaderInv(r, pages) /\ Storage!StorageInv
  BY <1>1, <1>3, <1>4, PagesOfRun DEF RunInv, ReadersInv
<1>6. s \in Searching(r, pages) /\ AtRowOrEnd(s)
  BY <1>1, <1>3, <1>4, <1>5, SettledFinds
<1>7. ReaderInv(s, pages) /\ s.file_id = f /\ RowsAhead(s) = RowsAhead(r) /\ s.row = r.row
      /\ s \in ReaderType
  BY <1>3, <1>6 DEF Searching, SameRun
<1>8. ReaderInv(t, pages) /\ t.file_id = f
  BY <1>1, <1>5, <1>7, DeliveredKeeps, DeliveredFields
<1>9. IF RowsAhead(r) = << >> THEN t.row = None /\ RowsAhead(t) = << >>
      ELSE t.row = Head(RowsAhead(r)) /\ RowsAhead(t) = Tail(RowsAhead(r))
  BY <1>1, <1>4, <1>5, <1>6, <1>7, DeliveredRow
<1>10. /\ Storage!StorageInv' /\ WritersInv' /\ FilesInv' /\ UNCHANGED Runs
       /\ files' = files /\ writers' = writers
       /\ \A g \in DOMAIN files : Storage!StoredPages(g)' = Storage!StoredPages(g)
  BY <1>2, OnlyReaders
<1>11. ReadersInv'
  <2>1. ASSUME NEW p \in DOMAIN readers', NEW g \in DOMAIN files', readers'[p].file_id = g
        PROVE  ReaderInv(readers'[p], Storage!StoredPages(g)')
    BY <1>2, <1>4, <1>8, <1>10, <2>1 DEF RunInv, ReadersInv
  <2>2. DOMAIN readers' \subseteq Readers
    BY <1>2 DEF RunInv, ReadersInv
  <2>3. \A p \in DOMAIN readers' : readers'[p].file_id \in DOMAIN files' \ DOMAIN writers'
    BY <1>2, <1>8, <1>10 DEF RunInv, ReadersInv
  <2> QED BY <2>1, <2>2, <2>3 DEF ReadersInv
<1>12. ASSUME NEW p \in DOMAIN readers, p # q PROVE Cursors'[p] = Cursors[p]
  <2>1. PICK u : u = readers'[p]
    OBVIOUS
  <2>2. p \in DOMAIN readers' /\ u = readers[p] /\ u.file_id \in DOMAIN files
    BY <1>2, <1>12, <2>1 DEF RunInv, ReadersInv
  <2>3. Cursors'[p] = [run |-> u.file_id, rest |-> RowsAhead(u), row |-> u.row]
    BY <1>2, <2>1, <2>2, CursorAt
  <2> QED BY <2>2, <2>3 DEF Cursors
<1>13. Cursors'[q] = [run |-> f, rest |-> RowsAhead(t), row |-> t.row]
  <2>1. q \in DOMAIN readers' /\ t = readers'[q] /\ t.file_id \in DOMAIN files
    BY <1>2, <1>8
  <2> QED BY <1>2, <1>8, <2>1, CursorAt
<1>14. Cursors[q] = [run |-> f, rest |-> RowsAhead(r), row |-> r.row]
  BY <1>1, <1>3 DEF Cursors
<1>15. DOMAIN Cursors = DOMAIN readers /\ Cursors' = [p \in DOMAIN readers |-> Cursors'[p]]
  BY <1>2 DEF Cursors
<1>16. CASE RowsAhead(r) = << >>
  <2>1. Cursors'[q] = [Cursors[q] EXCEPT !.row = None]
    BY <1>9, <1>13, <1>14, <1>16
  <2>2. Cursors' = [Cursors EXCEPT ![q].row = None]
    BY <1>12, <1>15, <2>1
  <2>3. Cursors[q].rest = << >>
    BY <1>14, <1>16
  <2> QED BY <1>10, <1>11, <1>15, <2>2, <2>3 DEF RunInv, Abstract!NextRow
<1>17. CASE RowsAhead(r) # << >>
  <2>1. PICK first, rest : first = Head(RowsAhead(r)) /\ rest = Tail(RowsAhead(r))
    OBVIOUS
  <2>2. Cursors'[q] = [Cursors[q] EXCEPT !.row = first, !.rest = rest]
    <3>2. t.row = first /\ RowsAhead(t) = rest
      BY <1>9, <1>17, <2>1
    <3>3. Cursors'[q] = [run |-> f, rest |-> rest, row |-> first]
      BY <1>13, <3>2
    <3>4. PICK z : z = Cursors[q]
      OBVIOUS
    <3>5. z = [run |-> f, rest |-> RowsAhead(r), row |-> r.row]
      BY <1>14, <3>4
    <3> DEFINE x == [z EXCEPT !.row = first, !.rest = rest]
    <3>6. DOMAIN x = {"run", "rest", "row"}
      BY <3>5
    <3>7. x.run = f
      BY <3>5
    <3>8. x.rest = rest
      BY <3>5
    <3>9. x.row = first
      BY <3>5
    <3>10. x = [i \in {"run", "rest", "row"} |-> x[i]]
      BY <3>6
    <3> HIDE DEF x
    <3>11. x = [run |-> f, rest |-> rest, row |-> first]
      BY <3>6, <3>7, <3>8, <3>9, <3>10
    <3> QED BY <3>3, <3>4, <3>11 DEF x
  <2>3. Cursors' = [Cursors EXCEPT ![q].row = first, ![q].rest = rest]
    BY <1>12, <1>15, <2>2
  <2>4. Cursors[q].rest = RowsAhead(r)
    BY <1>14
  <2> QED BY <1>10, <1>11, <1>15, <1>17, <2>1, <2>3, <2>4 DEF RunInv, Abstract!NextRow
<1> QED BY <1>16, <1>17

LEMMA DropReaderStep ==
  ASSUME RunInv, NEW q \in DOMAIN readers, DropReader(q)
  PROVE  RunInv' /\ Abstract!Close(q)
<1>1. /\ UNCHANGED <<storageVars, writers>> /\ DOMAIN readers' = DOMAIN readers \ {q}
      /\ \A p \in DOMAIN readers' : readers'[p] = readers[p]
  BY DEF DropReader, Without
<1>2. /\ Storage!StorageInv' /\ WritersInv' /\ FilesInv' /\ UNCHANGED Runs
      /\ files' = files /\ writers' = writers
      /\ \A g \in DOMAIN files : Storage!StoredPages(g)' = Storage!StoredPages(g)
  BY <1>1, OnlyReaders
<1>3. ReadersInv'
  <2>1. ASSUME NEW p \in DOMAIN readers', NEW g \in DOMAIN files', readers'[p].file_id = g
        PROVE  ReaderInv(readers'[p], Storage!StoredPages(g)')
    BY <1>1, <1>2, <2>1 DEF RunInv, ReadersInv
  <2>2. DOMAIN readers' \subseteq Readers
    BY <1>1 DEF RunInv, ReadersInv
  <2>3. \A p \in DOMAIN readers' : readers'[p].file_id \in DOMAIN files' \ DOMAIN writers'
    BY <1>1, <1>2 DEF RunInv, ReadersInv
  <2> QED BY <2>1, <2>2, <2>3 DEF ReadersInv
<1>4. ASSUME NEW p \in DOMAIN readers' PROVE Cursors'[p] = Cursors[p]
  <2>1. PICK u : u = readers'[p]
    OBVIOUS
  <2>2. p \in DOMAIN readers /\ u = readers[p] /\ u.file_id \in DOMAIN files
    BY <1>1, <2>1 DEF RunInv, ReadersInv
  <2>3. Cursors'[p] = [run |-> u.file_id, rest |-> RowsAhead(u), row |-> u.row]
    BY <1>1, <2>1, <2>2, CursorAt
  <2> QED BY <2>2, <2>3 DEF Cursors
<1>5. Cursors' = [p \in DOMAIN Cursors \ {q} |-> Cursors[p]] /\ q \in DOMAIN Cursors
  <2>1. DOMAIN Cursors = DOMAIN readers /\ Cursors' = [p \in DOMAIN readers' |-> Cursors'[p]]
    BY DEF Cursors
  <2> QED BY <1>1, <1>4, <2>1
<1> QED BY <1>2, <1>3, <1>5 DEF RunInv, Abstract!Close

-----------------------------------------------------------------------------
(* The theorems *)

LEMMA InitHolds == Init => RunInv /\ Abstract!RunStoreInit
<1> SUFFICES ASSUME Init PROVE RunInv /\ Abstract!RunStoreInit
  OBVIOUS
<1>1. /\ Storage!Init /\ files = << >> /\ writers = << >> /\ readers = << >> /\ next_file_id = 0
  BY DEF Init, Storage!Init
<1>2. Storage!StorageInv
  BY <1>1, StorageInitially
<1>3. DOMAIN files = {} /\ DOMAIN writers = {} /\ DOMAIN readers = {}
  BY <1>1
<1>4. WritersInv /\ ReadersInv
  BY <1>3 DEF WritersInv, ReadersInv
<1>5. FilesInv
  BY <1>1, <1>3, RegionAssumption DEF FilesInv
<1>6. Runs = << >>
  BY <1>3 DEF Runs
<1>7. Cursors = << >>
  BY <1>3 DEF Cursors
<1> QED BY <1>2, <1>4, <1>5, <1>6, <1>7 DEF RunInv, Abstract!RunStoreInit

LEMMA StutterHolds ==
  ASSUME RunInv, UNCHANGED vars
  PROVE  RunInv' /\ UNCHANGED Abstract!runVars
<1>1. UNCHANGED <<storageVars, writers>> /\ readers' = readers
  BY DEF vars
<1>2. /\ Storage!StorageInv' /\ WritersInv' /\ FilesInv' /\ UNCHANGED Runs
      /\ files' = files /\ writers' = writers
      /\ \A g \in DOMAIN files : Storage!StoredPages(g)' = Storage!StoredPages(g)
  BY <1>1, OnlyReaders
<1>3. ReadersInv'
  <2>1. ASSUME NEW p \in DOMAIN readers', NEW g \in DOMAIN files', readers'[p].file_id = g
        PROVE  ReaderInv(readers'[p], Storage!StoredPages(g)')
    BY <1>1, <1>2, <2>1 DEF RunInv, ReadersInv
  <2>2. DOMAIN readers' \subseteq Readers
    BY <1>1 DEF RunInv, ReadersInv
  <2>3. \A p \in DOMAIN readers' : readers'[p].file_id \in DOMAIN files' \ DOMAIN writers'
    BY <1>1, <1>2 DEF RunInv, ReadersInv
  <2> QED BY <2>1, <2>2, <2>3 DEF ReadersInv
<1>4. Cursors' = Cursors
  <2>1. ASSUME NEW p \in DOMAIN readers PROVE Cursors'[p] = Cursors[p]
    <3>1. PICK u : u = readers'[p]
      OBVIOUS
    <3>2. p \in DOMAIN readers' /\ u = readers[p] /\ u.file_id \in DOMAIN files
      BY <1>1, <3>1 DEF RunInv, ReadersInv
    <3>3. Cursors'[p] = [run |-> u.file_id, rest |-> RowsAhead(u), row |-> u.row]
      BY <1>1, <3>1, <3>2, CursorAt
    <3> QED BY <3>2, <3>3 DEF Cursors
  <2>2. /\ Cursors' = [p \in DOMAIN readers' |-> Cursors'[p]]
        /\ Cursors = [p \in DOMAIN readers |-> Cursors[p]]
    BY DEF Cursors
  <2> QED BY <1>1, <2>1, <2>2
<1> QED BY <1>2, <1>3, <1>4 DEF RunInv, Abstract!runVars

\* Each operation keeps the invariant and is the operation of the same name on runs
\* of rows.
LEMMA StepHolds == RunInv /\ [Next]_vars => RunInv' /\ [Abstract!RunStoreNext]_(Abstract!runVars)
<1> SUFFICES ASSUME RunInv, [Next]_vars
             PROVE  RunInv' /\ (Abstract!RunStoreNext \/ UNCHANGED Abstract!runVars)
  OBVIOUS
<1>1. CASE \E batch \in WriteBatches : OpenWriter(batch)
  BY <1>1, OpenWriterStep DEF Abstract!RunStoreNext
<1>2. CASE \E f \in DOMAIN writers : FinishWriter(f)
  <2>1. PICK f \in DOMAIN writers : FinishWriter(f)
    BY <1>2
  <2>2. f \in 0..MaxFiles - 1
    BY IdsInRange DEF RunInv, WritersInv
  <2> QED BY <2>1, <2>2, FinishWriterStep DEF Abstract!RunStoreNext
<1>3. CASE \E f \in DOMAIN writers, row \in Rows : AppendRow(f, row)
  <2>1. PICK f \in DOMAIN writers, row \in Rows : AppendRow(f, row)
    BY <1>3
  <2>2. f \in 0..MaxFiles - 1
    BY IdsInRange DEF RunInv, WritersInv
  <2> QED BY <2>1, <2>2, AppendRowStep DEF Abstract!RunStoreNext
<1>4. CASE \E f \in DOMAIN files : DeleteRun(f)
  <2>1. PICK f \in DOMAIN files : DeleteRun(f)
    BY <1>4
  <2> QED BY <2>1, IdsInRange, DeleteRunStep DEF Abstract!RunStoreNext
<1>5. CASE \E r \in Readers, f \in DOMAIN files, batch \in ReadBatches : OpenReader(r, f, batch)
  <2>1. PICK r \in Readers, f \in DOMAIN files, batch \in ReadBatches : OpenReader(r, f, batch)
    BY <1>5
  <2> QED BY <2>1, IdsInRange, OpenReaderStep DEF Abstract!RunStoreNext
<1>6. CASE \E r \in DOMAIN readers : NextRow(r) \/ DropReader(r)
  <2>1. PICK r \in DOMAIN readers : NextRow(r) \/ DropReader(r)
    BY <1>6
  <2>2. r \in Readers
    BY DEF RunInv, ReadersInv
  <2> QED BY <2>1, <2>2, NextRowStep, DropReaderStep DEF Abstract!RunStoreNext
<1>7. CASE UNCHANGED vars
  BY <1>7, StutterHolds
<1> QED BY <1>1, <1>2, <1>3, <1>4, <1>5, <1>6, <1>7 DEF Next

\* The layout of the region, what a writer holds, what the pages of a file are and
\* where a reader is: in every state that the writers and readers of runs reach.
THEOREM RunInvariant == Spec => []RunInv
<1>1. Init => RunInv
  BY InitHolds
<1>2. RunInv /\ [Next]_vars => RunInv'
  BY StepHolds
<1> QED BY <1>1, <1>2, PTL DEF Spec

\* The state is well typed: no writer outlives its file, no row count has wrapped,
\* and no reader holds a block that was not written.
THEOREM RunsTyped == Spec => []TypeOK
<1>1. RunInv => TypeOK
  <2> SUFFICES ASSUME RunInv PROVE TypeOK
    OBVIOUS
  <2>1. Storage!ManagerTypeOK
    BY DEF RunInv, Storage!StorageInv, Storage!TypeOK
  <2>2. DOMAIN writers \subseteq DOMAIN files /\ \A f \in DOMAIN writers : writers[f] \in WriterType
    BY DEF RunInv, WritersInv, WriterInv, WriterHolds
  <2>3. DOMAIN readers \subseteq Readers /\ \A r \in DOMAIN readers : readers[r] \in ReaderType
    BY DEF RunInv, ReadersInv, ReaderInv
  <2> QED BY <2>1, <2>2, <2>3 DEF TypeOK
<1> QED BY <1>1, RunInvariant, PTL

\* A finished run has a page, and no page without rows beside another: the page
\* count that the join takes for the size of a run is never zero.
THEOREM PagesHoldRows == Spec => []NoEmptyPages
<1>1. RunInv => NoEmptyPages
  <2> SUFFICES ASSUME RunInv, NEW f \in DOMAIN files \ DOMAIN writers
               PROVE  LET pages == Storage!StoredPages(f) IN
                      /\ Len(pages) > 0
                      /\ Len(pages) > 1 => \A i \in DOMAIN pages : pages[i].count > 0
    BY DEF NoEmptyPages
  <2>1. PICK pages : pages = Storage!StoredPages(f)
    OBVIOUS
  <2>2. /\ pages \in Seq(CountedPages) /\ Len(pages) > 0
        /\ Len(pages) > 1 => NonEmpty(pages)
    BY <2>1 DEF RunInv, FilesInv, PagesInv
  <2>3. DOMAIN pages = 1..Len(pages)
    BY <2>2, SequenceFacts
  <2> QED BY <2>1, <2>2, <2>3 DEF NonEmpty
<1> QED BY <1>1, RunInvariant, PTL

\* Between two calls a writer holds less than a batch of pages and a reader at most
\* one, so the memory that the sort and the join set aside for them is enough.
THEOREM BuffersStayBounded == Spec => []BuffersBounded
<1>1. RunInv => BuffersBounded
  BY DEF RunInv, WritersInv, WriterInv, ReadersInv, ReaderInv, BuffersBounded
<1> QED BY <1>1, RunInvariant, PTL

\* A reader delivers the rows appended to its run, each once and in order, and then
\* None, however they are packed into pages, the pages batched and split over
\* extents, and whatever other writers, readers and deletions do in between.
THEOREM RunsRefine == Spec => ImplementsRunStore
<1>1. Init => Abstract!RunStoreInit
  BY InitHolds
<1>2. RunInv /\ [Next]_vars => [Abstract!RunStoreNext]_(Abstract!runVars)
  BY StepHolds
<1> QED BY <1>1, <1>2, RunInvariant, PTL DEF Spec, ImplementsRunStore, Abstract!RunStoreSpec
=============================================================================
