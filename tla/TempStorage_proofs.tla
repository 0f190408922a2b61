------------------------- MODULE TempStorage_proofs -------------------------
(***************************************************************************)
(* The layout invariants of TempStorage for every size of region, number   *)
(* of files and request, and every sequence of calls.                      *)
(***************************************************************************)
EXTENDS TempStorage, SequenceTheorems, TLAPS

-----------------------------------------------------------------------------
(* Sequences and intervals *)

\* A function on 1..n is a sequence of length n.
LEMMA FunctionIsSeq ==
  ASSUME NEW S, NEW n \in Nat, NEW g \in [1..n -> S]
  PROVE  g \in Seq(S) /\ Len(g) = n /\ DOMAIN g = 1..n
<1>1. g \in Seq(S)
  BY SeqDef
<1>2. DOMAIN g = 1..n
  OBVIOUS
<1>3. Len(g) = n
  BY <1>1, <1>2, LenProperties
<1> QED BY <1>1, <1>2, <1>3

\* An extent: a record with a start block and a positive number of pages.
Extent(e) == e.start_block \in Nat /\ e.num_pages \in Nat \ {0}

\* Two extents share no block exactly when one ends before the other starts.
LEMMA ApartIsOrdered ==
  ASSUME NEW d, NEW e, Extent(d), Extent(e)
  PROVE  Apart(d, e) <=> \/ d.start_block + d.num_pages <= e.start_block
                         \/ e.start_block + e.num_pages <= d.start_block
<1> DEFINE first == IF d.start_block <= e.start_block THEN e.start_block ELSE d.start_block
<1>1. ASSUME Apart(d, e)
      PROVE  \/ d.start_block + d.num_pages <= e.start_block
             \/ e.start_block + e.num_pages <= d.start_block
  <2>1. first \in BlocksOf(d) => first \notin BlocksOf(e)
    BY <1>1 DEF Apart
  <2> QED BY <2>1 DEF BlocksOf, Extent
<1>2. ASSUME \/ d.start_block + d.num_pages <= e.start_block
             \/ e.start_block + e.num_pages <= d.start_block
      PROVE  Apart(d, e)
  BY <1>2 DEF Apart, BlocksOf, Extent
<1> QED BY <1>1, <1>2

\* An extent lies in the region exactly when both of its ends do.
LEMMA WithinRegionIsBounds ==
  ASSUME NEW e, Extent(e), RegionEnd \in Nat, AnonStart \in Nat
  PROVE  WithinRegion(e) <=> /\ AnonStart <= e.start_block
                             /\ e.start_block + e.num_pages <= RegionEnd
<1>1. ASSUME WithinRegion(e)
      PROVE  AnonStart <= e.start_block /\ e.start_block + e.num_pages <= RegionEnd
  <2>1. e.start_block \in BlocksOf(e) /\ e.start_block + e.num_pages - 1 \in BlocksOf(e)
    BY DEF BlocksOf, Extent
  <2> QED BY <1>1, <2>1 DEF WithinRegion, Extent
<1>2. ASSUME AnonStart <= e.start_block, e.start_block + e.num_pages <= RegionEnd
      PROVE  WithinRegion(e)
  BY <1>2 DEF WithinRegion, BlocksOf, Extent
<1> QED BY <1>1, <1>2

\* A longer interval holds a shorter one.
LEMMA IntervalGrows ==
  ASSUME NEW a \in Nat, NEW b \in Nat, NEW c \in Nat, b <= c
  PROVE  a..b - 1 \subseteq a..c - 1
  OBVIOUS

\* An interval lies in another one that starts no later and ends no earlier.
LEMMA IntervalWithin ==
  ASSUME NEW a \in Nat, NEW s \in Nat, NEW m \in Nat, NEW c \in Nat,
         a <= s, s + m <= c
  PROVE  s..s + m - 1 \subseteq a..c - 1
  OBVIOUS

\* What swap_remove leaves: the other elements, the last one moved.
LEMMA SwapRemoveProperties ==
  ASSUME NEW S, NEW s \in Seq(S), NEW i \in 1..Len(s)
  PROVE  /\ SwapRemove(s, i) \in Seq(S)
         /\ Len(SwapRemove(s, i)) = Len(s) - 1
         /\ \A j \in 1..Len(s) - 1 :
              SwapRemove(s, i)[j] = IF j = i THEN s[Len(s)] ELSE s[j]
<1>1. Len(s) - 1 \in Nat
  BY LenProperties
<1>2. SwapRemove(s, i) \in [1..Len(s) - 1 -> S]
  BY <1>1, LenProperties DEF SwapRemove
<1> QED BY <1>1, <1>2, FunctionIsSeq DEF SwapRemove

-----------------------------------------------------------------------------
(* Allocation *)

(***************************************************************************)
(* What an allocation of n pages at start does to the layout, whichever of *)
(* its two branches it takes: the blocks are in the region, nobody's, and  *)
(* the free list keeps its own extents apart and every other block.        *)
(***************************************************************************)
NewExtent(n, start) == [start_block |-> start, num_pages |-> n]

Carved(n, start) ==
  /\ next_free_block' \in Nat \cup {None}
  /\ RegionEnd' \in AnonStart..MaxBlock
  /\ RegionEnd <= RegionEnd'
  /\ AnonStart <= start /\ start + n <= RegionEnd'
  /\ free_extents' \in Seq(FreeExtent)
  /\ \A i \in DOMAIN free_extents' : WithinRegion(free_extents[i])'
  /\ FreeExtentsApart'
  /\ \A i \in DOMAIN free_extents' : Apart(NewExtent(n, start), free_extents'[i])
  /\ \A g \in DOMAIN files : \A k \in DOMAIN files[g].extents :
       /\ Apart(files[g].extents[k], NewExtent(n, start))
       /\ \A i \in DOMAIN free_extents' : Apart(files[g].extents[k], free_extents'[i])
  /\ \A b \in AnonStart..RegionEnd' - 1 :
       \/ b \in BlocksOf(NewExtent(n, start))
       \/ \E i \in DOMAIN free_extents' : b \in BlocksOf(free_extents'[i])
       \/ \E g \in DOMAIN files : \E k \in DOMAIN files[g].extents :
            b \in BlocksOf(files[g].extents[k])

\* The shape of the state that the type invariant gives.
LEMMA TypedExtents ==
  ASSUME TypeOK
  PROVE  /\ RegionEnd \in Nat /\ AnonStart \in Nat /\ AnonStart <= RegionEnd
         /\ DOMAIN free_extents = 1..Len(free_extents) /\ Len(free_extents) \in Nat
         /\ \A i \in DOMAIN free_extents : free_extents[i] \in FreeExtent /\ Extent(free_extents[i])
         /\ \A g \in DOMAIN files :
              /\ files[g] \in TempFileMeta
              /\ DOMAIN files[g].extents = 1..Len(files[g].extents)
              /\ Len(files[g].extents) \in Nat
              /\ \A k \in DOMAIN files[g].extents :
                   /\ files[g].extents[k] \in FileExtent
                   /\ Extent(files[g].extents[k])
<1>1. RegionEnd \in Nat /\ AnonStart \in Nat /\ AnonStart <= RegionEnd
  BY StorageAssumption DEF TypeOK, ManagerTypeOK
<1>2. DOMAIN free_extents = 1..Len(free_extents) /\ Len(free_extents) \in Nat
  BY LenProperties DEF TypeOK, ManagerTypeOK
<1>3. \A i \in DOMAIN free_extents : free_extents[i] \in FreeExtent /\ Extent(free_extents[i])
  <2>1. free_extents \in Seq(FreeExtent)
    BY DEF TypeOK, ManagerTypeOK
  <2>2. \A i \in DOMAIN free_extents : free_extents[i] \in FreeExtent
    BY <1>2, <2>1, ElementOfSeq
  <2> QED BY <2>2 DEF FreeExtent, Extent
<1>4. ASSUME NEW g \in DOMAIN files
      PROVE  /\ files[g] \in TempFileMeta
             /\ DOMAIN files[g].extents = 1..Len(files[g].extents)
             /\ Len(files[g].extents) \in Nat
             /\ \A k \in DOMAIN files[g].extents :
                  files[g].extents[k] \in FileExtent /\ Extent(files[g].extents[k])
  <2>1. files[g] \in TempFileMeta
    BY DEF TypeOK, ManagerTypeOK
  <2>2. files[g].extents \in Seq(FileExtent)
    BY <2>1 DEF TempFileMeta
  <2>3. DOMAIN files[g].extents = 1..Len(files[g].extents) /\ Len(files[g].extents) \in Nat
    BY <2>2, LenProperties
  <2>4. \A k \in DOMAIN files[g].extents : files[g].extents[k] \in FileExtent
    BY <2>2, <2>3, ElementOfSeq
  <2> QED BY <2>1, <2>3, <2>4 DEF FileExtent, Extent
<1> QED BY <1>1, <1>2, <1>3, <1>4

\* Growing the region hands out blocks no extent reaches.
LEMMA GrowRegionCarves ==
  ASSUME StorageInv, NEW n \in Nat \ {0}, NEW start \in Nat, GrowRegion(n, start)
  PROVE  Carved(n, start)
<1> DEFINE new == NewExtent(n, start)
<1>1. TypeOK /\ NoBlockSharedTwice /\ NoBlockLost
  BY DEF StorageInv
<1>2. /\ start = RegionEnd /\ start + n <= MaxBlock
      /\ next_free_block' = start + n
      /\ free_extents' = free_extents
  BY DEF GrowRegion
<1>3. RegionEnd \in Nat /\ AnonStart \in Nat /\ AnonStart <= RegionEnd /\ MaxBlock \in Nat
  BY <1>1, TypedExtents, StorageAssumption
<1>4. next_free_block' \in Nat /\ RegionEnd' = RegionEnd + n
  BY <1>2, <1>3, StorageAssumption DEF RegionEnd
<1>5. Extent(new)
  BY DEF NewExtent, Extent
<1>6. \A i \in DOMAIN free_extents :
        /\ WithinRegion(free_extents[i])'
        /\ Apart(new, free_extents[i])
  <2> SUFFICES ASSUME NEW i \in DOMAIN free_extents
               PROVE  WithinRegion(free_extents[i])' /\ Apart(new, free_extents[i])
    OBVIOUS
  <2>1. Extent(free_extents[i]) /\ WithinRegion(free_extents[i])
    BY <1>1, TypedExtents DEF NoBlockLost, ExtentsWithinRegion
  <2>2. /\ AnonStart <= free_extents[i].start_block
        /\ free_extents[i].start_block + free_extents[i].num_pages <= RegionEnd
    BY <1>3, <2>1, WithinRegionIsBounds
  <2>3. Apart(new, free_extents[i])
    BY <1>2, <1>5, <2>1, <2>2, ApartIsOrdered DEF NewExtent
  <2>4. BlocksOf(free_extents[i]) \subseteq AnonStart..RegionEnd' - 1
    BY <1>3, <1>4, <2>1, <2>2 DEF BlocksOf, Extent
  <2> QED BY <1>2, <2>3, <2>4 DEF WithinRegion, BlocksOf
<1>7. \A g \in DOMAIN files : \A k \in DOMAIN files[g].extents :
        /\ Apart(files[g].extents[k], new)
        /\ \A i \in DOMAIN free_extents : Apart(files[g].extents[k], free_extents[i])
  <2> SUFFICES ASSUME NEW g \in DOMAIN files, NEW k \in DOMAIN files[g].extents
               PROVE  Apart(files[g].extents[k], new)
    BY <1>1 DEF NoBlockSharedTwice, FilesApartFromFree
  <2>1. Extent(files[g].extents[k]) /\ WithinRegion(files[g].extents[k])
    BY <1>1, TypedExtents DEF NoBlockLost, ExtentsWithinRegion
  <2>2. files[g].extents[k].start_block + files[g].extents[k].num_pages <= RegionEnd
    BY <1>3, <2>1, WithinRegionIsBounds
  <2> QED BY <1>2, <1>5, <2>1, <2>2, ApartIsOrdered DEF NewExtent
<1>8. \A b \in AnonStart..RegionEnd' - 1 :
        b \in AnonStart..RegionEnd - 1 \/ b \in BlocksOf(new)
  BY <1>2, <1>3, <1>4 DEF BlocksOf, NewExtent
<1>9. FreeExtentsApart'
  BY <1>1, <1>2 DEF NoBlockSharedTwice, FreeExtentsApart, Apart, BlocksOf
<1>10. RegionEnd' \in AnonStart..MaxBlock
  BY <1>2, <1>3, <1>4
<1>11. free_extents' \in Seq(FreeExtent)
  BY <1>1, <1>2 DEF TypeOK, ManagerTypeOK
<1>12. \A b \in AnonStart..RegionEnd' - 1 :
         \/ b \in BlocksOf(new)
         \/ \E i \in DOMAIN free_extents' : b \in BlocksOf(free_extents'[i])
         \/ \E g \in DOMAIN files : \E k \in DOMAIN files[g].extents :
              b \in BlocksOf(files[g].extents[k])
  BY <1>1, <1>2, <1>8 DEF NoBlockLost, EveryBlockHeld
<1> HIDE DEF new
<1>13. RegionEnd <= RegionEnd' /\ AnonStart <= start /\ start + n <= RegionEnd'
  BY <1>2, <1>3, <1>4
<1> QED
  BY <1>2, <1>4, <1>6, <1>7, <1>9, <1>10, <1>11, <1>12, <1>13 DEF Carved, new

\* Best fit hands out blocks of one free extent and keeps the rest of it.
LEMMA ReuseExtentCarves ==
  ASSUME StorageInv, NEW n \in Nat \ {0}, NEW start \in Nat, ReuseExtent(n, start)
  PROVE  Carved(n, start)
<1> DEFINE new == NewExtent(n, start)
           last == Len(free_extents)
<1>1. TypeOK /\ NoBlockSharedTwice /\ NoBlockLost
  BY DEF StorageInv
<1>2. PICK i \in DOMAIN free_extents :
        /\ free_extents[i].num_pages >= n
        /\ start = free_extents[i].start_block
        /\ free_extents' =
             IF free_extents[i].num_pages > n
             THEN Append(SwapRemove(free_extents, i), Remainder(free_extents[i], n))
             ELSE SwapRemove(free_extents, i)
  BY DEF ReuseExtent, IsBestFit
<1>3. next_free_block' = next_free_block /\ RegionEnd' = RegionEnd
  BY DEF ReuseExtent, RegionEnd
<1> DEFINE e == free_extents[i]
           rest == SwapRemove(free_extents, i)
           piece == Remainder(e, n)
           src == [j \in 1..last - 1 |-> IF j = i THEN last ELSE j]
<1>4. /\ RegionEnd \in Nat /\ AnonStart \in Nat /\ AnonStart <= RegionEnd
      /\ DOMAIN free_extents = 1..last /\ last \in Nat /\ i \in 1..last
      /\ free_extents \in Seq(FreeExtent)
  BY <1>1, TypedExtents DEF TypeOK, ManagerTypeOK
<1>5. \A j \in DOMAIN free_extents :
        /\ free_extents[j] \in FreeExtent /\ Extent(free_extents[j])
        /\ AnonStart <= free_extents[j].start_block
        /\ free_extents[j].start_block + free_extents[j].num_pages <= RegionEnd
  BY <1>1, <1>4, TypedExtents, WithinRegionIsBounds DEF NoBlockLost, ExtentsWithinRegion
<1>6. /\ rest \in Seq(FreeExtent)
      /\ Len(rest) = last - 1
      /\ \A j \in 1..last - 1 : src[j] \in 1..last /\ src[j] # i /\ rest[j] = free_extents[src[j]]
      /\ \A j, k \in 1..last - 1 : j # k => src[j] # src[k]
      /\ \A k \in 1..last : k # i => \E j \in 1..last - 1 : src[j] = k
  <2>1. /\ rest \in Seq(FreeExtent)
        /\ Len(rest) = last - 1
        /\ \A j \in 1..last - 1 : rest[j] = IF j = i THEN free_extents[last] ELSE free_extents[j]
    BY <1>4, SwapRemoveProperties
  <2>2. \A j \in 1..last - 1 : src[j] \in 1..last /\ src[j] # i /\ rest[j] = free_extents[src[j]]
    BY <1>4, <2>1
  <2>3. \A j, k \in 1..last - 1 : j # k => src[j] # src[k]
    BY <1>4
  <2>4. ASSUME NEW k \in 1..last, k # i
        PROVE  \E j \in 1..last - 1 : src[j] = k
    <3>1. CASE k = last
      <4>1. i \in 1..last - 1 /\ src[i] = last
        BY <1>4, <2>4, <3>1
      <4> QED BY <3>1, <4>1
    <3>2. CASE k # last
      <4>1. last \in Nat
        BY <1>4
      <4>2. k \in 1..last - 1
        <5> HIDE DEF last
        <5> QED BY <2>4, <3>2, <4>1
      <4>3. src[k] = k
        BY <2>4, <4>2
      <4> QED BY <4>2, <4>3
    <3> QED BY <3>1, <3>2
  <2> QED BY <2>1, <2>2, <2>3, <2>4
<1> HIDE DEF src, rest, last
<1>7. Extent(new) /\ Extent(e) /\ new.start_block = e.start_block /\ new.num_pages = n
      /\ n <= e.num_pages
  BY <1>2, <1>5 DEF NewExtent, Extent
<1>8. /\ piece.start_block = e.start_block + n
      /\ piece.num_pages = e.num_pages - n
      /\ e.num_pages > n => piece \in FreeExtent /\ Extent(piece)
  BY <1>7 DEF Remainder, FreeExtent, Extent
<1> HIDE DEF piece
<1>9. /\ free_extents' \in Seq(FreeExtent)
      /\ 1..last - 1 \subseteq DOMAIN free_extents' /\ DOMAIN free_extents' \subseteq 1..last
      /\ \A j \in 1..last - 1 : free_extents'[j] = free_extents[src[j]]
      /\ last \in DOMAIN free_extents' <=> e.num_pages > n
      /\ last \in DOMAIN free_extents' => free_extents'[last] = piece
  <2>1. CASE e.num_pages > n
    <3>1. free_extents' = Append(rest, piece)
      BY <1>2, <2>1 DEF rest, piece
    <3>2. /\ Append(rest, piece) \in Seq(FreeExtent)
          /\ Len(Append(rest, piece)) = last
          /\ Append(rest, piece)[last] = piece
          /\ \A j \in 1..last - 1 : Append(rest, piece)[j] = rest[j]
      BY <1>4, <1>6, <1>8, <2>1, AppendProperties
    <3> QED BY <1>4, <1>6, <2>1, <3>1, <3>2, LenProperties
  <2>2. CASE ~(e.num_pages > n)
    <3>1. free_extents' = rest
      BY <1>2, <2>2 DEF rest
    <3> QED BY <1>4, <1>6, <2>2, <3>1, LenProperties
  <2> QED BY <2>1, <2>2
<1>10. \A j \in DOMAIN free_extents' :
         \/ /\ j \in 1..last - 1 /\ src[j] \in DOMAIN free_extents /\ src[j] # i
            /\ free_extents'[j] = free_extents[src[j]]
         \/ j = last /\ e.num_pages > n /\ free_extents'[j] = piece /\ Extent(piece)
  BY <1>4, <1>6, <1>8, <1>9
<1>11. \A j \in DOMAIN free_extents' :
         /\ Extent(free_extents'[j])
         /\ AnonStart <= free_extents'[j].start_block
         /\ free_extents'[j].start_block + free_extents'[j].num_pages <= RegionEnd
         /\ Apart(new, free_extents'[j])
  <2> SUFFICES ASSUME NEW j \in DOMAIN free_extents'
               PROVE  /\ Extent(free_extents'[j])
                      /\ AnonStart <= free_extents'[j].start_block
                      /\ free_extents'[j].start_block + free_extents'[j].num_pages <= RegionEnd
                      /\ Apart(new, free_extents'[j])
    OBVIOUS
  <2>1. CASE free_extents'[j] = free_extents[src[j]] /\ src[j] \in DOMAIN free_extents /\ src[j] # i
    <3>1. Apart(e, free_extents[src[j]])
      BY <1>1, <2>1 DEF NoBlockSharedTwice, FreeExtentsApart
    <3>2. Extent(free_extents[src[j]])
      BY <1>5, <2>1
    <3>3. Apart(new, free_extents[src[j]])
      BY <1>7, <3>1, <3>2, ApartIsOrdered DEF Extent
    <3> QED BY <1>5, <2>1, <3>2, <3>3
  <2>2. CASE free_extents'[j] = piece /\ Extent(piece) /\ e.num_pages > n
    <3>1. Apart(new, piece)
      BY <1>7, <1>8, <2>2, ApartIsOrdered DEF Extent
    <3>2. AnonStart <= e.start_block /\ e.start_block + e.num_pages <= RegionEnd
      BY <1>5
    <3>3. AnonStart <= piece.start_block /\ piece.start_block + piece.num_pages <= RegionEnd
      BY <1>4, <1>7, <1>8, <3>2 DEF Extent
    <3> QED BY <2>2, <3>1, <3>3
  <2> QED BY <1>10, <2>1, <2>2
<1>12. FreeExtentsApart'
  <2> SUFFICES ASSUME NEW j \in DOMAIN free_extents', NEW k \in DOMAIN free_extents', j # k
               PROVE  Apart(free_extents'[j], free_extents'[k])
    BY DEF FreeExtentsApart, Apart, BlocksOf
  <2>1. ASSUME NEW x, x \in DOMAIN free_extents, x # i, e.num_pages > n
        PROVE  Apart(free_extents[x], piece) /\ Apart(piece, free_extents[x])
    <3>1. Apart(e, free_extents[x]) /\ Extent(free_extents[x]) /\ Extent(piece)
      BY <1>1, <1>5, <1>8, <2>1 DEF NoBlockSharedTwice, FreeExtentsApart
    <3> QED BY <1>7, <1>8, <3>1, ApartIsOrdered DEF Extent
  <2>2. CASE j \in 1..last - 1 /\ k \in 1..last - 1
    <3>1. src[j] \in DOMAIN free_extents /\ src[k] \in DOMAIN free_extents /\ src[j] # src[k]
      BY <1>4, <1>6, <2>2
    <3>2. Apart(free_extents[src[j]], free_extents[src[k]])
      BY <1>1, <3>1 DEF NoBlockSharedTwice, FreeExtentsApart
    <3> QED BY <1>9, <2>2, <3>2
  <2>3. CASE j = last
    BY <1>10, <2>1, <2>3, <1>4
  <2>4. CASE k = last
    BY <1>10, <2>1, <2>4, <1>4
  <2> QED BY <1>4, <1>9, <2>2, <2>3, <2>4
<1>13. \A g \in DOMAIN files : \A k \in DOMAIN files[g].extents :
         /\ Apart(files[g].extents[k], new)
         /\ \A j \in DOMAIN free_extents' : Apart(files[g].extents[k], free_extents'[j])
  <2> SUFFICES ASSUME NEW g \in DOMAIN files, NEW k \in DOMAIN files[g].extents
               PROVE  /\ Apart(files[g].extents[k], new)
                      /\ \A j \in DOMAIN free_extents' :
                           Apart(files[g].extents[k], free_extents'[j])
    OBVIOUS
  <2> DEFINE d == files[g].extents[k]
  <2>1. Extent(d) /\ \A x \in DOMAIN free_extents : Apart(d, free_extents[x])
    BY <1>1, TypedExtents DEF NoBlockSharedTwice, FilesApartFromFree
  <2> HIDE DEF d
  <2>2. \/ d.start_block + d.num_pages <= e.start_block
        \/ e.start_block + e.num_pages <= d.start_block
    BY <1>7, <2>1, ApartIsOrdered
  <2>3. Apart(d, new)
    BY <1>7, <2>1, <2>2, ApartIsOrdered DEF Extent
  <2>4. e.num_pages > n => Apart(d, piece)
    BY <1>7, <1>8, <2>1, <2>2, ApartIsOrdered DEF Extent
  <2> QED BY <1>10, <2>1, <2>3, <2>4 DEF d
<1>14. ASSUME NEW b \in AnonStart..RegionEnd' - 1
       PROVE  \/ b \in BlocksOf(new)
              \/ \E j \in DOMAIN free_extents' : b \in BlocksOf(free_extents'[j])
              \/ \E g \in DOMAIN files : \E k \in DOMAIN files[g].extents :
                   b \in BlocksOf(files[g].extents[k])
  <2>1. CASE b \in BlocksOf(e)
    <3>1. b \in BlocksOf(new) \/ (e.num_pages > n /\ b \in BlocksOf(piece))
      BY <1>7, <1>8, <2>1 DEF BlocksOf, Extent
    <3> QED BY <1>9, <3>1
  <2>2. ASSUME NEW x \in DOMAIN free_extents, x # i, b \in BlocksOf(free_extents[x])
        PROVE  \E j \in DOMAIN free_extents' : b \in BlocksOf(free_extents'[j])
    BY <1>4, <1>6, <1>9, <2>2
  <2> QED BY <1>1, <1>3, <2>1, <2>2 DEF NoBlockLost, EveryBlockHeld
<1>15. \A j \in DOMAIN free_extents' : WithinRegion(free_extents[j])'
  BY <1>3, <1>4, <1>11, WithinRegionIsBounds DEF WithinRegion, BlocksOf
<1>16. AnonStart <= start /\ start + n <= RegionEnd' /\ RegionEnd <= RegionEnd'
  BY <1>2, <1>3, <1>4, <1>5, <1>7 DEF Extent, NewExtent
<1>17. RegionEnd' \in AnonStart..MaxBlock /\ next_free_block' \in Nat \cup {None}
  BY <1>1, <1>3 DEF TypeOK, ManagerTypeOK
<1> HIDE DEF new
<1> QED
  BY <1>9, <1>11, <1>12, <1>13, <1>14, <1>15, <1>16, <1>17 DEF Carved, new

\* An allocation keeps the layout invariants, and its blocks are in use after it.
LEMMA AllocateExtentKeepsLayout ==
  ASSUME StorageInv, NEW f \in DOMAIN files, NEW n \in Nat \ {0}, NEW start \in Nat,
         AllocateExtent(f, n, start), next_file_id' = next_file_id
  PROVE  /\ ManagerTypeOK' /\ NoBlockSharedTwice' /\ NoBlockLost' /\ EveryPageLocated'
         /\ RegionEnd <= RegionEnd' /\ RegionEnd' \in Nat
         /\ AnonStart <= start /\ start + n <= RegionEnd'
         /\ files' = [files EXCEPT ![f] = files'[f]]
         /\ files'[f].num_pages = files[f].num_pages + n
<1> DEFINE new == NewExtent(n, start)
           added == [start_block |-> start, num_pages |-> n, first_page |-> files[f].num_pages]
           old == files[f].extents
           last == Len(old) + 1
<1>1. TypeOK /\ ManagerTypeOK /\ NoBlockSharedTwice /\ NoBlockLost /\ EveryPageLocated
  BY DEF StorageInv, TypeOK
<1>2. Carved(n, start)
  BY GrowRegionCarves, ReuseExtentCarves DEF AllocateExtent
<1>3. /\ DOMAIN files' = DOMAIN files
      /\ \A g \in DOMAIN files : g # f => files'[g] = files[g]
      /\ files'[f] = [extents |-> Append(old, added), num_pages |-> files[f].num_pages + n]
      /\ files' = [files EXCEPT ![f] = files'[f]]
  BY DEF AllocateExtent, RecordExtent
<1>4. /\ old \in Seq(FileExtent) /\ files[f].num_pages \in Nat
      /\ DOMAIN old = 1..last - 1 /\ last - 1 \in Nat /\ last \in Nat
      /\ added \in FileExtent
  BY <1>1, TypedExtents DEF TempFileMeta, FileExtent
<1>5. /\ Append(old, added) \in Seq(FileExtent)
      /\ DOMAIN Append(old, added) = 1..last
      /\ Append(old, added)[last] = added
      /\ \A k \in 1..last - 1 : Append(old, added)[k] = old[k]
  BY <1>4, AppendProperties, LenProperties
<1>6. /\ DOMAIN files'[f].extents = 1..last
      /\ files'[f].extents[last] = added
      /\ \A k \in 1..last - 1 : files'[f].extents[k] = files[f].extents[k]
      /\ files'[f].num_pages = files[f].num_pages + n
      /\ files'[f] \in TempFileMeta
  BY <1>3, <1>4, <1>5 DEF TempFileMeta
<1> HIDE DEF old, last
\* Every extent of a file after the step was there before, or is the new one.
<1>7. \A g \in DOMAIN files' : \A k \in DOMAIN files'[g].extents :
        \/ g \in DOMAIN files /\ k \in DOMAIN files[g].extents
           /\ files'[g].extents[k] = files[g].extents[k]
        \/ g = f /\ k = last /\ files'[g].extents[k] = added
  <2>1. \A k \in 1..last : k \in 1..last - 1 \/ k = last
    BY <1>4
  <2>2. \A k \in DOMAIN files'[f].extents :
          \/ k \in DOMAIN files[f].extents /\ files'[f].extents[k] = files[f].extents[k]
          \/ k = last /\ files'[f].extents[k] = added
    BY <1>4, <1>6, <2>1 DEF old
  <2> QED BY <1>3, <2>2
<1>8. BlocksOf(added) = BlocksOf(new)
  BY DEF BlocksOf, NewExtent
<1> HIDE DEF new, added
<1>9. ManagerTypeOK'
  <2>1. files' \in [DOMAIN files' -> TempFileMeta]
    <3>1. \A g \in DOMAIN files' : files'[g] \in TempFileMeta
      BY <1>1, <1>3, <1>6 DEF ManagerTypeOK
    <3>2. files' = [g \in DOMAIN files' |-> files'[g]]
      BY DEF AllocateExtent, RecordExtent
    <3> QED BY <3>1, <3>2
  <2> QED BY <1>1, <1>2, <1>3, <2>1 DEF ManagerTypeOK, Carved
<1>10. NoBlockSharedTwice'
  <2>1. ASSUME NEW g \in DOMAIN files', NEW h \in DOMAIN files',
               NEW k \in DOMAIN files'[g].extents, NEW l \in DOMAIN files'[h].extents,
               <<g, k>> # <<h, l>>
        PROVE  Apart(files'[g].extents[k], files'[h].extents[l])
    <3>1. CASE g = f /\ k = last /\ files'[g].extents[k] = added
      <4>1. /\ h \in DOMAIN files /\ l \in DOMAIN files[h].extents
            /\ files'[h].extents[l] = files[h].extents[l]
        BY <1>7, <2>1, <3>1
      <4>2. Apart(files[h].extents[l], new)
        BY <1>2, <4>1 DEF Carved, new
      <4> QED BY <1>8, <3>1, <4>1, <4>2 DEF Apart
    <3>2. CASE h = f /\ l = last /\ files'[h].extents[l] = added
      <4>1. /\ g \in DOMAIN files /\ k \in DOMAIN files[g].extents
            /\ files'[g].extents[k] = files[g].extents[k]
        BY <1>7, <2>1, <3>2
      <4>2. Apart(files[g].extents[k], new)
        BY <1>2, <4>1 DEF Carved, new
      <4> QED BY <1>8, <3>2, <4>1, <4>2 DEF Apart
    <3>3. CASE /\ g \in DOMAIN files /\ k \in DOMAIN files[g].extents
               /\ files'[g].extents[k] = files[g].extents[k]
               /\ h \in DOMAIN files /\ l \in DOMAIN files[h].extents
               /\ files'[h].extents[l] = files[h].extents[l]
      BY <1>1, <2>1, <3>3 DEF NoBlockSharedTwice, FileExtentsApart
    <3> QED BY <1>7, <3>1, <3>2, <3>3
  <2>2. ASSUME NEW g \in DOMAIN files', NEW k \in DOMAIN files'[g].extents,
               NEW i \in DOMAIN free_extents'
        PROVE  Apart(files'[g].extents[k], free_extents'[i])
    <3>1. CASE files'[g].extents[k] = added
      BY <1>2, <1>8, <3>1 DEF Carved, Apart, new
    <3>2. CASE /\ g \in DOMAIN files /\ k \in DOMAIN files[g].extents
               /\ files'[g].extents[k] = files[g].extents[k]
      BY <1>2, <3>2 DEF Carved
    <3> QED BY <1>7, <3>1, <3>2
  <2>3. FileExtentsApart'
    BY <2>1 DEF FileExtentsApart, Apart, BlocksOf
  <2>4. FilesApartFromFree'
    BY <2>2 DEF FilesApartFromFree, Apart, BlocksOf
  <2> QED BY <1>2, <2>3, <2>4 DEF NoBlockSharedTwice, Carved
<1>11. RegionEnd \in Nat /\ RegionEnd' \in Nat /\ RegionEnd <= RegionEnd'
  BY <1>1, <1>2, TypedExtents, StorageAssumption DEF Carved
<1>12. NoBlockLost'
  <2>1. ASSUME NEW g \in DOMAIN files', NEW k \in DOMAIN files'[g].extents
        PROVE  BlocksOf(files'[g].extents[k]) \subseteq AnonStart..RegionEnd' - 1
    <3>1. CASE files'[g].extents[k] = added
      <4>1. BlocksOf(new) = start..start + n - 1
        BY DEF BlocksOf, new, NewExtent
      <4>2. AnonStart <= start /\ start + n <= RegionEnd'
        BY <1>2 DEF Carved
      <4>3. start..start + n - 1 \subseteq AnonStart..RegionEnd' - 1
        BY <1>11, <4>2, StorageAssumption, IntervalWithin
      <4> QED BY <1>8, <3>1, <4>1, <4>3
    <3>2. CASE /\ g \in DOMAIN files /\ k \in DOMAIN files[g].extents
               /\ files'[g].extents[k] = files[g].extents[k]
      <4>1. BlocksOf(files[g].extents[k]) \subseteq AnonStart..RegionEnd - 1
        BY <1>1, <3>2 DEF NoBlockLost, ExtentsWithinRegion, WithinRegion
      <4>2. AnonStart..RegionEnd - 1 \subseteq AnonStart..RegionEnd' - 1
        BY <1>11, StorageAssumption, IntervalGrows
      <4> QED BY <3>2, <4>1, <4>2
    <3> QED BY <1>7, <3>1, <3>2
  <2>2. ASSUME NEW b \in AnonStart..RegionEnd' - 1
        PROVE  \/ \E i \in DOMAIN free_extents' : b \in BlocksOf(free_extents'[i])
               \/ \E g \in DOMAIN files' : \E k \in DOMAIN files'[g].extents :
                    b \in BlocksOf(files'[g].extents[k])
    <3>1. CASE b \in BlocksOf(new)
      <4>1. f \in DOMAIN files' /\ last \in DOMAIN files'[f].extents
            /\ b \in BlocksOf(files'[f].extents[last])
        BY <1>3, <1>4, <1>6, <1>8, <3>1
      <4> QED BY <4>1
    <3>2. ASSUME NEW g \in DOMAIN files, NEW k \in DOMAIN files[g].extents,
                 b \in BlocksOf(files[g].extents[k])
          PROVE  g \in DOMAIN files' /\ k \in DOMAIN files'[g].extents
                 /\ b \in BlocksOf(files'[g].extents[k])
      <4>1. CASE g = f
        <5>1. k \in 1..last - 1 /\ k \in 1..last
          BY <1>4, <3>2, <4>1 DEF old
        <5> QED BY <1>3, <1>6, <3>2, <4>1, <5>1
      <4>2. CASE g # f
        BY <1>3, <3>2, <4>2
      <4> QED BY <4>1, <4>2
    <3> QED BY <1>2, <3>1, <3>2 DEF Carved, new
  <2>3. ExtentsWithinRegion'
    BY <1>2, <2>1 DEF ExtentsWithinRegion, Carved, WithinRegion, BlocksOf
  <2>4. EveryBlockHeld'
    BY <2>2 DEF EveryBlockHeld, BlocksOf
  <2> QED BY <2>3, <2>4 DEF NoBlockLost
<1>13. EveryPageLocated'
  <2> SUFFICES ASSUME NEW g \in DOMAIN files'
               PROVE  /\ \A k \in DOMAIN files'[g].extents :
                           PagesOf(files'[g].extents[k]) \subseteq 0..files'[g].num_pages - 1
                      /\ \A k, l \in DOMAIN files'[g].extents : k # l =>
                           PagesOf(files'[g].extents[k]) \cap PagesOf(files'[g].extents[l]) = {}
                      /\ \A page \in 0..files'[g].num_pages - 1 :
                           \E k \in DOMAIN files'[g].extents :
                             page \in PagesOf(files'[g].extents[k])
    BY DEF EveryPageLocated, PagesOf
  <2>1. CASE g # f
    BY <1>1, <1>3, <2>1 DEF EveryPageLocated
  <2>2. CASE g = f
    <3>1. /\ \A k \in 1..last - 1 :
               PagesOf(files[f].extents[k]) \subseteq 0..files[f].num_pages - 1
          /\ \A k, l \in 1..last - 1 : k # l =>
               PagesOf(files[f].extents[k]) \cap PagesOf(files[f].extents[l]) = {}
          /\ \A page \in 0..files[f].num_pages - 1 :
               \E k \in 1..last - 1 : page \in PagesOf(files[f].extents[k])
      BY <1>1, <1>4 DEF EveryPageLocated, old
    <3>2. PagesOf(added) = files[f].num_pages..files[f].num_pages + n - 1
      BY <1>4 DEF PagesOf, added
    <3> DEFINE pages(k) == PagesOf(files'[f].extents[k])
               N == files[f].num_pages
    <3>3. \A k \in 1..last : k \in 1..last - 1 \/ k = last
      BY <1>4
    <3>4. /\ \A k \in 1..last - 1 : pages(k) = PagesOf(files[f].extents[k])
          /\ pages(last) = N..N + n - 1
      BY <1>6, <3>2
    <3>5. files'[f].num_pages = N + n /\ N \in Nat
      BY <1>4, <1>6
    <3> HIDE DEF pages, N
    <3>6. 0..N - 1 \subseteq 0..N + n - 1 /\ N..N + n - 1 \subseteq 0..N + n - 1
      BY <3>5
    <3>7. \A page \in 0..N + n - 1 : page \in 0..N - 1 \/ page \in N..N + n - 1
      BY <3>5
    <3>8. (0..N - 1) \cap (N..N + n - 1) = {}
      BY <3>5
    <3>9. \A k \in 1..last - 1 : pages(k) \subseteq 0..N - 1
      BY <3>1, <3>4 DEF N
    <3>10. \A k \in 1..last : pages(k) \subseteq 0..N + n - 1
      BY <3>3, <3>4, <3>6, <3>9
    <3>11. \A k, l \in 1..last : k # l => pages(k) \cap pages(l) = {}
      BY <3>1, <3>3, <3>4, <3>8, <3>9
    <3>12. \A page \in 0..N + n - 1 : \E k \in 1..last : page \in pages(k)
      <4>1. last \in Nat /\ last - 1 \in Nat
        BY <1>4
      <4>2. last \in 1..last /\ \A k \in 1..last - 1 : k \in 1..last
        BY <4>1
      <4>3. ASSUME NEW page \in 0..N - 1
            PROVE  \E k \in 1..last : page \in pages(k)
        BY <3>1, <3>4, <4>2 DEF N
      <4>4. ASSUME NEW page \in N..N + n - 1
            PROVE  \E k \in 1..last : page \in pages(k)
        BY <3>4, <4>2
      <4> QED BY <3>7, <4>3, <4>4
    <3>13. DOMAIN files'[f].extents = 1..last
      BY <1>6
    <3>14. /\ \A k \in DOMAIN files'[f].extents : pages(k) \subseteq 0..files'[f].num_pages - 1
           /\ \A k, l \in DOMAIN files'[f].extents : k # l => pages(k) \cap pages(l) = {}
           /\ \A page \in 0..files'[f].num_pages - 1 :
                \E k \in DOMAIN files'[f].extents : page \in pages(k)
      <4>1. files'[f].num_pages - 1 = N + n - 1
        BY <3>5
      <4>2. \A k \in DOMAIN files'[f].extents : pages(k) \subseteq 0..files'[f].num_pages - 1
        BY <3>10, <3>13, <4>1, Zenon
      <4>3. \A k, l \in DOMAIN files'[f].extents : k # l => pages(k) \cap pages(l) = {}
        BY <3>11, <3>13, Zenon
      <4>4. \A page \in 0..files'[f].num_pages - 1 :
              \E k \in DOMAIN files'[f].extents : page \in pages(k)
        BY <3>12, <3>13, <4>1, Zenon
      <4> QED BY <4>2, <4>3, <4>4
    <3> QED BY <2>2, <3>14 DEF pages
  <2> QED BY <2>1, <2>2
<1>14. AnonStart <= start /\ start + n <= RegionEnd'
  BY <1>2 DEF Carved
<1> QED BY <1>3, <1>6, <1>9, <1>10, <1>11, <1>12, <1>13, <1>14

-----------------------------------------------------------------------------
(* Pages and blocks *)

\* A run of pages is a sequence of at least one page.
LEMMA PageRunIsSeq ==
  ASSUME NEW data \in PageRuns
  PROVE  data \in Seq(Pages) /\ Len(data) \in 1..MaxExtent /\ Len(data) \in Nat \ {0}
         /\ data \in [1..Len(data) -> Pages]
<1>1. PICK n \in 1..MaxExtent : data \in [1..n -> Pages]
  BY DEF PageRuns
<1>2. n \in Nat \ {0}
  BY <1>1, StorageAssumption
<1> QED BY <1>1, <1>2, FunctionIsSeq

\* locate_extent finds an extent of the file that holds the page.
LEMMA LocateExtentFinds ==
  ASSUME EveryPageLocated, NEW f \in DOMAIN files, NEW page \in 0..files[f].num_pages - 1
  PROVE  \E k \in DOMAIN files[f].extents :
           LocateExtent(f, page) = files[f].extents[k] /\ page \in PagesOf(files[f].extents[k])
  BY DEF EveryPageLocated, LocateExtent, ExtentWith

\* A read or a write inside one extent touches only blocks of that extent.
LEMMA WriteStaysInExtent ==
  ASSUME TypeOK, EveryPageLocated, NEW f \in DOMAIN files,
         NEW page \in 0..files[f].num_pages - 1, NEW n \in Nat \ {0}, InOneExtent(f, page, n)
  PROVE  \E k \in DOMAIN files[f].extents :
           /\ LocateExtent(f, page) = files[f].extents[k]
           /\ BlockOf(f, page) \in Nat
           /\ BlockOf(f, page)..BlockOf(f, page) + n - 1 \subseteq BlocksOf(files[f].extents[k])
<1>1. PICK k \in DOMAIN files[f].extents :
        LocateExtent(f, page) = files[f].extents[k] /\ page \in PagesOf(files[f].extents[k])
  BY LocateExtentFinds
<1> DEFINE e == files[f].extents[k]
<1>2. e.start_block \in Nat /\ e.num_pages \in Nat \ {0} /\ e.first_page \in Nat
  BY <1>1, TypedExtents DEF FileExtent
<1>3. page \in e.first_page..e.first_page + e.num_pages - 1
  BY <1>1 DEF PagesOf
<1>4. /\ BlockOf(f, page) = e.start_block + (page - e.first_page)
      /\ page + n <= e.first_page + e.num_pages
  BY <1>1 DEF BlockOf, InOneExtent
<1>5. BlocksOf(e) = e.start_block..e.start_block + e.num_pages - 1
  BY DEF BlocksOf
<1> HIDE DEF e
<1>6. /\ BlockOf(f, page) \in Nat
      /\ BlockOf(f, page)..BlockOf(f, page) + n - 1 \subseteq BlocksOf(e)
  BY <1>2, <1>3, <1>4, <1>5, SMTT(30)
<1> QED BY <1>1, <1>6 DEF e

\* Putting pages inside the region in use keeps the disk well typed.
LEMMA PutBlocksKeepsType ==
  ASSUME TypeOK, NEW data \in PageRuns, NEW start \in Nat, PutBlocks(start, data),
         RegionEnd <= RegionEnd', RegionEnd' \in Nat,
         AnonStart <= start, start + Len(data) <= RegionEnd'
  PROVE  DiskTypeOK'
<1>1. Len(data) \in Nat \ {0} /\ data \in [1..Len(data) -> Pages] /\ RegionEnd \in Nat
      /\ AnonStart \in Nat
  BY PageRunIsSeq, TypedExtents
<1> DEFINE written == start..start + Len(data) - 1
<1>2. DOMAIN anon_pages \subseteq AnonStart..RegionEnd - 1
  BY DEF TypeOK, DiskTypeOK
<1>3. DOMAIN anon_pages \subseteq AnonStart..RegionEnd' - 1
  BY <1>1, <1>2, IntervalGrows
<1>4. written \subseteq AnonStart..RegionEnd' - 1
  BY <1>1
<1>5. \A b \in written : b - start + 1 \in 1..Len(data)
  BY <1>1
<1>6. \A b \in DOMAIN anon_pages : anon_pages[b] \in Pages
  BY DEF TypeOK, DiskTypeOK
<1>7. /\ DOMAIN anon_pages' = DOMAIN anon_pages \cup written
      /\ anon_pages' \in [DOMAIN anon_pages \cup written -> Pages]
  BY <1>1, <1>5, <1>6 DEF PutBlocks
<1> QED BY <1>3, <1>4, <1>7 DEF DiskTypeOK

-----------------------------------------------------------------------------
(* The invariant, one operation at a time *)

LEMMA InitEstablishes ==
  Init => StorageInv
<1> SUFFICES ASSUME Init PROVE StorageInv
  OBVIOUS
<1> USE DEF Init
<1>1. RegionEnd = AnonStart
  BY DEF RegionEnd
<1>2. DOMAIN files = {} /\ DOMAIN free_extents = {} /\ DOMAIN anon_pages = {}
  OBVIOUS
<1>3. free_extents \in Seq(FreeExtent)
  BY EmptySeq
<1>4. TypeOK
  BY <1>1, <1>2, <1>3, StorageAssumption DEF TypeOK, ManagerTypeOK, DiskTypeOK
<1>5. NoBlockSharedTwice /\ EveryPageLocated
  BY <1>2 DEF NoBlockSharedTwice, FreeExtentsApart, FileExtentsApart, FilesApartFromFree,
              EveryPageLocated
<1>6. NoBlockLost
  BY <1>1, <1>2, StorageAssumption DEF NoBlockLost, ExtentsWithinRegion, EveryBlockHeld
<1> QED BY <1>4, <1>5, <1>6 DEF StorageInv

LEMMA CreateTempFileKeeps ==
  ASSUME StorageInv, CreateTempFile
  PROVE  StorageInv'
<1>1. /\ ManagerTypeOK /\ DiskTypeOK /\ NoBlockSharedTwice /\ NoBlockLost /\ EveryPageLocated
  BY DEF StorageInv, TypeOK
<1> DEFINE id == next_file_id
<1>2. /\ next_file_id' = id + 1 /\ id \in Nat /\ id \notin DOMAIN files
      /\ DOMAIN files' = DOMAIN files \cup {id}
      /\ files'[id] = [extents |-> << >>, num_pages |-> 0]
      /\ \A g \in DOMAIN files : files'[g] = files[g]
      /\ files' = [g \in DOMAIN files' |-> files'[g]]
      /\ UNCHANGED <<next_free_block, free_extents, anon_pages>>
      /\ RegionEnd' = RegionEnd
  BY <1>1 DEF CreateTempFile, ManagerTypeOK, RegionEnd
<1>3. DOMAIN files'[id].extents = {} /\ files'[id] \in TempFileMeta
      /\ 0..files'[id].num_pages - 1 = {}
  BY <1>2, EmptySeq DEF TempFileMeta
<1> HIDE DEF id
<1>4. \A g \in DOMAIN files' : \A k \in DOMAIN files'[g].extents :
        g \in DOMAIN files /\ files'[g] = files[g]
  BY <1>2, <1>3
<1>5. ManagerTypeOK'
  <2>1. \A g \in DOMAIN files' : files'[g] \in TempFileMeta
    BY <1>1, <1>2, <1>3 DEF ManagerTypeOK
  <2>2. files' \in [DOMAIN files' -> TempFileMeta]
    BY <1>2, <2>1
  <2>3. /\ next_file_id' \in Nat
        /\ DOMAIN files' \subseteq 0..next_file_id' - 1
    <3>1. 0..id - 1 \subseteq 0..id /\ id \in 0..id /\ id + 1 - 1 = id
      BY <1>2
    <3>2. DOMAIN files \subseteq 0..id - 1
      BY <1>1 DEF ManagerTypeOK, id
    <3> QED BY <1>2, <3>1, <3>2
  <2>4. /\ next_free_block' \in Nat \cup {None}
        /\ RegionEnd' \in AnonStart..MaxBlock
        /\ free_extents' \in Seq(FreeExtent)
    BY <1>1, <1>2 DEF ManagerTypeOK
  <2> QED BY <2>2, <2>3, <2>4 DEF ManagerTypeOK
<1>6. DiskTypeOK'
  BY <1>1, <1>2 DEF DiskTypeOK
<1>7. NoBlockSharedTwice'
  BY <1>1, <1>2, <1>4 DEF NoBlockSharedTwice, FreeExtentsApart, FileExtentsApart,
                          FilesApartFromFree, Apart, BlocksOf
<1>8. NoBlockLost'
  BY <1>1, <1>2, <1>4 DEF NoBlockLost, ExtentsWithinRegion, EveryBlockHeld, WithinRegion, BlocksOf
<1>9. EveryPageLocated'
  <2> SUFFICES ASSUME NEW g \in DOMAIN files'
               PROVE  /\ \A k \in DOMAIN files'[g].extents :
                           PagesOf(files'[g].extents[k]) \subseteq 0..files'[g].num_pages - 1
                      /\ \A k, l \in DOMAIN files'[g].extents : k # l =>
                           PagesOf(files'[g].extents[k]) \cap PagesOf(files'[g].extents[l]) = {}
                      /\ \A page \in 0..files'[g].num_pages - 1 :
                           \E k \in DOMAIN files'[g].extents :
                             page \in PagesOf(files'[g].extents[k])
    BY DEF EveryPageLocated, PagesOf
  <2>1. CASE g = id
    BY <1>3, <2>1
  <2>2. CASE g \in DOMAIN files
    BY <1>1, <1>2, <2>2 DEF EveryPageLocated
  <2> QED BY <1>2, <2>1, <2>2
<1> QED BY <1>5, <1>6, <1>7, <1>8, <1>9 DEF StorageInv, TypeOK

LEMMA WritePagesKeeps ==
  ASSUME StorageInv, NEW f \in DOMAIN files, NEW data \in PageRuns,
         NEW page \in 0..files[f].num_pages, WritePages(f, page, data)
  PROVE  StorageInv'
<1>1. /\ TypeOK /\ ManagerTypeOK /\ NoBlockSharedTwice /\ NoBlockLost /\ EveryPageLocated
  BY DEF StorageInv, TypeOK
<1>2. UNCHANGED <<next_file_id, next_free_block, files, free_extents>>
      /\ RegionEnd' = RegionEnd /\ RegionEnd \in Nat /\ AnonStart \in Nat
  BY <1>1, TypedExtents DEF WritePages, RegionEnd
<1>3. page \in 0..files[f].num_pages - 1 /\ Len(data) \in Nat \ {0}
  BY <1>1, PageRunIsSeq DEF WritePages, ManagerTypeOK, TempFileMeta
<1>4. PICK k \in DOMAIN files[f].extents :
        /\ BlockOf(f, page) \in Nat
        /\ BlockOf(f, page)..BlockOf(f, page) + Len(data) - 1 \subseteq BlocksOf(files[f].extents[k])
  BY <1>1, <1>3, WriteStaysInExtent DEF WritePages
<1>5. BlocksOf(files[f].extents[k]) \subseteq AnonStart..RegionEnd - 1
  BY <1>1 DEF NoBlockLost, ExtentsWithinRegion, WithinRegion
<1>6. AnonStart <= BlockOf(f, page) /\ BlockOf(f, page) + Len(data) <= RegionEnd
  <2>1. \A b \in BlockOf(f, page)..BlockOf(f, page) + Len(data) - 1 :
          b \in AnonStart..RegionEnd - 1
    BY <1>4, <1>5
  <2>2. /\ BlockOf(f, page) \in BlockOf(f, page)..BlockOf(f, page) + Len(data) - 1
        /\ BlockOf(f, page) + Len(data) - 1 \in
             BlockOf(f, page)..BlockOf(f, page) + Len(data) - 1
    BY <1>3, <1>4
  <2>3. /\ BlockOf(f, page) \in AnonStart..RegionEnd - 1
        /\ BlockOf(f, page) + Len(data) - 1 \in AnonStart..RegionEnd - 1
    BY <2>1, <2>2
  <2> QED BY <1>2, <1>3, <1>4, <2>3
<1>7. DiskTypeOK'
  BY <1>1, <1>2, <1>4, <1>6, PutBlocksKeepsType DEF WritePages
<1>8. ManagerTypeOK' /\ NoBlockSharedTwice' /\ NoBlockLost' /\ EveryPageLocated'
  BY <1>1, <1>2 DEF ManagerTypeOK, NoBlockSharedTwice, FreeExtentsApart, FileExtentsApart,
     FilesApartFromFree, NoBlockLost, ExtentsWithinRegion, EveryBlockHeld, EveryPageLocated,
     WithinRegion, Apart, BlocksOf, PagesOf
<1> QED BY <1>7, <1>8 DEF StorageInv, TypeOK

LEMMA AllocatePageKeeps ==
  ASSUME StorageInv, NEW f \in DOMAIN files, AllocatePage(f)
  PROVE  StorageInv'
<1>1. PICK start \in AnonStart..MaxBlock : AllocateExtent(f, 1, start)
  BY DEF AllocatePage
<1>2. start \in Nat /\ next_file_id' = next_file_id /\ anon_pages' = anon_pages
  BY StorageAssumption DEF AllocatePage
<1>3. /\ ManagerTypeOK' /\ NoBlockSharedTwice' /\ NoBlockLost' /\ EveryPageLocated'
      /\ RegionEnd <= RegionEnd' /\ RegionEnd' \in Nat
  BY <1>1, <1>2, AllocateExtentKeepsLayout, SMTT(30)
<1>4. DiskTypeOK'
  <2>1. RegionEnd \in Nat /\ AnonStart \in Nat /\ DiskTypeOK
    BY TypedExtents DEF StorageInv, TypeOK
  <2> QED BY <1>2, <1>3, <2>1, IntervalGrows DEF DiskTypeOK
<1> QED BY <1>3, <1>4 DEF StorageInv, TypeOK

LEMMA FlushPendingPagesKeeps ==
  ASSUME StorageInv, NEW f \in DOMAIN files, NEW data \in PageRuns, FlushPendingPages(f, data)
  PROVE  StorageInv'
<1>1. PICK start \in AnonStart..MaxBlock :
        AllocateExtent(f, Len(data), start) /\ PutBlocks(start, data)
  BY DEF FlushPendingPages
<1>2. start \in Nat /\ next_file_id' = next_file_id /\ Len(data) \in Nat \ {0}
  BY StorageAssumption, PageRunIsSeq DEF FlushPendingPages
<1>3. /\ ManagerTypeOK' /\ NoBlockSharedTwice' /\ NoBlockLost' /\ EveryPageLocated'
      /\ RegionEnd <= RegionEnd' /\ RegionEnd' \in Nat
      /\ AnonStart <= start /\ start + Len(data) <= RegionEnd'
  BY <1>1, <1>2, AllocateExtentKeepsLayout
<1>4. DiskTypeOK'
  BY <1>1, <1>2, <1>3, PutBlocksKeepsType DEF StorageInv
<1> QED BY <1>3, <1>4 DEF StorageInv, TypeOK

\* A deletion moves the file's extents, in order, to the end of the free list.
LEMMA DeleteTempFileKeeps ==
  ASSUME StorageInv, NEW f \in DOMAIN files, DeleteTempFile(f)
  PROVE  StorageInv'
<1> DEFINE old == files[f].extents
           len == Len(free_extents)
           freed == Freed(old)
<1>1. /\ TypeOK /\ ManagerTypeOK /\ DiskTypeOK
      /\ NoBlockSharedTwice /\ NoBlockLost /\ EveryPageLocated
  BY DEF StorageInv, TypeOK
<1>2. /\ DOMAIN files' = DOMAIN files \ {f}
      /\ \A g \in DOMAIN files' : files'[g] = files[g]
      /\ files' = [g \in DOMAIN files' |-> files[g]]
      /\ free_extents' = free_extents \o freed
      /\ UNCHANGED <<next_file_id, next_free_block, anon_pages>>
      /\ RegionEnd' = RegionEnd
  BY DEF DeleteTempFile, RegionEnd
<1>3. /\ DOMAIN free_extents = 1..len /\ len \in Nat
      /\ DOMAIN old = 1..Len(old) /\ Len(old) \in Nat
      /\ \A k \in DOMAIN old : old[k] \in FileExtent /\ Extent(old[k])
      /\ RegionEnd \in Nat /\ AnonStart \in Nat
  BY <1>1, TypedExtents
<1>4. /\ freed \in Seq(FreeExtent) /\ Len(freed) = Len(old)
      /\ \A k \in DOMAIN old : BlocksOf(freed[k]) = BlocksOf(old[k])
  <2>1. /\ freed \in [1..Len(old) -> FreeExtent]
        /\ \A k \in 1..Len(old) : freed[k] = [start_block |-> old[k].start_block,
                                              num_pages   |-> old[k].num_pages]
    BY <1>3 DEF Freed, FreeExtent, FileExtent
  <2>2. freed \in Seq(FreeExtent) /\ Len(freed) = Len(old)
    BY <1>3, <2>1, FunctionIsSeq
  <2>3. \A k \in 1..Len(old) : /\ freed[k].start_block = old[k].start_block
                               /\ freed[k].num_pages = old[k].num_pages
    BY DEF Freed
  <2>4. \A k \in 1..Len(old) : BlocksOf(freed[k]) = BlocksOf(old[k])
    BY <2>3 DEF BlocksOf
  <2>5. DOMAIN old = 1..Len(old)
    BY <1>3
  <2> HIDE DEF old, freed
  <2> QED BY <2>2, <2>4, <2>5
<1>5. /\ free_extents' \in Seq(FreeExtent)
      /\ DOMAIN free_extents' = 1..len + Len(old)
      /\ \A i \in 1..len : free_extents'[i] = free_extents[i]
      /\ \A k \in 1..Len(old) : free_extents'[len + k] = freed[k]
  <2>1. free_extents \in Seq(FreeExtent)
    BY <1>1 DEF ManagerTypeOK
  <2>2. /\ free_extents \o freed \in Seq(FreeExtent)
        /\ Len(free_extents \o freed) = len + Len(freed)
        /\ \A i \in 1..len + Len(freed) :
             (free_extents \o freed)[i] = IF i <= len THEN free_extents[i] ELSE freed[i - len]
    BY <2>1, <1>4, ConcatProperties
  <2>3. DOMAIN free_extents' = 1..len + Len(old)
    BY <1>2, <1>4, <2>2, LenProperties
  <2>4. \A i \in 1..len : free_extents'[i] = free_extents[i]
    BY <1>2, <1>3, <1>4, <2>2
  <2>5. ASSUME NEW k \in 1..Len(old)
        PROVE  free_extents'[len + k] = freed[k]
    <3>1. len + k \in 1..len + Len(old) /\ ~(len + k <= len) /\ (len + k) - len = k
      BY <1>3
    <3> QED BY <1>2, <1>4, <2>2, <3>1
  <2> QED BY <1>2, <2>2, <2>3, <2>4, <2>5
<1> HIDE DEF old, freed, len
\* Every free extent after the step was free before, or was the file's.
<1>6. \A i \in DOMAIN free_extents' :
        \/ /\ i \in DOMAIN free_extents /\ free_extents'[i] = free_extents[i]
        \/ /\ i - len \in DOMAIN old
           /\ BlocksOf(free_extents'[i]) = BlocksOf(old[i - len])
  <2> SUFFICES ASSUME NEW i \in DOMAIN free_extents', i \notin DOMAIN free_extents
               PROVE  i - len \in DOMAIN old /\ BlocksOf(free_extents'[i]) = BlocksOf(old[i - len])
    BY <1>3, <1>5
  <2>1. i - len \in 1..Len(old) /\ len + (i - len) = i
    BY <1>3, <1>5
  <2> QED BY <1>3, <1>4, <1>5, <2>1
<1>7. ManagerTypeOK'
  <2>1. files' \in [DOMAIN files' -> TempFileMeta]
    BY <1>1, <1>2 DEF ManagerTypeOK
  <2> QED BY <1>1, <1>2, <1>5, <2>1 DEF ManagerTypeOK
<1>8. DiskTypeOK'
  BY <1>1, <1>2 DEF DiskTypeOK
<1>9. FreeExtentsApart'
  <2> SUFFICES ASSUME NEW i \in DOMAIN free_extents', NEW j \in DOMAIN free_extents', i # j
               PROVE  Apart(free_extents'[i], free_extents'[j])
    BY DEF FreeExtentsApart, Apart, BlocksOf
  <2>1. CASE /\ i \in DOMAIN free_extents /\ free_extents'[i] = free_extents[i]
             /\ j \in DOMAIN free_extents /\ free_extents'[j] = free_extents[j]
    BY <1>1, <2>1 DEF NoBlockSharedTwice, FreeExtentsApart
  <2>2. CASE /\ i \in DOMAIN free_extents /\ free_extents'[i] = free_extents[i]
             /\ j - len \in DOMAIN old /\ BlocksOf(free_extents'[j]) = BlocksOf(old[j - len])
    BY <1>1, <2>2 DEF NoBlockSharedTwice, FilesApartFromFree, Apart, old
  <2>3. CASE /\ j \in DOMAIN free_extents /\ free_extents'[j] = free_extents[j]
             /\ i - len \in DOMAIN old /\ BlocksOf(free_extents'[i]) = BlocksOf(old[i - len])
    BY <1>1, <2>3 DEF NoBlockSharedTwice, FilesApartFromFree, Apart, old
  <2>4. CASE /\ i - len \in DOMAIN old /\ BlocksOf(free_extents'[i]) = BlocksOf(old[i - len])
             /\ j - len \in DOMAIN old /\ BlocksOf(free_extents'[j]) = BlocksOf(old[j - len])
    <3>1. i - len # j - len
      BY <1>3, <1>5
    <3>2. <<f, i - len>> # <<f, j - len>>
      BY <3>1
    <3>3. Apart(old[i - len], old[j - len])
      BY <1>1, <2>4, <3>2 DEF NoBlockSharedTwice, FileExtentsApart, old
    <3> QED BY <2>4, <3>3 DEF Apart
  <2> QED BY <1>6, <2>1, <2>2, <2>3, <2>4
<1>10. FilesApartFromFree'
  <2> SUFFICES ASSUME NEW g \in DOMAIN files', NEW k \in DOMAIN files[g].extents,
                      NEW i \in DOMAIN free_extents'
               PROVE  Apart(files[g].extents[k], free_extents'[i])
    BY <1>2 DEF FilesApartFromFree, Apart, BlocksOf
  <2>1. g \in DOMAIN files /\ g # f
    BY <1>2
  <2>2. CASE i \in DOMAIN free_extents /\ free_extents'[i] = free_extents[i]
    BY <1>1, <2>1, <2>2 DEF NoBlockSharedTwice, FilesApartFromFree
  <2>3. CASE i - len \in DOMAIN old /\ BlocksOf(free_extents'[i]) = BlocksOf(old[i - len])
    <3>1. <<g, k>> # <<f, i - len>>
      BY <2>1
    <3>2. Apart(files[g].extents[k], old[i - len])
      BY <1>1, <2>1, <2>3, <3>1 DEF NoBlockSharedTwice, FileExtentsApart, old
    <3> QED BY <2>3, <3>2 DEF Apart
  <2> QED BY <1>6, <2>2, <2>3
<1>11. FileExtentsApart'
  BY <1>1, <1>2 DEF NoBlockSharedTwice, FileExtentsApart, Apart, BlocksOf
<1>12. ExtentsWithinRegion'
  <2>1. ASSUME NEW i \in DOMAIN free_extents'
        PROVE  BlocksOf(free_extents'[i]) \subseteq AnonStart..RegionEnd' - 1
    BY <1>1, <1>2, <1>6 DEF NoBlockLost, ExtentsWithinRegion, WithinRegion, old
  <2>2. ASSUME NEW g \in DOMAIN files', NEW k \in DOMAIN files'[g].extents
        PROVE  BlocksOf(files'[g].extents[k]) \subseteq AnonStart..RegionEnd' - 1
    BY <1>1, <1>2 DEF NoBlockLost, ExtentsWithinRegion, WithinRegion
  <2> QED BY <2>1, <2>2 DEF ExtentsWithinRegion, WithinRegion, BlocksOf
<1>13. EveryBlockHeld'
  <2> SUFFICES ASSUME NEW b \in AnonStart..RegionEnd' - 1
               PROVE  \/ \E i \in DOMAIN free_extents' : b \in BlocksOf(free_extents'[i])
                      \/ \E g \in DOMAIN files' : \E k \in DOMAIN files'[g].extents :
                           b \in BlocksOf(files'[g].extents[k])
    BY DEF EveryBlockHeld, BlocksOf
  <2>1. ASSUME NEW i \in DOMAIN free_extents, b \in BlocksOf(free_extents[i])
        PROVE  \E j \in DOMAIN free_extents' : b \in BlocksOf(free_extents'[j])
    BY <1>3, <1>5, <2>1
  <2>2. ASSUME NEW k \in DOMAIN old, b \in BlocksOf(old[k])
        PROVE  \E j \in DOMAIN free_extents' : b \in BlocksOf(free_extents'[j])
    <3>1. len + k \in DOMAIN free_extents' /\ BlocksOf(free_extents'[len + k]) = BlocksOf(old[k])
      BY <1>3, <1>4, <1>5
    <3> QED BY <2>2, <3>1
  <2> QED BY <1>1, <1>2, <2>1, <2>2 DEF NoBlockLost, EveryBlockHeld, old
<1>14. EveryPageLocated'
  BY <1>1, <1>2 DEF EveryPageLocated, PagesOf
<1> QED
  BY <1>7, <1>8, <1>9, <1>10, <1>11, <1>12, <1>13, <1>14
  DEF StorageInv, TypeOK, NoBlockSharedTwice, NoBlockLost

LEMMA StepKeeps ==
  StorageInv /\ [Next]_storageVars => StorageInv'
<1> SUFFICES ASSUME StorageInv, [Next]_storageVars PROVE StorageInv'
  OBVIOUS
<1>1. CASE CreateTempFile
  BY <1>1, CreateTempFileKeeps
<1>2. ASSUME NEW f \in DOMAIN files, DeleteTempFile(f) PROVE StorageInv'
  BY <1>2, DeleteTempFileKeeps
<1>3. ASSUME NEW f \in DOMAIN files, AllocatePage(f) PROVE StorageInv'
  BY <1>3, AllocatePageKeeps
<1>4. ASSUME NEW f \in DOMAIN files, NEW data \in PageRuns, FlushPendingPages(f, data)
      PROVE  StorageInv'
  BY <1>4, FlushPendingPagesKeeps
<1>5. ASSUME NEW f \in DOMAIN files, NEW data \in PageRuns,
             NEW page \in 0..files[f].num_pages, WritePages(f, page, data)
      PROVE  StorageInv'
  BY <1>5, WritePagesKeeps
<1>6. CASE UNCHANGED storageVars
  BY <1>6 DEF storageVars, StorageInv, TypeOK, ManagerTypeOK, DiskTypeOK, RegionEnd,
     NoBlockSharedTwice, FreeExtentsApart, FileExtentsApart, FilesApartFromFree, Apart,
     NoBlockLost, ExtentsWithinRegion, EveryBlockHeld, WithinRegion, BlocksOf,
     EveryPageLocated, PagesOf
<1> QED BY <1>1, <1>2, <1>3, <1>4, <1>5, <1>6 DEF Next

\* The four invariants hold together in every reachable state.
THEOREM StorageInvariant == Spec => []StorageInv
<1>1. Init => StorageInv
  BY InitEstablishes
<1>2. StorageInv /\ [Next]_storageVars => StorageInv'
  BY StepKeeps
<1> QED BY <1>1, <1>2, PTL DEF Spec

\* Type correctness of temp_storage.rs's manager, whatever its callers do.
THEOREM TypeCorrect == Spec => []TypeOK
<1>1. StorageInv => TypeOK
  BY DEF StorageInv
<1> QED BY <1>1, StorageInvariant, PTL

\* allocate_extent and delete_temp_file never hand one block to two owners.
THEOREM NoSharing == Spec => []NoBlockSharedTwice
<1>1. StorageInv => NoBlockSharedTwice
  BY DEF StorageInv
<1> QED BY <1>1, StorageInvariant, PTL

\* Best-fit splitting and deletion never lose a block of the region.
THEOREM NoLoss == Spec => []NoBlockLost
<1>1. StorageInv => NoBlockLost
  BY DEF StorageInv
<1> QED BY <1>1, StorageInvariant, PTL

\* locate_extent finds exactly one extent for each page of a live file.
THEOREM PagesLocated == Spec => []EveryPageLocated
<1>1. StorageInv => EveryPageLocated
  BY DEF StorageInv
<1> QED BY <1>1, StorageInvariant, PTL

-----------------------------------------------------------------------------
(* Refinement: TempStorage implements PageStore *)

\* Where page ranges are disjoint, the extent that holds a page is the one found.
LEMMA ExtentWithUnique ==
  ASSUME NEW extents, NEW k \in DOMAIN extents, NEW page \in PagesOf(extents[k]),
         \A i, j \in DOMAIN extents :
           i # j => PagesOf(extents[i]) \cap PagesOf(extents[j]) = {}
  PROVE  ExtentWith(extents, page) = extents[k]
  BY DEF ExtentWith

\* The block of a page lies in the extent of the page, at the page's offset.
LEMMA BlockOfPage ==
  ASSUME StorageInv, NEW f \in DOMAIN files, NEW page \in 0..files[f].num_pages - 1
  PROVE  \E k \in DOMAIN files[f].extents :
           /\ page \in PagesOf(files[f].extents[k])
           /\ LocateExtent(f, page) = files[f].extents[k]
           /\ BlockOf(f, page) = files[f].extents[k].start_block
                                 + (page - files[f].extents[k].first_page)
           /\ BlockOf(f, page) \in BlocksOf(files[f].extents[k])
<1>1. PICK k \in DOMAIN files[f].extents :
        LocateExtent(f, page) = files[f].extents[k] /\ page \in PagesOf(files[f].extents[k])
  BY LocateExtentFinds DEF StorageInv
<1> DEFINE e == files[f].extents[k]
<1>2. e.start_block \in Nat /\ e.num_pages \in Nat \ {0} /\ e.first_page \in Nat
  BY <1>1, TypedExtents DEF FileExtent, StorageInv
<1>3. BlockOf(f, page) = e.start_block + (page - e.first_page)
  BY <1>1 DEF BlockOf
<1>4. page \in e.first_page..e.first_page + e.num_pages - 1
  BY <1>1 DEF PagesOf
<1>5. BlocksOf(e) = e.start_block..e.start_block + e.num_pages - 1
  BY DEF BlocksOf
<1> HIDE DEF e
<1>6. e.start_block + (page - e.first_page) \in e.start_block..e.start_block + e.num_pages - 1
  BY <1>2, <1>4
<1>7. BlockOf(f, page) \in BlocksOf(e)
  BY <1>3, <1>5, <1>6
<1> QED BY <1>1, <1>3, <1>7 DEF e

\* Different pages, of one file or of two, are in different blocks.
LEMMA BlocksOfPagesDiffer ==
  ASSUME StorageInv,
         NEW f \in DOMAIN files, NEW page \in 0..files[f].num_pages - 1,
         NEW g \in DOMAIN files, NEW other \in 0..files[g].num_pages - 1,
         BlockOf(f, page) = BlockOf(g, other)
  PROVE  f = g /\ page = other
<1>1. PICK k \in DOMAIN files[f].extents :
        /\ page \in PagesOf(files[f].extents[k])
        /\ BlockOf(f, page) = files[f].extents[k].start_block
                              + (page - files[f].extents[k].first_page)
        /\ BlockOf(f, page) \in BlocksOf(files[f].extents[k])
  BY BlockOfPage
<1>2. PICK l \in DOMAIN files[g].extents :
        /\ other \in PagesOf(files[g].extents[l])
        /\ BlockOf(g, other) = files[g].extents[l].start_block
                               + (other - files[g].extents[l].first_page)
        /\ BlockOf(g, other) \in BlocksOf(files[g].extents[l])
  BY BlockOfPage
<1>3. <<f, k>> = <<g, l>>
  BY <1>1, <1>2 DEF StorageInv, NoBlockSharedTwice, FileExtentsApart, Apart
<1>4. f = g /\ k = l
  BY <1>3
<1> DEFINE e == files[f].extents[k]
<1>5. e.start_block \in Nat /\ e.first_page \in Nat
  BY <1>1, TypedExtents DEF FileExtent, StorageInv
<1>6. page \in Int /\ other \in Int
  OBVIOUS
<1>7. e.start_block + (page - e.first_page) = e.start_block + (other - e.first_page)
  BY <1>1, <1>2, <1>4
<1> HIDE DEF e
<1>8. page = other
  BY <1>5, <1>6, <1>7
<1> QED BY <1>4, <1>8

\* A file whose extents are kept, or only added to, keeps the blocks of its pages.
LEMMA BlockKept ==
  ASSUME StorageInv, StorageInv', NEW f \in DOMAIN files, f \in DOMAIN files',
         \A k \in DOMAIN files[f].extents :
           k \in DOMAIN files'[f].extents /\ files'[f].extents[k] = files[f].extents[k],
         NEW page \in 0..files[f].num_pages - 1
  PROVE  BlockOf(f, page)' = BlockOf(f, page)
<1>1. PICK k \in DOMAIN files[f].extents :
        /\ page \in PagesOf(files[f].extents[k])
        /\ LocateExtent(f, page) = files[f].extents[k]
  BY BlockOfPage
<1>2. k \in DOMAIN files'[f].extents /\ page \in PagesOf(files'[f].extents[k])
  BY <1>1
<1>3. \A i, j \in DOMAIN files'[f].extents :
        i # j => PagesOf(files'[f].extents[i]) \cap PagesOf(files'[f].extents[j]) = {}
  BY DEF StorageInv, EveryPageLocated, PagesOf
<1>4. ExtentWith(files'[f].extents, page) = files'[f].extents[k]
  BY <1>2, <1>3, ExtentWithUnique
<1>5. LocateExtent(f, page)' = LocateExtent(f, page)
  BY <1>1, <1>4 DEF LocateExtent, ExtentWith, PagesOf
<1> QED BY <1>5 DEF BlockOf

Held == Pages \cup {Unwritten}

LEMMA ContentHeld ==
  ASSUME StorageInv
  PROVE  \A b : ContentOf(b) \in Held
  BY DEF StorageInv, TypeOK, DiskTypeOK, ContentOf, Held

\* The pages of a live file, as a sequence.
LEMMA StoredPagesIsSeq ==
  ASSUME StorageInv, NEW f \in DOMAIN files
  PROVE  /\ StoredPages(f) \in Seq(Held)
         /\ Len(StoredPages(f)) = files[f].num_pages
         /\ DOMAIN StoredPages(f) = 1..files[f].num_pages
         /\ files[f].num_pages \in Nat
<1>1. files[f].num_pages \in Nat
  BY TypedExtents DEF TempFileMeta, StorageInv
<1>2. StoredPages(f) \in [1..files[f].num_pages -> Held]
  BY ContentHeld DEF StoredPages
<1> QED BY <1>1, <1>2, FunctionIsSeq

\* A file is unchanged when its pages are in the same blocks and those are not put.
LEMMA StoredPagesKept ==
  ASSUME NEW f \in DOMAIN files, files'[f].num_pages = files[f].num_pages,
         files[f].num_pages \in Nat,
         \A page \in 0..files[f].num_pages - 1 :
           ContentOf(BlockOf(f, page))' = ContentOf(BlockOf(f, page))
  PROVE  StoredPages(f)' = StoredPages(f)
<1>1. \A i \in 1..files[f].num_pages : i - 1 \in 0..files[f].num_pages - 1
  OBVIOUS
<1>2. \A i \in 1..files[f].num_pages :
        ContentOf(BlockOf(f, i - 1))' = ContentOf(BlockOf(f, i - 1))
  BY <1>1
<1> QED BY <1>2 DEF StoredPages

LEMMA CreateTempFileRefines ==
  ASSUME StorageInv, StorageInv', CreateTempFile
  PROVE  \E f \in 0..MaxFiles - 1 : Abstract!Create(f)
<1>0. PICK id \in 0..MaxFiles - 1 : id = next_file_id
  BY StorageAssumption DEF CreateTempFile, StorageInv, TypeOK, ManagerTypeOK
<1>1. /\ id \notin DOMAIN files
      /\ DOMAIN files' = DOMAIN files \cup {id}
      /\ files'[id] = [extents |-> << >>, num_pages |-> 0]
      /\ \A g \in DOMAIN files : files'[g] = files[g]
      /\ anon_pages' = anon_pages
  BY <1>0 DEF CreateTempFile, StorageInv, TypeOK, ManagerTypeOK
<1>2. ASSUME NEW g \in DOMAIN files
      PROVE  StoredPages(g)' = StoredPages(g)
  BY <1>1 DEF StoredPages, ContentOf, BlockOf, LocateExtent
<1>3. StoredPages(id)' = << >>
  <2>1. id \in DOMAIN files' /\ files'[id].num_pages = 0
    BY <1>1
  <2>2. StoredPages(id)' = [i \in 1..0 |-> ContentOf(BlockOf(id, i - 1))']
    BY <2>1 DEF StoredPages
  <2>3. 1..0 = {}
    OBVIOUS
  <2> QED BY <2>2, <2>3
<1>4. Stored' = [g \in DOMAIN Stored \cup {id} |-> IF g = id THEN << >> ELSE Stored[g]]
  BY <1>1, <1>2, <1>3 DEF Stored
<1>5. id \notin DOMAIN Stored
  BY <1>1 DEF Stored
<1> QED BY <1>1, <1>4, <1>5 DEF Abstract!Create

LEMMA DeleteTempFileRefines ==
  ASSUME StorageInv, NEW f \in DOMAIN files, DeleteTempFile(f)
  PROVE  Abstract!Delete(f)
<1>1. /\ DOMAIN files' = DOMAIN files \ {f}
      /\ \A g \in DOMAIN files' : files'[g] = files[g]
      /\ anon_pages' = anon_pages
  BY DEF DeleteTempFile
<1>2. ASSUME NEW g \in DOMAIN files'
      PROVE  StoredPages(g)' = StoredPages(g)
  BY <1>1 DEF StoredPages, ContentOf, BlockOf, LocateExtent
<1>3. Stored' = [g \in DOMAIN Stored \ {f} |-> Stored[g]]
  BY <1>1, <1>2 DEF Stored
<1>4. f \in DOMAIN Stored
  BY DEF Stored
<1> QED BY <1>3, <1>4 DEF Abstract!Delete

(***************************************************************************)
(* What an allocation leaves of the other pages: every page that was there *)
(* keeps its block, and that block is outside the blocks handed out.       *)
(***************************************************************************)
LEMMA AllocationKeepsPages ==
  ASSUME StorageInv, StorageInv', NEW f \in DOMAIN files, NEW n \in Nat \ {0},
         NEW start \in Nat, AllocateExtent(f, n, start), next_file_id' = next_file_id
  PROVE  /\ \A g \in DOMAIN files : \A page \in 0..files[g].num_pages - 1 :
              BlockOf(g, page)' = BlockOf(g, page)
              /\ BlockOf(g, page) \notin start..start + n - 1
         /\ \A page \in files[f].num_pages..files[f].num_pages + n - 1 :
              BlockOf(f, page)' = start + (page - files[f].num_pages)
         /\ files'[f].num_pages = files[f].num_pages + n
         /\ DOMAIN files' = DOMAIN files
         /\ \A g \in DOMAIN files : g # f => files'[g] = files[g]
<1> DEFINE added == [start_block |-> start, num_pages |-> n, first_page |-> files[f].num_pages]
           last == Len(files[f].extents) + 1
           N == files[f].num_pages
<1>1. /\ DOMAIN files' = DOMAIN files
      /\ \A g \in DOMAIN files : g # f => files'[g] = files[g]
      /\ files'[f].extents = Append(files[f].extents, added)
      /\ files'[f].num_pages = N + n
  BY DEF AllocateExtent, RecordExtent
<1>2. /\ files[f].extents \in Seq(FileExtent) /\ N \in Nat /\ last \in Nat
      /\ DOMAIN files[f].extents = 1..last - 1 /\ added \in FileExtent
  BY TypedExtents DEF TempFileMeta, FileExtent, StorageInv
<1>3. /\ DOMAIN files'[f].extents = 1..last
      /\ files'[f].extents[last] = added
      /\ \A k \in 1..last - 1 : files'[f].extents[k] = files[f].extents[k]
  <2>1. /\ Append(files[f].extents, added) \in Seq(FileExtent)
        /\ Len(Append(files[f].extents, added)) = last
        /\ Append(files[f].extents, added)[last] = added
        /\ \A k \in 1..last - 1 : Append(files[f].extents, added)[k] = files[f].extents[k]
    BY <1>2, AppendProperties
  <2> QED BY <1>1, <2>1, LenProperties
<1> HIDE DEF added, last, N
<1>4. ASSUME NEW g \in DOMAIN files, NEW page \in 0..files[g].num_pages - 1
      PROVE  BlockOf(g, page)' = BlockOf(g, page)
  <2>1. \A k \in 1..last - 1 : k \in 1..last
    BY <1>2
  <2>2. \A k \in DOMAIN files[g].extents :
          k \in DOMAIN files'[g].extents /\ files'[g].extents[k] = files[g].extents[k]
    BY <1>1, <1>2, <1>3, <2>1
  <2> QED BY <1>1, <2>2, BlockKept
<1>5. ASSUME NEW g \in DOMAIN files, NEW page \in 0..files[g].num_pages - 1
      PROVE  BlockOf(g, page) \notin start..start + n - 1
  <2>1. PICK k \in DOMAIN files[g].extents : BlockOf(g, page) \in BlocksOf(files[g].extents[k])
    BY BlockOfPage
  <2>2. Carved(n, start)
    BY GrowRegionCarves, ReuseExtentCarves DEF AllocateExtent
  <2>3. Apart(files[g].extents[k], NewExtent(n, start))
    BY <2>1, <2>2 DEF Carved
  <2> QED BY <2>1, <2>3 DEF Apart, BlocksOf, NewExtent
<1>6. ASSUME NEW page \in N..N + n - 1
      PROVE  BlockOf(f, page)' = start + (page - N)
  <2>1. last \in DOMAIN files'[f].extents
    <3>1. last \in 1..last
      <4>1. last \in Nat /\ last - 1 \in Nat
        BY <1>2, TypedExtents DEF StorageInv, last
      <4> QED BY <4>1
    <3> QED BY <1>3, <3>1
  <2>2. page \in PagesOf(added)
    BY DEF PagesOf, added, N
  <2>3. \A j, k \in DOMAIN files'[f].extents :
          j # k => PagesOf(files'[f].extents[j]) \cap PagesOf(files'[f].extents[k]) = {}
    BY <1>1 DEF StorageInv, EveryPageLocated, PagesOf
  <2>4. ExtentWith(files'[f].extents, page) = added
    BY <1>3, <2>1, <2>2, <2>3, ExtentWithUnique
  <2>5. BlockOf(f, page)' = added.start_block + (page - added.first_page)
    BY <2>4 DEF BlockOf, LocateExtent, ExtentWith, PagesOf
  <2> QED BY <2>5 DEF added, N
<1> QED BY <1>1, <1>4, <1>5, <1>6 DEF N

\* Append and concatenation, as the functions they are.
LEMMA AppendAsFunction ==
  ASSUME NEW S, NEW s \in Seq(S), NEW e \in S
  PROVE  Append(s, e) = [i \in 1..Len(s) + 1 |-> IF i <= Len(s) THEN s[i] ELSE e]
<1> DEFINE g == [i \in 1..Len(s) + 1 |-> IF i <= Len(s) THEN s[i] ELSE e]
<1>1. Len(s) \in Nat /\ \A i \in 1..Len(s) : s[i] \in S
  BY LenProperties, ElementOfSeq
<1>2. g \in [1..Len(s) + 1 -> S]
  BY <1>1
<1>3. g \in Seq(S) /\ Len(g) = Len(s) + 1
  BY <1>1, <1>2, FunctionIsSeq
<1>4. /\ Append(s, e) \in Seq(S) /\ Len(Append(s, e)) = Len(s) + 1
      /\ \A i \in 1..Len(s) : Append(s, e)[i] = s[i]
      /\ Append(s, e)[Len(s) + 1] = e
  BY AppendProperties
<1>5. \A i \in 1..Len(s) + 1 : Append(s, e)[i] = g[i]
  BY <1>1, <1>4
<1> HIDE DEF g
<1>6. Append(s, e) = g
  BY <1>3, <1>4, <1>5, SeqEqual
<1> QED BY <1>6 DEF g

LEMMA ConcatAsFunction ==
  ASSUME NEW S, NEW s \in Seq(S), NEW t \in Seq(S)
  PROVE  s \o t = [i \in 1..Len(s) + Len(t) |-> IF i <= Len(s) THEN s[i] ELSE t[i - Len(s)]]
<1> DEFINE g == [i \in 1..Len(s) + Len(t) |-> IF i <= Len(s) THEN s[i] ELSE t[i - Len(s)]]
<1>1. /\ Len(s) \in Nat /\ Len(t) \in Nat
      /\ \A i \in 1..Len(s) : s[i] \in S
      /\ \A i \in 1..Len(t) : t[i] \in S
  BY LenProperties, ElementOfSeq
<1>2. g \in [1..Len(s) + Len(t) -> S]
  <2>1. ASSUME NEW i \in 1..Len(s) + Len(t) PROVE g[i] \in S
    <3>1. i <= Len(s) => i \in 1..Len(s)
      BY <1>1
    <3>2. ~(i <= Len(s)) => i - Len(s) \in 1..Len(t)
      BY <1>1
    <3> QED BY <1>1, <3>1, <3>2
  <2> QED BY <2>1
<1>3. g \in Seq(S) /\ Len(g) = Len(s) + Len(t)
  BY <1>1, <1>2, FunctionIsSeq
<1>4. /\ s \o t \in Seq(S) /\ Len(s \o t) = Len(s) + Len(t)
      /\ \A i \in 1..Len(s) + Len(t) :
           (s \o t)[i] = IF i <= Len(s) THEN s[i] ELSE t[i - Len(s)]
  BY ConcatProperties
<1>5. \A i \in 1..Len(s) + Len(t) : (s \o t)[i] = g[i]
  BY <1>4
<1> HIDE DEF g
<1>6. s \o t = g
  BY <1>3, <1>4, <1>5, SeqEqual
<1> QED BY <1>6 DEF g

LEMMA AllocatePageRefines ==
  ASSUME StorageInv, StorageInv', NEW f \in DOMAIN files, AllocatePage(f)
  PROVE  Abstract!Reserve(f)
<1>1. PICK start \in Nat : AllocateExtent(f, 1, start)
  BY StorageAssumption DEF AllocatePage
<1>2. next_file_id' = next_file_id /\ anon_pages' = anon_pages
  BY DEF AllocatePage
<1>3. PICK N \in Nat : N = files[f].num_pages
  BY StoredPagesIsSeq
<1>4. /\ \A g \in DOMAIN files : \A page \in 0..files[g].num_pages - 1 :
           BlockOf(g, page)' = BlockOf(g, page)
      /\ BlockOf(f, N)' = start
      /\ files'[f].num_pages = N + 1
      /\ DOMAIN files' = DOMAIN files
      /\ \A g \in DOMAIN files : g # f => files'[g] = files[g]
  <2>1. N \in N..N + 1 - 1 /\ start + (N - N) = start
    OBVIOUS
  <2> QED BY <1>1, <1>2, <1>3, <2>1, AllocationKeepsPages
<1>5. ASSUME NEW b
      PROVE  ContentOf(b)' = ContentOf(b)
  BY <1>2 DEF ContentOf
<1>6. ASSUME NEW g \in DOMAIN files, NEW page \in 0..files[g].num_pages - 1
      PROVE  ContentOf(BlockOf(g, page))' = ContentOf(BlockOf(g, page))
  BY <1>2, <1>4 DEF ContentOf
<1>7. ASSUME NEW g \in DOMAIN files, g # f
      PROVE  StoredPages(g)' = StoredPages(g)
  BY <1>4, <1>6, <1>7, StoredPagesKept, StoredPagesIsSeq
<1>8. StoredPages(f)' = Append(StoredPages(f), ContentOf(start))
  <2>1. \A i \in 1..N + 1 : i <= N => i - 1 \in 0..N - 1
    OBVIOUS
  <2>2. \A i \in 1..N + 1 : ~(i <= N) => i - 1 = N
    OBVIOUS
  <2>3. ContentOf(BlockOf(f, N))' = ContentOf(start)
    BY <1>2, <1>4 DEF ContentOf
  <2>4. \A i \in 1..N + 1 :
          ContentOf(BlockOf(f, i - 1))' =
            IF i <= N THEN ContentOf(BlockOf(f, i - 1)) ELSE ContentOf(start)
    BY <1>3, <1>6, <2>1, <2>2, <2>3
  <2>5. StoredPages(f)' = [i \in 1..N + 1 |->
          IF i <= N THEN ContentOf(BlockOf(f, i - 1)) ELSE ContentOf(start)]
    BY <1>4, <2>4 DEF StoredPages
  <2>6. \A i \in 1..N + 1 : i <= N => StoredPages(f)[i] = ContentOf(BlockOf(f, i - 1))
    BY <1>3 DEF StoredPages
  <2>7. /\ StoredPages(f) \in Seq(Held) /\ Len(StoredPages(f)) = N
        /\ ContentOf(start) \in Held
    BY <1>3, StoredPagesIsSeq, ContentHeld
  <2>8. Append(StoredPages(f), ContentOf(start)) =
          [i \in 1..N + 1 |-> IF i <= N THEN StoredPages(f)[i] ELSE ContentOf(start)]
    BY <2>7, AppendAsFunction
  <2> QED BY <2>5, <2>6, <2>8
<1>9. Stored' = [Stored EXCEPT ![f] = Append(@, ContentOf(start))]
  BY <1>4, <1>7, <1>8 DEF Stored
<1>10. f \in DOMAIN Stored /\ ContentOf(start) \in Abstract!Held
  BY ContentHeld DEF Stored, Held, Abstract!Held
<1> QED BY <1>9, <1>10 DEF Abstract!Reserve

LEMMA FlushPendingPagesRefines ==
  ASSUME StorageInv, StorageInv', NEW f \in DOMAIN files, NEW data \in PageRuns,
         FlushPendingPages(f, data)
  PROVE  Abstract!AppendPages(f, data)
<1> DEFINE n == Len(data)
<1>1. PICK start \in Nat : AllocateExtent(f, n, start) /\ PutBlocks(start, data)
  BY StorageAssumption DEF FlushPendingPages
<1>2. next_file_id' = next_file_id /\ n \in Nat \ {0} /\ data \in Seq(Held)
  BY PageRunIsSeq, SeqMonotonic DEF FlushPendingPages, Held
<1>3. PICK N \in Nat : N = files[f].num_pages
  BY StoredPagesIsSeq
<1> HIDE DEF n
<1>4. /\ \A g \in DOMAIN files : \A page \in 0..files[g].num_pages - 1 :
           BlockOf(g, page)' = BlockOf(g, page) /\ BlockOf(g, page) \notin start..start + n - 1
      /\ \A page \in N..N + n - 1 : BlockOf(f, page)' = start + (page - N)
      /\ files'[f].num_pages = N + n
      /\ DOMAIN files' = DOMAIN files
      /\ \A g \in DOMAIN files : g # f => files'[g] = files[g]
  BY <1>1, <1>2, <1>3, AllocationKeepsPages
<1>5. /\ DOMAIN anon_pages' = DOMAIN anon_pages \cup (start..start + n - 1)
      /\ \A b \in DOMAIN anon_pages' :
           anon_pages'[b] = IF b \in start..start + n - 1 THEN data[b - start + 1] ELSE anon_pages[b]
  BY <1>1 DEF PutBlocks, n
<1>6. ASSUME NEW g \in DOMAIN files, NEW page \in 0..files[g].num_pages - 1
      PROVE  ContentOf(BlockOf(g, page))' = ContentOf(BlockOf(g, page))
  BY <1>4, <1>5 DEF ContentOf
<1>7. ASSUME NEW g \in DOMAIN files, g # f
      PROVE  StoredPages(g)' = StoredPages(g)
  BY <1>4, <1>6, <1>7, StoredPagesKept, StoredPagesIsSeq
<1>8. ASSUME NEW page \in N..N + n - 1
      PROVE  ContentOf(BlockOf(f, page))' = data[page - N + 1]
  <2>1. start + (page - N) \in start..start + n - 1 /\ start + (page - N) - start + 1 = page - N + 1
    BY <1>2
  <2> QED BY <1>4, <1>5, <2>1 DEF ContentOf
<1>9. StoredPages(f)' = StoredPages(f) \o data
  <2>1. \A i \in 1..N + n : i <= N => i - 1 \in 0..N - 1
    BY <1>2
  <2>2. \A i \in 1..N + n : ~(i <= N) => i - 1 \in N..N + n - 1 /\ i - 1 - N + 1 = i - N
    BY <1>2
  <2>3. \A i \in 1..N + n :
          ContentOf(BlockOf(f, i - 1))' =
            IF i <= N THEN ContentOf(BlockOf(f, i - 1)) ELSE data[i - N]
    BY <1>3, <1>6, <1>8, <2>1, <2>2
  <2>4. StoredPages(f)' = [i \in 1..N + n |->
          IF i <= N THEN ContentOf(BlockOf(f, i - 1)) ELSE data[i - N]]
    BY <1>4, <2>3 DEF StoredPages
  <2>5. \A i \in 1..N + n : i <= N => StoredPages(f)[i] = ContentOf(BlockOf(f, i - 1))
    BY <1>2, <1>3 DEF StoredPages
  <2>6. StoredPages(f) \in Seq(Held) /\ Len(StoredPages(f)) = N
    BY <1>3, StoredPagesIsSeq
  <2>7. Len(data) = n
    BY DEF n
  <2>8. StoredPages(f) \o data =
          [i \in 1..Len(StoredPages(f)) + Len(data) |->
             IF i <= Len(StoredPages(f)) THEN StoredPages(f)[i]
                                         ELSE data[i - Len(StoredPages(f))]]
    BY <1>2, <2>6, ConcatAsFunction
  <2>9. StoredPages(f) \o data =
          [i \in 1..N + n |-> IF i <= N THEN StoredPages(f)[i] ELSE data[i - N]]
    BY <2>6, <2>7, <2>8
  <2> QED BY <2>4, <2>5, <2>9
<1>10. Stored' = [Stored EXCEPT ![f] = @ \o data]
  BY <1>4, <1>7, <1>9 DEF Stored
<1>11. f \in DOMAIN Stored
  BY DEF Stored
<1> QED BY <1>10, <1>11 DEF Abstract!AppendPages

\* The n pages from page on, in one extent, are in n consecutive blocks.
LEMMA ConsecutiveBlocks ==
  ASSUME StorageInv, NEW f \in DOMAIN files, NEW page \in Nat, page < files[f].num_pages,
         NEW n \in Nat \ {0}, InOneExtent(f, page, n)
  PROVE  /\ BlockOf(f, page) \in Nat
         /\ page + n <= files[f].num_pages
         /\ \A q \in page..page + n - 1 : BlockOf(f, q) = BlockOf(f, page) + (q - page)
<1>0. files[f].num_pages \in Nat /\ page \in 0..files[f].num_pages - 1
  BY StoredPagesIsSeq
<1>1. PICK k \in DOMAIN files[f].extents :
        /\ page \in PagesOf(files[f].extents[k])
        /\ LocateExtent(f, page) = files[f].extents[k]
        /\ BlockOf(f, page) = files[f].extents[k].start_block
                              + (page - files[f].extents[k].first_page)
  BY <1>0, BlockOfPage
<1> DEFINE e == files[f].extents[k]
<1>2. e.start_block \in Nat /\ e.num_pages \in Nat \ {0} /\ e.first_page \in Nat
  BY <1>1, TypedExtents DEF FileExtent, StorageInv
<1>3. page + n <= e.first_page + e.num_pages
  BY <1>1 DEF InOneExtent
<1>4. PagesOf(e) \subseteq 0..files[f].num_pages - 1
  BY DEF StorageInv, EveryPageLocated
<1>5. /\ LocateExtent(f, page) = e
      /\ page \in e.first_page..e.first_page + e.num_pages - 1
      /\ PagesOf(e) = e.first_page..e.first_page + e.num_pages - 1
      /\ BlockOf(f, page) = e.start_block + (page - e.first_page)
  BY <1>1 DEF PagesOf
<1>6. \A i, j \in DOMAIN files[f].extents :
        i # j => PagesOf(files[f].extents[i]) \cap PagesOf(files[f].extents[j]) = {}
  BY DEF StorageInv, EveryPageLocated
<1>7. ASSUME NEW q \in page..page + n - 1
      PROVE  q \in PagesOf(e)
  <2> HIDE DEF e
  <2> QED BY <1>2, <1>3, <1>5
<1>8. ASSUME NEW q \in page..page + n - 1
      PROVE  BlockOf(f, q) = e.start_block + (q - e.first_page)
  <2>1. q \in PagesOf(files[f].extents[k])
    BY <1>7
  <2>2. LocateExtent(f, q) = e
    BY <2>1, <1>6, ExtentWithUnique DEF LocateExtent
  <2> QED BY <2>2 DEF BlockOf
<1>9. BlockOf(f, page) \in Nat
  <2> HIDE DEF e
  <2> QED BY <1>2, <1>5
<1>10. ASSUME NEW q \in page..page + n - 1
       PROVE  BlockOf(f, q) = BlockOf(f, page) + (q - page)
  <2>1. BlockOf(f, q) = e.start_block + (q - e.first_page)
    BY <1>8
  <2> HIDE DEF e
  <2> QED BY <1>2, <1>5, <2>1
<1>11. page + n <= files[f].num_pages
  <2>1. page + n - 1 \in page..page + n - 1
    OBVIOUS
  <2>2. page + n - 1 \in 0..files[f].num_pages - 1
    BY <1>4, <1>7, <2>1
  <2> QED BY <1>0, <2>2
<1> QED BY <1>9, <1>10, <1>11

LEMMA WritePagesRefines ==
  ASSUME StorageInv, NEW f \in DOMAIN files, NEW data \in PageRuns,
         NEW page \in 0..files[f].num_pages, WritePages(f, page, data)
  PROVE  Abstract!Overwrite(f, page, data) /\ page \in 0..Len(Stored[f])
<1>1. PICK n : n = Len(data)
  OBVIOUS
<1>2. n \in Nat \ {0} /\ page \in Nat /\ page < files[f].num_pages /\ InOneExtent(f, page, n)
  BY <1>1, PageRunIsSeq, StoredPagesIsSeq DEF WritePages
<1>3. PICK s : s = BlockOf(f, page)
  OBVIOUS
<1>4. /\ s \in Nat /\ page + n <= files[f].num_pages
      /\ \A q \in page..page + n - 1 : BlockOf(f, q) = s + (q - page)
  BY <1>2, <1>3, ConsecutiveBlocks
<1>5. files' = files /\ PutBlocks(s, data)
  BY <1>3 DEF WritePages
<1>6. /\ DOMAIN anon_pages' = DOMAIN anon_pages \cup (s..s + n - 1)
      /\ \A b \in DOMAIN anon_pages' :
           anon_pages'[b] = IF b \in s..s + n - 1 THEN data[b - s + 1] ELSE anon_pages[b]
  BY <1>1, <1>5 DEF PutBlocks
<1>7. \A g, q : BlockOf(g, q)' = BlockOf(g, q)
  BY <1>5 DEF BlockOf, LocateExtent
<1>8. ASSUME NEW g \in DOMAIN files, NEW q \in 0..files[g].num_pages - 1,
             BlockOf(g, q) \in s..s + n - 1
      PROVE  g = f /\ q \in page..page + n - 1
  <2>1. PICK q2 \in page..page + n - 1 : BlockOf(g, q) = s + (q2 - page)
    <3>1. PICK b \in s..s + n - 1 : BlockOf(g, q) = b
      BY <1>8
    <3>2. page + (b - s) \in page..page + n - 1 /\ b = s + ((page + (b - s)) - page)
      BY <1>2, <1>4
    <3> QED BY <3>1, <3>2
  <2>2. BlockOf(f, q2) = BlockOf(g, q)
    BY <1>4, <2>1
  <2>3. q2 \in 0..files[f].num_pages - 1
    BY <1>2, <1>4, StoredPagesIsSeq
  <2> QED BY <2>1, <2>2, <2>3, BlocksOfPagesDiffer
<1>9. ASSUME NEW g \in DOMAIN files, NEW q \in 0..files[g].num_pages - 1,
             ~(g = f /\ q \in page..page + n - 1)
      PROVE  ContentOf(BlockOf(g, q))' = ContentOf(BlockOf(g, q))
  BY <1>6, <1>7, <1>8, <1>9 DEF ContentOf
<1>10. ASSUME NEW q \in page..page + n - 1
       PROVE  ContentOf(BlockOf(f, q))' = data[q - page + 1]
  <2>1. s + (q - page) \in s..s + n - 1 /\ s + (q - page) - s + 1 = q - page + 1
    BY <1>2, <1>4
  <2> QED BY <1>4, <1>6, <1>7, <2>1 DEF ContentOf
<1>11. ASSUME NEW g \in DOMAIN files, g # f
       PROVE  StoredPages(g)' = StoredPages(g)
  BY <1>5, <1>9, <1>11, StoredPagesKept, StoredPagesIsSeq
<1>12. PICK N \in Nat : N = files[f].num_pages /\ DOMAIN StoredPages(f) = 1..N
                        /\ Len(StoredPages(f)) = N
  BY StoredPagesIsSeq
<1>13. StoredPages(f)' = [i \in DOMAIN StoredPages(f) |->
         IF i \in page + 1..page + n THEN data[i - page] ELSE StoredPages(f)[i]]
  <2>1. ASSUME NEW i \in 1..N, i \in page + 1..page + n
        PROVE  ContentOf(BlockOf(f, i - 1))' = data[i - page]
    <3>1. i - 1 \in page..page + n - 1 /\ i - 1 - page + 1 = i - page
      BY <1>2, <2>1
    <3> QED BY <1>10, <3>1
  <2>2. ASSUME NEW i \in 1..N, i \notin page + 1..page + n
        PROVE  ContentOf(BlockOf(f, i - 1))' = ContentOf(BlockOf(f, i - 1))
    <3>1. i - 1 \in 0..N - 1 /\ i - 1 \notin page..page + n - 1
      BY <1>2, <2>2
    <3> QED BY <1>9, <1>12, <3>1
  <2>3. StoredPages(f)' = [i \in 1..N |-> ContentOf(BlockOf(f, i - 1))']
    BY <1>5, <1>12 DEF StoredPages
  <2>4. \A i \in 1..N : StoredPages(f)[i] = ContentOf(BlockOf(f, i - 1))
    BY <1>12 DEF StoredPages
  <2>5. \A i \in 1..N : ContentOf(BlockOf(f, i - 1))' =
          IF i \in page + 1..page + n THEN data[i - page] ELSE StoredPages(f)[i]
    BY <2>1, <2>2, <2>4
  <2> QED BY <1>12, <2>3, <2>5
<1>14. Stored' = [Stored EXCEPT ![f] = [i \in DOMAIN @ |->
         IF i \in page + 1..page + n THEN data[i - page] ELSE @[i]]]
  BY <1>5, <1>11, <1>13 DEF Stored
<1>15. f \in DOMAIN Stored /\ Stored[f] = StoredPages(f)
  BY DEF Stored
<1> QED BY <1>1, <1>4, <1>12, <1>14, <1>15 DEF Abstract!Overwrite

-----------------------------------------------------------------------------
(* The refinement theorem. *)

LEMMA InitRefines == Init => Abstract!StoreInit
<1> SUFFICES ASSUME Init PROVE Stored = << >>
  BY DEF Abstract!StoreInit
<1>1. DOMAIN files = {}
  BY DEF Init
<1> QED BY <1>1 DEF Stored

LEMMA StepRefines ==
  ASSUME StorageInv, StorageInv', [Next]_storageVars
  PROVE  [Abstract!StoreNext]_Stored
<1>1. CASE UNCHANGED storageVars
  <2>1. files' = files /\ anon_pages' = anon_pages
    BY <1>1 DEF storageVars
  <2> QED BY <2>1 DEF Stored, StoredPages, ContentOf, BlockOf, LocateExtent
<1>2. CASE CreateTempFile
  <2>1. next_file_id \in 0..MaxFiles - 1
    BY <1>2, StorageAssumption DEF CreateTempFile, StorageInv, TypeOK, ManagerTypeOK
  <2> QED BY <1>2, <2>1, CreateTempFileRefines DEF Abstract!StoreNext
<1>3. DOMAIN Stored = DOMAIN files
  BY DEF Stored
<1>4. ASSUME NEW f \in DOMAIN files, DeleteTempFile(f)
      PROVE  Abstract!StoreNext
  BY <1>3, <1>4, DeleteTempFileRefines DEF Abstract!StoreNext
<1>5. ASSUME NEW f \in DOMAIN files, AllocatePage(f)
      PROVE  Abstract!StoreNext
  BY <1>3, <1>5, AllocatePageRefines DEF Abstract!StoreNext
<1>6. PageRuns = Abstract!PageRuns
  BY DEF PageRuns, Abstract!PageRuns
<1>7. ASSUME NEW f \in DOMAIN files, NEW data \in PageRuns, FlushPendingPages(f, data)
      PROVE  Abstract!StoreNext
  BY <1>3, <1>6, <1>7, FlushPendingPagesRefines DEF Abstract!StoreNext
<1>8. ASSUME NEW f \in DOMAIN files, NEW data \in PageRuns,
             NEW page \in 0..files[f].num_pages, WritePages(f, page, data)
      PROVE  Abstract!StoreNext
  BY <1>3, <1>6, <1>8, WritePagesRefines DEF Abstract!StoreNext
<1> QED BY <1>1, <1>2, <1>4, <1>5, <1>7, <1>8 DEF Next

\* A file reads back what was last written to it: the storage, with its extents
\* and its recycled blocks, implements a set of independent page sequences.
THEOREM StorageImplementsPageStore == Spec => ImplementsPageStore
<1>1. Init => Abstract!StoreInit
  BY InitRefines
<1>2. StorageInv /\ StorageInv' /\ [Next]_storageVars => [Abstract!StoreNext]_Stored
  BY StepRefines
<1> QED BY <1>1, <1>2, StorageInvariant, PTL DEF Spec, ImplementsPageStore, Abstract!StoreSpec
=============================================================================
