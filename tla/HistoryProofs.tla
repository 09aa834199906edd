---------------------------- MODULE HistoryProofs ----------------------------
(***************************************************************************)
(* Theorems about History, for any number of entries, any page sizes and    *)
(* any interleaving of insertions with the two queries of a page: the type  *)
(* invariant; that a walk misses nothing; that it repeats nothing unless    *)
(* something was inserted; and that the total covers what was shown.        *)
(***************************************************************************)
EXTENDS History, TLAPS, FiniteSetTheorems, FunctionTheorems, SequenceTheorems

\* How many entries stand before e in every order Find may choose, when nothing
\* shares the created_at of e.
Newer(e) == {d \in entries : createdAt[d] > createdAt[e]}
Rank(e) == Cardinality(Newer(e))

\* Where the page in hand begins and ends.
PageStart == Offset(walk.page, walk.perPage)
PageEnd == Offset(walk.page + 1, walk.perPage)

\* What the pages before the one in hand have left is on this page or later, as
\* long as nothing was inserted they have shown exactly what stands before it.
SeenOK ==
    /\ \A e \in present : Unique(e) /\ e \notin seen => Rank(e) >= PageStart
    /\ entries = present => \A e \in seen : Unique(e) => Rank(e) < PageStart

\* The same of the page between its two queries.
PageOK ==
    /\ \A e \in present : Unique(e) /\ e \notin seen \cup Shown => Rank(e) >= PageEnd
    /\ entries = present =>
          \A e \in Shown : Unique(e) => PageStart <= Rank(e) /\ Rank(e) < PageEnd

WalkOK ==
    /\ walk.page > 0 /\ walk.perPage > 0
    /\ walk.pc # "idle" => SeenOK
    /\ walk.pc = "count" => PageOK

\* The inductive invariant.
HistoryInv ==
    /\ HistoryTypeOK
    /\ WalkOK
    /\ WalkMissesNothing
    /\ RepeatsOnlyAfterInsert
    /\ TotalCoversWhatIsShown

-----------------------------------------------------------------------------
(* Pages *)

LEMMA OffsetOfPages ==
    ASSUME NEW page \in Nat \ {0}, NEW perPage \in Nat \ {0}
    PROVE  /\ Offset(page, perPage) \in Nat
           /\ Offset(page + 1, perPage) = Offset(page, perPage) + perPage
           /\ Offset(page + 1, perPage) = page * perPage
           /\ Offset(1, perPage) = 0
BY DEF Offset

\* The last page by TotalPages ends after the last entry, and the page before it
\* does not: it is the quotient rounded up.
LEMMA TotalPagesCover ==
    ASSUME NEW total \in Nat, NEW perPage \in Nat \ {0}, NEW page \in Nat \ {0}
    PROVE  page >= TotalPages(total, perPage) <=> total <= page * perPage
<1> DEFINE q == total \div perPage
           r == total % perPage
<1>1. q \in Nat /\ r \in 0 .. perPage - 1 /\ total = perPage * q + r
  OBVIOUS
<1>2. TotalPages(total, perPage) = q + (IF r > 0 THEN 1 ELSE 0)
  BY DEF TotalPages
<1> HIDE DEF q, r
<1>3. CASE page <= q
  <2>1. page * perPage <= perPage * q
    BY <1>1, <1>3
  <2> QED BY <1>1, <1>2, <1>3, <2>1
<1>4. CASE page > q
  <2>1. perPage * q + perPage <= page * perPage
    BY <1>1, <1>4
  <2> QED BY <1>1, <1>2, <1>4, <2>1
<1> QED BY <1>1, <1>3, <1>4

\* What PageOf cuts out of an order.
LEMMA PageOfOrder ==
    ASSUME NEW S, NEW order \in Seq(S), NEW page \in Nat \ {0}, NEW perPage \in Nat \ {0}
    PROVE  /\ PageOf(order, page, perPage) \in Seq(S)
           /\ Len(PageOf(order, page, perPage)) <= perPage
           /\ \A k \in DOMAIN PageOf(order, page, perPage) :
                /\ Offset(page, perPage) + k \in 1 .. Len(order) /\ k \in 1 .. perPage
                /\ PageOf(order, page, perPage)[k] = order[Offset(page, perPage) + k]
           /\ \A n \in 1 .. Len(order) :
                Offset(page, perPage) < n /\ n <= Offset(page, perPage) + perPage =>
                    n - Offset(page, perPage) \in DOMAIN PageOf(order, page, perPage)
<1> DEFINE offset == Offset(page, perPage)
           last == IF offset + perPage < Len(order) THEN offset + perPage ELSE Len(order)
<1>1. /\ offset \in Nat /\ Len(order) \in Nat /\ last \in Nat
      /\ last <= offset + perPage /\ last <= Len(order)
      /\ last = offset + perPage \/ last = Len(order)
  <2>1. offset \in Nat
    BY OffsetOfPages
  <2>2. Len(order) \in Nat
    BY LenProperties
  <2> HIDE DEF offset
  <2> QED BY <2>1, <2>2
<1>2. PageOf(order, page, perPage) = SubSeq(order, offset + 1, last)
  BY DEF PageOf
<1> HIDE DEF offset, last
<1>3. \A i \in offset + 1 .. last : order[i] \in S
  BY <1>1, ElementOfSeq
<1>4. /\ SubSeq(order, offset + 1, last) \in Seq(S)
      /\ Len(SubSeq(order, offset + 1, last)) =
           IF offset + 1 <= last THEN last - (offset + 1) + 1 ELSE 0
      /\ \A i \in 1 .. last - (offset + 1) + 1 :
           SubSeq(order, offset + 1, last)[i] = order[(offset + 1) + i - 1]
  BY <1>1, <1>3, SubSeqProperties
<1>5. DOMAIN SubSeq(order, offset + 1, last) = 1 .. Len(SubSeq(order, offset + 1, last))
  BY <1>4, LenProperties
<1>6. ASSUME NEW start, NEW cut, start = offset, cut = SubSeq(order, offset + 1, last)
      PROVE  /\ cut \in Seq(S) /\ Len(cut) <= perPage
             /\ \A k \in DOMAIN cut :
                  start + k \in 1 .. Len(order) /\ k \in 1 .. perPage /\ cut[k] = order[start + k]
             /\ \A n \in 1 .. Len(order) :
                  start < n /\ n <= start + perPage => n - start \in DOMAIN cut
  BY <1>1, <1>4, <1>5, <1>6
<1> QED BY <1>2, <1>6 DEF offset

\* Insertions let the entries before an entry become more only.
LEMMA RankGrows ==
    ASSUME IsFiniteSet(Entries), entries' \subseteq Entries,
           entries \subseteq entries', createdAt' = createdAt,
           NEW e \in entries
    PROVE  /\ Rank(e) \in Nat /\ Rank(e)' \in Nat /\ Rank(e) <= Rank(e)'
           /\ Unique(e)' => Unique(e)
           /\ entries' = entries => Rank(e)' = Rank(e)
<1>1. IsFiniteSet(entries')
  BY FS_Subset
<1>2. Newer(e)' \in SUBSET entries' /\ Newer(e) \in SUBSET Newer(e)'
  BY DEF Newer
<1>3. IsFiniteSet(Newer(e)')
  BY <1>1, <1>2, FS_Subset
<1>4. IsFiniteSet(Newer(e)) /\ Cardinality(Newer(e)) <= Cardinality(Newer(e)')
  BY <1>2, <1>3, FS_Subset
<1>5. Cardinality(Newer(e)) \in Nat /\ Cardinality(Newer(e)') \in Nat
  BY <1>3, <1>4, FS_CardinalityType
<1>6. Unique(e)' => Unique(e)
  BY DEF Unique
<1>7. entries' = entries => Newer(e)' = Newer(e)
  BY DEF Newer
<1> QED BY <1>4, <1>5, <1>6, <1>7 DEF Rank

\* An entry that shares its created_at with nobody stands at one place in every
\* order that Find may choose: behind the newer ones.
LEMMA PlaceOfUnique ==
    ASSUME HistoryTypeOK, NEW order \in Orders, NEW e \in entries, Unique(e)
    PROVE  /\ order \in Seq(entries) /\ Len(order) = Cardinality(entries)
           /\ Rank(e) \in Nat /\ Rank(e) + 1 \in 1 .. Len(order)
           /\ \A n \in 1 .. Len(order) : order[n] = e <=> n = Rank(e) + 1
<1> DEFINE c == Cardinality(entries)
<1>1. IsFiniteSet(entries) /\ c \in Nat
  BY HistoryAssumption, FS_Subset, FS_CardinalityType DEF HistoryTypeOK, HistoryAssumption
<1>2. /\ order \in [1 .. c -> entries]
      /\ \A m, n \in 1 .. c : m < n =>
            order[m] # order[n] /\ createdAt[order[m]] >= createdAt[order[n]]
  BY DEF Orders
<1>3. \A m, n \in 1 .. c : order[m] = order[n] => m = n
  BY <1>1, <1>2
<1>4. order \in Surjection(1 .. c, entries)
  <2>1. order \in Injection(1 .. c, entries)
    BY <1>2, <1>3, Fun_IsInj
  <2>2. Cardinality(1 .. c) = c
    BY <1>1, FS_Interval
  <2> QED BY <1>1, <2>1, <2>2, FS_Injection
<1>5. PICK n \in 1 .. c : order[n] = e
  BY <1>4 DEF Surjection
<1>6. \A d \in entries : createdAt[d] \in Nat
  BY HistoryAssumption DEF HistoryTypeOK, HistoryAssumption
<1>7. \A m \in 1 .. n - 1 : order[m] \in Newer(e)
  BY <1>1, <1>2, <1>5, <1>6 DEF Newer, Unique
<1>8. \A d \in Newer(e) : \E m \in 1 .. n - 1 : order[m] = d
  <2> SUFFICES ASSUME NEW d \in Newer(e) PROVE \E m \in 1 .. n - 1 : order[m] = d
    OBVIOUS
  <2>1. PICK m \in 1 .. c : order[m] = d
    BY <1>4 DEF Newer, Surjection
  <2>2. d \in entries /\ createdAt[d] > createdAt[e]
    BY DEF Newer
  <2>3. ~(n < m) /\ n # m
    BY <1>2, <1>5, <1>6, <2>1, <2>2
  <2> QED BY <1>1, <2>1, <2>3
<1>9. Rank(e) = n - 1
  <2> DEFINE before == [m \in 1 .. n - 1 |-> order[m]]
  <2>1. before \in [1 .. n - 1 -> Newer(e)]
    BY <1>7
  <2>2. \A m, k \in 1 .. n - 1 : before[m] = before[k] => m = k
    BY <1>1, <1>3
  <2>3. \A d \in Newer(e) : \E m \in 1 .. n - 1 : before[m] = d
    BY <1>8
  <2> HIDE DEF before
  <2>4. before \in Bijection(1 .. n - 1, Newer(e))
    BY <2>1, <2>2, <2>3, Fun_IsBij
  <2>5. ExistsBijection(1 .. n - 1, Newer(e)) /\ n - 1 \in Nat
    BY <2>4, Fun_ExistsBij
  <2> QED BY <2>5, FS_CountingElements DEF Rank
<1>10. order \in Seq(entries) /\ Len(order) = c
  BY <1>1, <1>2, SeqDef, LenProperties
<1> QED BY <1>1, <1>3, <1>5, <1>9, <1>10

\* The newest entries are fewer than all.
LEMMA RankBound ==
    ASSUME HistoryTypeOK, NEW e \in entries
    PROVE  /\ Rank(e) \in Nat /\ Cardinality(entries) \in Nat
           /\ Rank(e) < Cardinality(entries)
<1>1. IsFiniteSet(entries) /\ \A d \in entries : createdAt[d] \in Nat
  BY HistoryAssumption, FS_Subset DEF HistoryTypeOK, HistoryAssumption
<1>2. /\ IsFiniteSet(entries \ {e})
      /\ Cardinality(entries \ {e}) = Cardinality(entries) - 1
  BY <1>1, FS_RemoveElement
<1>3. Newer(e) \in SUBSET (entries \ {e})
  BY <1>1 DEF Newer
<1>4. IsFiniteSet(Newer(e)) /\ Cardinality(Newer(e)) <= Cardinality(entries \ {e})
  BY <1>2, <1>3, FS_Subset
<1>5. Cardinality(Newer(e)) \in Nat /\ Cardinality(entries) \in Nat
  BY <1>1, <1>4, FS_CardinalityType
<1> QED BY <1>2, <1>4, <1>5 DEF Rank

\* The page shows an entry that shares its created_at with nobody exactly when its
\* place is on the page.
LEMMA ShownByFind ==
    ASSUME HistoryTypeOK, walk.page > 0, walk.perPage > 0, NEW order \in Orders,
           items' = PageOf(order, walk.page, walk.perPage)
    PROVE  /\ items' \in Seq(entries) /\ Len(items') <= walk.perPage
           /\ Shown' \subseteq entries
           /\ \A e \in entries : Unique(e) =>
                (e \in Shown' <=> PageStart <= Rank(e) /\ Rank(e) < PageEnd)
<1>1. walk.page \in Nat \ {0} /\ walk.perPage \in Nat \ {0}
  BY DEF HistoryTypeOK, WalkRecords
<1>2. PageStart \in Nat /\ PageEnd = PageStart + walk.perPage
  BY <1>1, OffsetOfPages DEF PageStart, PageEnd
<1>3. order \in Seq(entries)
  <2>1. Cardinality(entries) \in Nat
    BY HistoryAssumption, FS_Subset, FS_CardinalityType DEF HistoryTypeOK, HistoryAssumption
  <2> QED BY <2>1, SeqDef DEF Orders
<1>4. /\ items' \in Seq(entries) /\ Len(items') <= walk.perPage
      /\ \A k \in DOMAIN items' :
           /\ PageStart + k \in 1 .. Len(order) /\ k \in 1 .. walk.perPage
           /\ items'[k] = order[PageStart + k]
      /\ \A n \in 1 .. Len(order) :
           PageStart < n /\ n <= PageStart + walk.perPage => n - PageStart \in DOMAIN items'
  BY <1>1, <1>3, PageOfOrder DEF PageStart
<1>5. Shown' \subseteq entries
  BY <1>3, <1>4, ElementOfSeq DEF Shown
<1>6. ASSUME NEW e \in entries, Unique(e)
      PROVE  e \in Shown' <=> PageStart <= Rank(e) /\ Rank(e) < PageEnd
  <2>1. /\ Rank(e) \in Nat /\ Rank(e) + 1 \in 1 .. Len(order)
        /\ \A n \in 1 .. Len(order) : order[n] = e <=> n = Rank(e) + 1
    BY <1>6, PlaceOfUnique
  <2>2. ASSUME e \in Shown' PROVE PageStart <= Rank(e) /\ Rank(e) < PageEnd
    <3>1. PICK k \in DOMAIN items' : items'[k] = e
      BY <2>2 DEF Shown
    <3>2. PageStart + k = Rank(e) + 1 /\ k \in 1 .. walk.perPage
      BY <1>4, <2>1, <3>1
    <3> QED BY <1>1, <1>2, <2>1, <3>2
  <2>3. ASSUME PageStart <= Rank(e), Rank(e) < PageEnd PROVE e \in Shown'
    <3>1. Rank(e) + 1 - PageStart \in DOMAIN items'
      BY <1>1, <1>2, <1>4, <2>1, <2>3
    <3>2. items'[Rank(e) + 1 - PageStart] = order[PageStart + (Rank(e) + 1 - PageStart)]
      BY <1>4, <3>1
    <3>3. PageStart + (Rank(e) + 1 - PageStart) = Rank(e) + 1
      BY <1>2, <2>1
    <3> QED BY <2>1, <3>1, <3>2, <3>3 DEF Shown
  <2> QED BY <2>2, <2>3
<1> QED BY <1>4, <1>5, <1>6

-----------------------------------------------------------------------------
(* The steps *)

LEMMA InitHistoryInv ==
    ASSUME HistoryInit
    PROVE  HistoryInv
<1>1. HistoryTypeOK
  BY EmptySeq DEF HistoryInit, HistoryTypeOK, WalkRecords
<1>2. WalkOK
  BY DEF HistoryInit, WalkOK
<1>3. WalkMissesNothing /\ RepeatsOnlyAfterInsert
  BY DEF HistoryInit, WalkMissesNothing, RepeatsOnlyAfterInsert
<1>4. TotalCoversWhatIsShown
  BY FS_EmptySet DEF HistoryInit, TotalCoversWhatIsShown
<1> QED BY <1>1, <1>2, <1>3, <1>4 DEF HistoryInv

LEMMA InsertHistory ==
    ASSUME HistoryInv, NEW d \in Entries, Insert(d)
    PROVE  HistoryInv'
<1>1. /\ HistoryTypeOK /\ d \notin entries /\ entries' = entries \cup {d}
      /\ createdAt' = createdAt /\ UNCHANGED walkVars
      /\ walk' = walk /\ items' = items /\ seen' = seen /\ repeated' = repeated
      /\ present' = present
  BY DEF HistoryInv, Insert, walkVars
<1>2. HistoryTypeOK'
  <2>1. items \in Seq(entries')
    BY <1>1, SeqMonotonic DEF HistoryTypeOK
  <2> QED BY <1>1, <2>1 DEF HistoryTypeOK
<1>3. entries' # present'
  BY <1>1 DEF HistoryTypeOK
<1>4. \A e \in present : /\ Rank(e) \in Nat /\ Rank(e)' \in Nat /\ Rank(e) <= Rank(e)'
                         /\ Unique(e)' => Unique(e)
  <2>1. IsFiniteSet(Entries) /\ entries' \subseteq Entries
    BY <1>1, HistoryAssumption DEF HistoryTypeOK, HistoryAssumption
  <2> QED BY <1>1, <2>1, RankGrows DEF HistoryTypeOK
<1>5. /\ PageStart' = PageStart /\ PageEnd' = PageEnd /\ Shown' = Shown
      /\ walk.page > 0 => PageStart \in Nat /\ PageEnd \in Nat
  <2>1. PageStart' = PageStart /\ PageEnd' = PageEnd /\ Shown' = Shown
    BY <1>1 DEF PageStart, PageEnd, Shown
  <2>2. walk.page > 0 => PageStart \in Nat /\ PageEnd \in Nat
    <3>1. walk.page \in Nat /\ walk.perPage \in Nat
      BY <1>1 DEF HistoryTypeOK, WalkRecords
    <3> QED BY <3>1 DEF PageStart, PageEnd, Offset
  <2> QED BY <2>1, <2>2
<1>6. WalkOK'
  <2>1. walk.page > 0 /\ walk.perPage > 0
    BY DEF HistoryInv, WalkOK
  <2>2. SeenOK => SeenOK'
    BY <1>1, <1>3, <1>4, <1>5, <2>1 DEF SeenOK
  <2>3. PageOK => PageOK'
    BY <1>1, <1>3, <1>4, <1>5, <2>1 DEF PageOK
  <2> QED BY <1>1, <2>1, <2>2, <2>3 DEF HistoryInv, WalkOK
<1>7. WalkMissesNothing'
  BY <1>1, <1>4 DEF HistoryInv, WalkMissesNothing
<1>8. RepeatsOnlyAfterInsert' /\ TotalCoversWhatIsShown'
  BY <1>1, <1>3 DEF HistoryInv, RepeatsOnlyAfterInsert, TotalCoversWhatIsShown
<1> QED BY <1>2, <1>6, <1>7, <1>8 DEF HistoryInv

LEMMA StartWalkHistory ==
    ASSUME HistoryInv, NEW perPage \in PageSizes, StartWalk(perPage)
    PROVE  HistoryInv'
<1>1. /\ HistoryTypeOK
      /\ walk' = [pc |-> "find", page |-> 1, perPage |-> perPage, total |-> 0]
      /\ items' = <<>> /\ seen' = {} /\ repeated' = {} /\ present' = entries
      /\ createdAt' = createdAt /\ entries' = entries
      /\ perPage \in Nat \ {0}
  BY HistoryAssumption DEF HistoryInv, StartWalk, HistoryAssumption
<1>2. HistoryTypeOK'
  BY <1>1, EmptySeq DEF HistoryTypeOK, WalkRecords
<1>3. PageStart' = 0
  BY <1>1, OffsetOfPages DEF PageStart, Offset
<1>4. SeenOK'
  <2>1. \A e \in entries : Rank(e)' \in Nat
    BY <1>1, <1>2, RankBound DEF Rank, Newer
  <2> QED BY <1>1, <1>3, <2>1 DEF SeenOK
<1>5. WalkOK'
  BY <1>1, <1>4 DEF WalkOK
<1> QED BY <1>1, <1>2, <1>5
  DEF HistoryInv, WalkMissesNothing, RepeatsOnlyAfterInsert, TotalCoversWhatIsShown

LEMMA FindHistory ==
    ASSUME HistoryInv, FindPage
    PROVE  HistoryInv'
<1>1. /\ HistoryTypeOK /\ walk.pc = "find" /\ walk.page > 0 /\ walk.perPage > 0 /\ SeenOK
      /\ walk' = [walk EXCEPT !.pc = "count"]
      /\ createdAt' = createdAt /\ entries' = entries /\ seen' = seen
      /\ repeated' = repeated /\ present' = present
  BY DEF HistoryInv, WalkOK, FindPage
<1>2. /\ walk'.pc = "count" /\ walk'.page = walk.page /\ walk'.perPage = walk.perPage
      /\ walk' \in WalkRecords
  BY <1>1 DEF HistoryTypeOK, WalkRecords
<1>3. PICK order \in Orders : items' = PageOf(order, walk.page, walk.perPage)
  BY DEF FindPage
<1>4. /\ items' \in Seq(entries) /\ Len(items') <= walk.perPage
      /\ Shown' \subseteq entries
      /\ \A e \in entries : Unique(e) =>
           (e \in Shown' <=> PageStart <= Rank(e) /\ Rank(e) < PageEnd)
  BY <1>1, <1>3, ShownByFind
<1>5. HistoryTypeOK'
  BY <1>1, <1>2, <1>4 DEF HistoryTypeOK
<1>6. /\ PageStart' = PageStart /\ PageEnd' = PageEnd
      /\ \A e \in entries : Rank(e)' = Rank(e) /\ (Unique(e)' <=> Unique(e))
  BY <1>1, <1>2 DEF PageStart, PageEnd, Rank, Newer, Unique
<1>7. /\ PageStart \in Nat /\ PageEnd \in Nat
      /\ \A e \in entries : Rank(e) \in Nat
  BY <1>1, RankBound DEF HistoryTypeOK, WalkRecords, PageStart, PageEnd, Offset
<1>8. SeenOK'
  BY <1>1, <1>6 DEF SeenOK, HistoryTypeOK
<1>9. PageOK'
  BY <1>1, <1>4, <1>6, <1>7 DEF PageOK, SeenOK, HistoryTypeOK
<1>10. WalkOK'
  BY <1>1, <1>2, <1>8, <1>9 DEF WalkOK
<1>11. RepeatsOnlyAfterInsert'
  BY <1>1, <1>6 DEF HistoryInv, RepeatsOnlyAfterInsert, HistoryTypeOK
<1> QED BY <1>2, <1>5, <1>10, <1>11
  DEF HistoryInv, WalkMissesNothing, TotalCoversWhatIsShown

LEMMA AnswerErrorHistory ==
    ASSUME HistoryInv, AnswerError
    PROVE  HistoryInv'
<1>1. /\ HistoryTypeOK /\ walk.pc = "count" /\ walk.page > 0 /\ walk.perPage > 0 /\ SeenOK
      /\ walk' = [walk EXCEPT !.pc = "find"]
      /\ createdAt' = createdAt /\ entries' = entries /\ items' = items
      /\ seen' = seen /\ repeated' = repeated /\ present' = present
  BY DEF HistoryInv, WalkOK, AnswerError
<1>2. /\ walk'.pc = "find" /\ walk'.page = walk.page /\ walk'.perPage = walk.perPage
      /\ walk' \in WalkRecords
  BY <1>1 DEF HistoryTypeOK, WalkRecords
<1>3. HistoryTypeOK'
  BY <1>1, <1>2 DEF HistoryTypeOK
<1>4. SeenOK'
  BY <1>1, <1>2 DEF SeenOK, PageStart, Rank, Newer, Unique
<1>5. RepeatsOnlyAfterInsert'
  BY <1>1 DEF HistoryInv, RepeatsOnlyAfterInsert, Unique
<1> QED BY <1>1, <1>2, <1>3, <1>4, <1>5
  DEF HistoryInv, WalkOK, WalkMissesNothing, TotalCoversWhatIsShown

LEMMA AnswerHistory ==
    ASSUME HistoryInv, Answer
    PROVE  HistoryInv'
<1> DEFINE total == Cardinality(entries)
           last == walk.page >= TotalPages(total, walk.perPage)
<1>1. /\ HistoryTypeOK /\ walk.pc = "count" /\ SeenOK /\ PageOK
      /\ walk.page \in Nat \ {0} /\ walk.perPage \in Nat \ {0}
      /\ createdAt' = createdAt /\ entries' = entries /\ items' = items
      /\ seen' = seen \cup Shown /\ repeated' = repeated \cup (seen \cap Shown)
      /\ present' = present
  BY DEF HistoryInv, WalkOK, Answer, HistoryTypeOK, WalkRecords
<1>2. Shown \subseteq entries
  BY <1>1, ElementOfSeq, LenProperties DEF Shown, HistoryTypeOK
<1>3. total \in Nat /\ IsFiniteSet(entries)
  BY <1>1, HistoryAssumption, FS_Subset, FS_CardinalityType DEF HistoryTypeOK, HistoryAssumption
<1>4. /\ walk' \in WalkRecords /\ walk'.perPage = walk.perPage /\ walk'.total = total
      /\ last => walk'.pc = "idle" /\ walk'.page = walk.page
      /\ ~last => walk'.pc = "find" /\ walk'.page = walk.page + 1
  <2>1. walk' = [walk EXCEPT !.total = total,
                             !.page = IF last THEN @ ELSE @ + 1,
                             !.pc = IF last THEN "idle" ELSE "find"]
    BY DEF Answer
  <2> HIDE DEF last, total
  <2>2. walk \in WalkRecords
    BY <1>1 DEF HistoryTypeOK
  <2>3. CASE last
    <3>1. walk' = [walk EXCEPT !.total = total, !.page = @, !.pc = "idle"]
      BY <2>1, <2>3
    <3> QED BY <1>1, <1>3, <2>2, <2>3, <3>1 DEF WalkRecords
  <2>4. CASE ~last
    <3> DEFINE next == walk.page + 1
    <3>1. next \in Nat
      BY <1>1
    <3>2. walk' = [walk EXCEPT !.total = total, !.page = next, !.pc = "find"]
      BY <2>1, <2>4
    <3> HIDE DEF next
    <3>3. /\ walk' \in WalkRecords /\ walk'.perPage = walk.perPage /\ walk'.total = total
          /\ walk'.pc = "find" /\ walk'.page = next
      BY <1>3, <2>2, <3>1, <3>2 DEF WalkRecords
    <3> QED BY <2>4, <3>3 DEF next
  <2> QED BY <2>3, <2>4
<1> HIDE DEF last, total
<1>5. HistoryTypeOK'
  BY <1>1, <1>2, <1>4 DEF HistoryTypeOK
<1>6. /\ PageStart \in Nat /\ PageEnd = PageStart + walk.perPage
      /\ PageEnd = walk.page * walk.perPage
  BY <1>1, OffsetOfPages DEF PageStart, PageEnd
<1>7. \A e \in entries : /\ Rank(e) \in Nat /\ Rank(e) < total
                         /\ Rank(e)' = Rank(e) /\ (Unique(e)' <=> Unique(e))
  BY <1>1, RankBound DEF Rank, Newer, Unique, total
\* What has been shown by now, the page included.
<1>8. \A e \in present : Unique(e) /\ e \notin seen' => Rank(e) >= PageEnd
  BY <1>1 DEF PageOK
<1>9. entries = present =>
        /\ \A e \in seen' : Unique(e) => Rank(e) < PageEnd
        /\ \A e \in seen \cap Shown : ~Unique(e)
  BY <1>1, <1>2, <1>6, <1>7 DEF PageOK, SeenOK, HistoryTypeOK
<1>10. WalkOK'
  <2>1. CASE last
    BY <1>1, <1>4, <2>1 DEF WalkOK
  <2>2. CASE ~last
    <3>1. PageStart' = PageEnd
      BY <1>1, <1>4, <2>2 DEF PageStart, PageEnd
    <3>2. SeenOK'
      BY <1>1, <1>2, <1>7, <1>8, <1>9, <3>1 DEF SeenOK, HistoryTypeOK
    <3> QED BY <1>1, <1>4, <2>2, <3>2 DEF WalkOK
  <2> QED BY <2>1, <2>2
<1>11. WalkMissesNothing'
  <2> SUFFICES ASSUME last, NEW e \in present, Unique(e), e \notin seen' PROVE FALSE
    BY <1>1, <1>4, <1>7 DEF WalkMissesNothing, HistoryTypeOK
  <2>1. e \in entries /\ Rank(e) >= PageEnd
    BY <1>1, <1>8 DEF HistoryTypeOK
  <2>2. total <= walk.page * walk.perPage
    BY <1>1, <1>3, TotalPagesCover DEF last
  <2>3. PageEnd \in Nat
    BY <1>1, <1>6
  <2> QED BY <1>3, <1>6, <1>7, <2>1, <2>2, <2>3
<1>12. RepeatsOnlyAfterInsert'
  BY <1>1, <1>2, <1>7, <1>9 DEF HistoryInv, RepeatsOnlyAfterInsert, HistoryTypeOK
<1>13. TotalCoversWhatIsShown'
  <2>1. seen' \in SUBSET entries
    BY <1>1, <1>2 DEF HistoryTypeOK
  <2> QED BY <1>3, <1>4, <2>1, FS_Subset DEF TotalCoversWhatIsShown, total
<1> QED BY <1>5, <1>10, <1>11, <1>12, <1>13 DEF HistoryInv

LEMMA NextHistoryInv ==
    ASSUME HistoryInv, [HistoryNext]_historyVars
    PROVE  HistoryInv'
<1>1. CASE UNCHANGED historyVars
  BY <1>1 DEF historyVars, walkVars, HistoryInv, HistoryTypeOK, WalkOK, SeenOK, PageOK,
              PageStart, PageEnd, Rank, Newer, Unique, Shown,
              WalkMissesNothing, RepeatsOnlyAfterInsert, TotalCoversWhatIsShown
<1>2. CASE HistoryNext
  BY <1>2, InsertHistory, StartWalkHistory, FindHistory, AnswerHistory, AnswerErrorHistory
  DEF HistoryNext
<1> QED BY <1>1, <1>2

-----------------------------------------------------------------------------
(* The theorems *)

LEMMA HistoryInvariance == HistorySpec => []HistoryInv
<1>1. HistoryInit => HistoryInv
  BY InitHistoryInv
<1>2. HistoryInv /\ [HistoryNext]_historyVars => HistoryInv'
  BY NextHistoryInv
<1> QED BY <1>1, <1>2, PTL DEF HistorySpec

\* What a walk shows are entries of the account, at most a page of them at a time
\* (transaction_service.go:91-107).
THEOREM HistoryTypeCorrect == HistorySpec => []HistoryTypeOK
<1>1. HistoryInv => HistoryTypeOK
  BY DEF HistoryInv
<1> QED BY HistoryInvariance, <1>1, PTL

\* However many entries are inserted at whatever place between the pages and
\* between the two queries of a page, a finished walk has shown every entry that
\* was there when it began and shares its created_at with nobody
\* (transaction_service.go:94-99, ledger_repository.go:119-123).
THEOREM WalkComplete == HistorySpec => []WalkMissesNothing
<1>1. HistoryInv => WalkMissesNothing
  BY DEF HistoryInv
<1> QED BY HistoryInvariance, <1>1, PTL

\* Without an insertion since the walk began no such entry is shown twice, although
\* every page is a query of its own (transaction_service.go:94-101).
THEOREM WalkRepeatsNothing == HistorySpec => []RepeatsOnlyAfterInsert
<1>1. HistoryInv => RepeatsOnlyAfterInsert
  BY DEF HistoryInv
<1> QED BY HistoryInvariance, <1>1, PTL

\* The total of the last answer is not below what the walk has shown, for any
\* insertions between Find and CountDocuments (transaction_service.go:96-106).
THEOREM TotalCorrect == HistorySpec => []TotalCoversWhatIsShown
<1>1. HistoryInv => TotalCoversWhatIsShown
  BY DEF HistoryInv
<1> QED BY HistoryInvariance, <1>1, PTL
=============================================================================
