------------------------ MODULE FrameAllocatorProofs ------------------------
(***************************************************************************)
(* Proofs about FrameAllocator and its clients, for every page size,       *)
(* address width, table capacity and memory map.                           *)
(*                                                                         *)
(* The inductive invariant AllocatorInv says that both extent tables are   *)
(* canonical (sorted, aligned, disjoint and with no two extents adjacent)  *)
(* and that what is free is managed.  The tables are sequences and the     *)
(* pool they implement is a set: being canonical is what makes a search by *)
(* address, and a merge with the two neighbours only, enough.              *)
(***************************************************************************)
EXTENDS FrameClient, FiniteSetTheorems, TLAPS

ExtentType == [start : Nat, pages : Nat]

Aligned(a) == a % PageSize = 0

(* An extent of whole pages that ends within the address range. *)
ExtentOK(e) ==
    /\ e \in ExtentType
    /\ e.pages > 0
    /\ Aligned(e.start)
    /\ End(e) <= AddressMax

(* A canonical extent table. *)
Canonical(table) ==
    /\ table \in Seq(ExtentType)
    /\ \A i \in DOMAIN table : ExtentOK(table[i])
    /\ \A i, j \in DOMAIN table : i < j => End(table[i]) < table[j].start

AllocatorInv ==
    /\ Canonical(managed) /\ Canonical(free)
    /\ Len(managed) <= MaxExtents /\ Len(free) <= MaxExtents
    /\ PagesIn(free) \subseteq PagesIn(managed)
    /\ map = <<>> => managed = <<>>
-----------------------------------------------------------------------------
(* Addresses of pages. *)

(* A multiple of the page size is aligned, and only those are. *)
LEMMA AlignedMeaning ==
    ASSUME NEW a \in Nat
    PROVE  Aligned(a) <=> \E q \in Nat : a = q * PageSize
<1>1. ASSUME Aligned(a) PROVE \E q \in Nat : a = q * PageSize
  BY <1>1, ContractAssumption DEF Aligned
<1>2. ASSUME NEW q \in Nat, a = q * PageSize PROVE Aligned(a)
  BY <1>2, ContractAssumption DEF Aligned
<1> QED
  BY <1>1, <1>2

(* Whole pages after an aligned address the next page starts. *)
LEMMA AlignedSum ==
    ASSUME NEW a \in Nat, Aligned(a), NEW k \in Nat
    PROVE  a + k * PageSize \in Nat /\ Aligned(a + k * PageSize)
<1>1. PICK q \in Nat : a = q * PageSize
  BY AlignedMeaning
<1>2. q + k \in Nat /\ a + k * PageSize = (q + k) * PageSize
  BY <1>1, ContractAssumption
<1>3. a + k * PageSize \in Nat
  BY ContractAssumption
<1> QED
  BY <1>2, <1>3, AlignedMeaning

(* Two aligned addresses are a whole page apart, or equal. *)
LEMMA AlignedGap ==
    ASSUME NEW a \in Nat, Aligned(a), NEW b \in Nat, Aligned(b), a < b
    PROVE  a + PageSize <= b /\ b - PageSize \in Nat /\ Aligned(b - PageSize)
<1>1. PICK q \in Nat : a = q * PageSize
  BY AlignedMeaning
<1>2. PICK r \in Nat : b = r * PageSize
  BY AlignedMeaning
<1>3. q < r
  BY <1>1, <1>2, ContractAssumption
<1>4. q * PageSize + PageSize <= r * PageSize
  BY <1>3, ContractAssumption
<1>5. r - 1 \in Nat /\ b - PageSize = (r - 1) * PageSize
  BY <1>2, <1>3, ContractAssumption
<1>6. b - PageSize \in Nat
  BY <1>1, <1>2, <1>4, ContractAssumption
<1> QED
  BY <1>1, <1>2, <1>4, <1>5, <1>6, AlignedMeaning

(* The page after an aligned address. *)
LEMMA AlignedNext ==
    ASSUME NEW a \in Nat, Aligned(a)
    PROVE  a + PageSize \in Nat /\ Aligned(a + PageSize) /\ a < a + PageSize
<1>1. a + 1 * PageSize \in Nat /\ Aligned(a + 1 * PageSize)
  BY AlignedSum
<1>2. 1 * PageSize = PageSize
  BY ContractAssumption
<1> QED
  BY <1>1, <1>2, ContractAssumption

(* Where an extent ends. *)
LEMMA ExtentEnd ==
    ASSUME NEW e, ExtentOK(e)
    PROVE  /\ e.start \in Nat /\ e.pages \in Nat /\ Aligned(e.start)
           /\ End(e) \in Nat /\ Aligned(End(e))
           /\ e.start < End(e) /\ e.start + PageSize <= End(e) /\ End(e) <= AddressMax
<1>1. /\ e.start \in Nat /\ e.pages \in Nat /\ e.pages > 0 /\ Aligned(e.start)
      /\ End(e) <= AddressMax
  BY DEF ExtentOK, ExtentType
<1>2. End(e) = e.start + e.pages * PageSize
  BY DEF End
<1>3. End(e) \in Nat /\ Aligned(End(e))
  BY <1>1, <1>2, AlignedSum
<1>4. e.pages * PageSize >= PageSize /\ e.pages * PageSize \in Nat
  BY <1>1, ContractAssumption
<1> QED
  BY <1>1, <1>2, <1>3, <1>4, ContractAssumption

(* The pages of an extent are the aligned addresses it spans. *)
LEMMA ExtentPages ==
    ASSUME NEW e, ExtentOK(e), NEW frame
    PROVE  frame \in PagesOf(e) <=>
              frame \in Nat /\ Aligned(frame) /\ e.start <= frame /\ frame < End(e)
<1>1. /\ e.start \in Nat /\ e.pages \in Nat /\ Aligned(e.start)
      /\ End(e) = e.start + e.pages * PageSize
  BY ExtentEnd DEF End
<1>2. ASSUME NEW k \in 0 .. e.pages - 1, frame = e.start + k * PageSize
      PROVE  frame \in Nat /\ Aligned(frame) /\ e.start <= frame /\ frame < End(e)
  <2>1. k \in Nat /\ k < e.pages
    BY <1>1
  <2>2. frame \in Nat /\ Aligned(frame)
    BY <1>1, <1>2, <2>1, AlignedSum
  <2>3. k * PageSize \in Nat /\ k * PageSize + PageSize <= e.pages * PageSize
    BY <1>1, <2>1, ContractAssumption
  <2>4. e.pages * PageSize \in Nat
    BY <1>1, ContractAssumption
  <2> QED
    BY <1>1, <1>2, <2>2, <2>3, <2>4, ContractAssumption
<1>3. ASSUME frame \in Nat, Aligned(frame), e.start <= frame, frame < End(e)
      PROVE  \E k \in 0 .. e.pages - 1 : frame = e.start + k * PageSize
  <2>1. PICK q \in Nat : e.start = q * PageSize
    BY <1>1, AlignedMeaning
  <2>2. PICK r \in Nat : frame = r * PageSize
    BY <1>3, AlignedMeaning
  <2>3. q <= r
    BY <1>3, <2>1, <2>2, ContractAssumption
  <2>4. End(e) = (q + e.pages) * PageSize
    BY <1>1, <2>1, ContractAssumption
  <2>5. r < q + e.pages
    BY <1>1, <1>3, <2>2, <2>4, ContractAssumption
  <2>6. r - q \in 0 .. e.pages - 1 /\ frame = e.start + (r - q) * PageSize
    BY <1>1, <2>1, <2>2, <2>3, <2>5, ContractAssumption
  <2> QED
    BY <2>6
<1> QED
  BY <1>2, <1>3 DEF PagesOf
-----------------------------------------------------------------------------
(* Tables. *)

(* What a canonical table says about the extents in it. *)
LEMMA TableFacts ==
    ASSUME NEW t, Canonical(t)
    PROVE  /\ t \in Seq(ExtentType) /\ Len(t) \in Nat /\ DOMAIN t = 1 .. Len(t)
           /\ \A i \in 1 .. Len(t) :
                 /\ ExtentOK(t[i])
                 /\ t[i].start \in Nat /\ t[i].pages \in Nat /\ Aligned(t[i].start)
                 /\ End(t[i]) \in Nat /\ Aligned(End(t[i]))
                 /\ t[i].start < End(t[i]) /\ t[i].start + PageSize <= End(t[i])
                 /\ End(t[i]) <= AddressMax
           /\ \A i, j \in 1 .. Len(t) : i < j => End(t[i]) < t[j].start
<1>1. t \in Seq(ExtentType) /\ Len(t) \in Nat /\ DOMAIN t = 1 .. Len(t)
  BY DEF Canonical
<1> QED
  BY <1>1, ExtentEnd, Zenon DEF Canonical

(* The pages of a table are the aligned addresses its extents span. *)
LEMMA TablePages ==
    ASSUME NEW t, Canonical(t), NEW frame
    PROVE  frame \in PagesIn(t) <=>
              /\ frame \in Nat /\ Aligned(frame)
              /\ \E i \in 1 .. Len(t) : t[i].start <= frame /\ frame < End(t[i])
<1>1. DOMAIN t = 1 .. Len(t) /\ \A i \in 1 .. Len(t) : ExtentOK(t[i])
  BY TableFacts
<1>2. frame \in PagesIn(t) <=> \E i \in 1 .. Len(t) : frame \in PagesOf(t[i])
  BY <1>1 DEF PagesIn
<1> QED
  BY <1>1, <1>2, ExtentPages

(* An extent starts with a page of its table. *)
LEMMA StartsArePages ==
    ASSUME NEW t, Canonical(t), NEW i \in 1 .. Len(t)
    PROVE  t[i].start \in Nat /\ Aligned(t[i].start) /\ t[i].start \in PagesIn(t)
<1>1. PICK p \in Nat : p = t[i].start /\ Aligned(p) /\ t[i].start <= p /\ p < End(t[i])
  BY TableFacts
<1> QED
  BY <1>1, TablePages

(* Extents have a gap between them: no address is in two of them, the ends *)
(* counted.                                                                *)
LEMMA GapBetween ==
    ASSUME NEW t, Canonical(t), NEW i \in 1 .. Len(t), NEW k \in 1 .. Len(t), NEW p \in Nat,
           t[i].start <= p, p <= End(t[i]), t[k].start <= p, p <= End(t[k])
    PROVE  i = k
<1>1. /\ Len(t) \in Nat
      /\ t[i].start \in Nat /\ End(t[i]) \in Nat /\ t[k].start \in Nat /\ End(t[k]) \in Nat
      /\ i < k => End(t[i]) < t[k].start
      /\ k < i => End(t[k]) < t[i].start
  BY TableFacts
<1>2. ~(i < k) /\ ~(k < i)
  BY <1>1
<1> QED
  BY <1>1, <1>2

(* So no two extents have the same start. *)
LEMMA StartsDiffer ==
    ASSUME NEW t, Canonical(t), NEW i \in 1 .. Len(t), NEW k \in 1 .. Len(t),
           t[i].start = t[k].start
    PROVE  i = k
<1>1. PICK p \in Nat : /\ t[i].start <= p /\ p <= End(t[i])
                       /\ t[k].start <= p /\ p <= End(t[k])
  <2>1. /\ t[i].start \in Nat /\ End(t[i]) \in Nat /\ End(t[k]) \in Nat
        /\ t[i].start < End(t[i]) /\ t[k].start < End(t[k])
    BY TableFacts
  <2> QED
    BY <2>1
<1> QED
  BY <1>1, GapBetween

(* The empty table has no pages. *)
LEMMA EmptyTable == Canonical(<<>>) /\ PagesIn(<<>>) = {}
BY DEF Canonical, PagesIn

(* What allocate_frame leaves of the free table. *)
WithoutFirst(t) ==
    IF t[1].pages = 1
    THEN Tail(t)
    ELSE [t EXCEPT ![1] = Extent(@.start + PageSize, @.pages - 1)]

(* The extent that is left when the first page of one is taken. *)
LEMMA FirstPageTaken ==
    ASSUME NEW e, ExtentOK(e), e.pages # 1
    PROVE  LET r == Extent(e.start + PageSize, e.pages - 1)
           IN  ExtentOK(r) /\ r.start = e.start + PageSize /\ End(r) = End(e)
<1> DEFINE r == Extent(e.start + PageSize, e.pages - 1)
<1>1. /\ e.start \in Nat /\ e.pages \in Nat /\ e.pages > 0 /\ Aligned(e.start)
      /\ End(e) <= AddressMax
  BY ExtentEnd DEF ExtentOK
<1>2. r.start = e.start + PageSize /\ r.pages = e.pages - 1
  BY DEF Extent
<1>3. r \in ExtentType /\ r.pages > 0 /\ Aligned(r.start)
  BY <1>1, <1>2, AlignedNext DEF Extent, ExtentType
<1>4. End(r) = End(e)
  BY <1>1, <1>2, ContractAssumption DEF End
<1> QED
  BY <1>1, <1>2, <1>3, <1>4 DEF ExtentOK

(* allocate_frame takes the lowest free page and keeps the table canonical. *)
LEMMA TakeFirst ==
    ASSUME NEW t, Canonical(t), t # <<>>
    PROVE  /\ Canonical(WithoutFirst(t))
           /\ Len(WithoutFirst(t)) <= Len(t)
           /\ t[1].start \in PagesIn(t)
           /\ \A frame \in PagesIn(t) : t[1].start <= frame
           /\ PagesIn(WithoutFirst(t)) = PagesIn(t) \ {t[1].start}
<1> DEFINE n == Len(t)
           first == t[1].start
<1>1. /\ t \in Seq(ExtentType) /\ n \in Nat /\ DOMAIN t = 1 .. n /\ n # 0 /\ 1 \in 1 .. n
      /\ \A i \in 1 .. n :
            /\ ExtentOK(t[i])
            /\ t[i].start \in Nat /\ t[i].pages \in Nat /\ Aligned(t[i].start)
            /\ End(t[i]) \in Nat /\ Aligned(End(t[i]))
            /\ t[i].start < End(t[i]) /\ t[i].start + PageSize <= End(t[i])
            /\ End(t[i]) <= AddressMax
      /\ \A i, j \in 1 .. n : i < j => End(t[i]) < t[j].start
  BY TableFacts
<1>2. first \in PagesIn(t)
  <2>1. first \in Nat /\ Aligned(first) /\ t[1].start <= first /\ first < End(t[1])
    BY <1>1
  <2> QED
    BY <1>1, <2>1, TablePages, Zenon
<1>3. \A frame \in PagesIn(t) : first <= frame
  <2> TAKE frame \in PagesIn(t)
  <2>1. PICK i \in 1 .. n : t[i].start <= frame
    BY TablePages
  <2>2. frame \in Nat
    BY TablePages
  <2>3. CASE i = 1
    BY <2>1, <2>3
  <2>4. CASE i # 1
    <3>1. End(t[1]) < t[i].start
      BY <1>1, <2>4
    <3> QED
      BY <1>1, <2>1, <2>2, <3>1
  <2> QED
    BY <2>3, <2>4
<1>4. CASE t[1].pages = 1
  <2> DEFINE u == Tail(t)
  <2>1. WithoutFirst(t) = u
    BY <1>4 DEF WithoutFirst
  <2>2. /\ u \in Seq(ExtentType) /\ Len(u) = n - 1 /\ DOMAIN u = 1 .. n - 1
        /\ \A i \in 1 .. n - 1 : u[i] = t[i + 1]
    BY <1>1
  <2>3. End(t[1]) = first + PageSize
    BY <1>1, <1>4, ContractAssumption DEF End
  <2> HIDE DEF u
  <2>4. Canonical(u)
    <3>1. \A i \in 1 .. n - 1 : i + 1 \in 1 .. n /\ ExtentOK(u[i])
      BY <1>1, <2>2
    <3>2. ASSUME NEW i \in 1 .. n - 1, NEW j \in 1 .. n - 1, i < j
          PROVE  End(u[i]) < u[j].start
      <4>1. i + 1 \in 1 .. n /\ j + 1 \in 1 .. n /\ i + 1 < j + 1
        BY <1>1, <3>2
      <4> QED
        BY <1>1, <2>2, <4>1
    <3> QED
      BY <2>2, <3>1, <3>2 DEF Canonical
  <2>5. ASSUME NEW frame PROVE frame \in PagesIn(u) <=> frame \in PagesIn(t) \ {first}
    <3>1. ASSUME frame \in PagesIn(u) PROVE frame \in PagesIn(t) \ {first}
      <4>1. PICK i \in 1 .. n - 1 : u[i].start <= frame /\ frame < End(u[i])
        BY <2>2, <2>4, <3>1, TablePages
      <4>2. i + 1 \in 1 .. n /\ t[i + 1].start <= frame /\ frame < End(t[i + 1])
        BY <1>1, <2>2, <4>1
      <4>3. End(t[1]) < t[i + 1].start
        BY <1>1, <4>2
      <4>4. frame \in Nat /\ Aligned(frame)
        BY <2>4, <3>1, TablePages
      <4>5. frame # first
        BY <1>1, <4>2, <4>3, <4>4
      <4> QED
        BY <4>2, <4>4, <4>5, TablePages
    <3>2. ASSUME frame \in PagesIn(t), frame # first PROVE frame \in PagesIn(u)
      <4>1. PICK i \in 1 .. n : t[i].start <= frame /\ frame < End(t[i])
        BY <3>2, TablePages
      <4>2. frame \in Nat /\ Aligned(frame)
        BY <3>2, TablePages
      <4>3. i # 1
        <5>1. SUFFICES ASSUME i = 1 PROVE FALSE
          OBVIOUS
        <5>2. first < frame
          BY <1>1, <3>2, <4>1, <4>2, <5>1
        <5>3. first + PageSize <= frame
          BY <1>1, <4>2, <5>2, AlignedGap
        <5> QED
          BY <1>1, <2>3, <4>1, <4>2, <5>1, <5>3, ContractAssumption
      <4>4. i - 1 \in 1 .. n - 1 /\ u[i - 1] = t[i]
        BY <1>1, <2>2, <4>3
      <4> QED
        BY <2>2, <2>4, <4>1, <4>2, <4>4, TablePages
    <3> QED
      BY <3>1, <3>2
  <2> QED
    BY <1>1, <1>2, <1>3, <2>1, <2>2, <2>4, <2>5
<1>5. CASE t[1].pages # 1
  <2> DEFINE r == Extent(first + PageSize, t[1].pages - 1)
             u == [t EXCEPT ![1] = r]
  <2>1. WithoutFirst(t) = u
    BY <1>1, <1>5 DEF WithoutFirst
  <2>2. ExtentOK(r) /\ r.start = first + PageSize /\ End(r) = End(t[1])
    BY <1>1, <1>5, FirstPageTaken
  <2> HIDE DEF r
  <2>3. r \in ExtentType /\ r.start \in Nat
    BY <2>2, ExtentEnd DEF ExtentOK
  <2>4. /\ u \in Seq(ExtentType) /\ Len(u) = n /\ DOMAIN u = 1 .. n
        /\ u[1] = r /\ \A i \in 2 .. n : u[i] = t[i]
    BY <1>1, <2>3
  <2> HIDE DEF u
  <2>5. Canonical(u)
    <3>1. \A i \in 1 .. n : ExtentOK(u[i]) /\ End(u[i]) = End(t[i])
      BY <1>1, <2>2, <2>4
    <3>2. \A i, j \in 1 .. n : i < j => End(u[i]) < u[j].start
      BY <1>1, <2>4, <3>1
    <3> QED
      BY <2>4, <3>1, <3>2 DEF Canonical
  <2>6. ASSUME NEW frame PROVE frame \in PagesIn(u) <=> frame \in PagesIn(t) \ {first}
    <3>1. ASSUME frame \in PagesIn(u) PROVE frame \in PagesIn(t) \ {first}
      <4>1. PICK i \in 1 .. n : u[i].start <= frame /\ frame < End(u[i])
        BY <2>4, <2>5, <3>1, TablePages
      <4>2. frame \in Nat /\ Aligned(frame)
        BY <2>5, <3>1, TablePages
      <4>3. t[i].start <= frame /\ frame < End(t[i]) /\ frame # first
        <5>1. CASE i = 1
          BY <1>1, <2>2, <2>4, <4>1, <4>2, <5>1, ContractAssumption
        <5>2. CASE i # 1
          <6>1. End(t[1]) < t[i].start /\ u[i] = t[i]
            BY <1>1, <2>4, <5>2
          <6> QED
            BY <1>1, <4>1, <4>2, <6>1
        <5> QED
          BY <5>1, <5>2
      <4> QED
        BY <4>2, <4>3, TablePages
    <3>2. ASSUME frame \in PagesIn(t), frame # first PROVE frame \in PagesIn(u)
      <4>1. PICK i \in 1 .. n : t[i].start <= frame /\ frame < End(t[i])
        BY <3>2, TablePages
      <4>2. frame \in Nat /\ Aligned(frame)
        BY <3>2, TablePages
      <4>3. u[i].start <= frame /\ frame < End(u[i])
        <5>1. CASE i = 1
          <6>1. first < frame
            BY <1>1, <3>2, <4>1, <4>2, <5>1
          <6>2. first + PageSize <= frame
            BY <1>1, <4>2, <6>1, AlignedGap
          <6> QED
            BY <2>2, <2>4, <4>1, <5>1, <6>2
        <5>2. CASE i # 1
          BY <2>4, <4>1, <5>2
        <5> QED
          BY <5>1, <5>2
      <4> QED
        BY <2>4, <2>5, <4>2, <4>3, TablePages
    <3> QED
      BY <3>1, <3>2
  <2> QED
    BY <1>1, <1>2, <1>3, <2>1, <2>4, <2>5, <2>6
<1> QED
  BY <1>4, <1>5
-----------------------------------------------------------------------------
(* free_frame. *)

(* A non-empty set of naturals has a least element, which Min selects. *)
LEMMA LeastElement ==
    ASSUME NEW S \in SUBSET Nat, S # {}
    PROVE  Min(S) \in S /\ \A y \in S : Min(S) <= y
<1>1. PICK x \in S : \A y \in S : <<y, x>> \notin OpToRel(<, Nat)
  BY WFMin, NatLessThanWellFounded, Zenon
<1>2. \A y \in S : ~(y < x)
  BY <1>1, Zenon DEF OpToRel
<1>3. \A y \in S : x <= y
  BY <1>2
<1> QED
  BY <1>1, <1>3, Zenon DEF Min

(* The loop stops at the first free extent that does not start below the   *)
(* returned frame.                                                         *)
LEMMA InsertionMeaning ==
    ASSUME NEW frame, Len(free) \in Nat, DOMAIN free = 1 .. Len(free)
    PROVE  /\ Insertion(frame) \in 0 .. Len(free)
           /\ \A j \in 1 .. Insertion(frame) : free[j].start < frame
           /\ Insertion(frame) < Len(free) => ~(free[Insertion(frame) + 1].start < frame)
<1> DEFINE n == Len(free)
           passed == {i \in DOMAIN free : \A j \in 1 .. i : free[j].start < frame}
           others == {i \in 1 .. n + 1 : i \notin passed}
<1>1. n + 1 \in others /\ others \in SUBSET Nat
  OBVIOUS
<1>2. PICK x : x = Min(others)
  BY Zenon
<1>3. x \in others /\ \A y \in others : x <= y
  <2> HIDE DEF others
  <2> QED
    BY <1>1, <1>2, LeastElement
<1>4. x \in 1 .. n + 1 /\ x \notin passed
  BY <1>3
<1>5. \A i \in 1 .. x - 1 : i \in passed
  BY <1>3, <1>4
<1>6. \A i \in passed : i \in 1 .. x - 1
  <2> TAKE i \in passed
  <2>1. SUFFICES ASSUME x <= i PROVE FALSE
    BY <1>4
  <2>2. x \in 1 .. n /\ \A j \in 1 .. x : free[j].start < frame
    BY <1>4, <2>1
  <2> QED
    BY <1>4, <2>2
<1>7. passed = 1 .. x - 1
  BY <1>5, <1>6
<1>8. Cardinality(1 .. x - 1) = x - 1
  BY <1>4, FS_Interval
<1>9. Insertion(frame) = x - 1
  BY <1>7, <1>8, Zenon DEF Insertion, Quantify
<1>10. \A j \in 1 .. x - 1 : free[j].start < frame
  BY <1>5
<1>11. x - 1 < n => ~(free[x].start < frame)
  BY <1>4, <1>10
<1> QED
  BY <1>4, <1>9, <1>10, <1>11

(* FirstFailure is Ok when no check holds, and otherwise reports the first *)
(* check that does.                                                        *)
LEMMA FirstFailureMeaning ==
    ASSUME NEW checks, NEW n \in Nat, Len(checks) = n
    PROVE  \/ FirstFailure(checks) = "Ok" /\ (\A i \in 1 .. n : ~checks[i][1])
           \/ \E i \in 1 .. n : /\ checks[i][1]
                                /\ FirstFailure(checks) = checks[i][2]
                                /\ \A j \in 1 .. i - 1 : ~checks[j][1]
<1> DEFINE I == {i \in 1 .. n : checks[i][1]}
<1>1. FirstFailure(checks) = IF I = {} THEN "Ok" ELSE checks[Min(I)][2]
  BY Zenon DEF FirstFailure
<1>2. CASE I = {}
  BY <1>1, <1>2
<1>3. CASE I # {}
  <2>1. I \in SUBSET Nat
    OBVIOUS
  <2> HIDE DEF I
  <2>2. PICK k : k = Min(I)
    OBVIOUS
  <2>3. k \in I /\ \A y \in I : k <= y
    BY <1>3, <2>1, <2>2, LeastElement
  <2>4. k \in 1 .. n /\ checks[k][1] /\ \A j \in 1 .. k - 1 : ~checks[j][1]
    BY <2>3 DEF I
  <2>5. FirstFailure(checks) = checks[k][2]
    BY <1>1, <1>3, <2>2, <2>4
  <2> QED
    BY <2>4, <2>5
<1> QED
  BY <1>2, <1>3

(* Two checks in order. *)
LEMMA FirstOfTwo ==
    ASSUME NEW a \in BOOLEAN, NEW b \in BOOLEAN, NEW x, NEW y
    PROVE  FirstFailure(<< <<a, x>>, <<b, y>> >>) =
              IF a THEN x ELSE IF b THEN y ELSE "Ok"
<1> DEFINE c == << <<a, x>>, <<b, y>> >>
<1>1. Len(c) = 2 /\ c[1][1] = a /\ c[1][2] = x /\ c[2][1] = b /\ c[2][2] = y
  OBVIOUS
<1> HIDE DEF c
<1>2. \/ FirstFailure(c) = "Ok" /\ (\A i \in 1 .. 2 : ~c[i][1])
      \/ \E i \in 1 .. 2 : /\ c[i][1] /\ FirstFailure(c) = c[i][2]
                           /\ \A j \in 1 .. i - 1 : ~c[j][1]
  BY <1>1, FirstFailureMeaning, Zenon
<1>3. FirstFailure(c) = IF a THEN x ELSE IF b THEN y ELSE "Ok"
  BY <1>1, <1>2
<1> QED
  BY <1>3 DEF c

(* free_frame accepts a frame exactly when none of its checks fails. *)
LEMMA FreeAccepted ==
    ASSUME NEW frame
    PROVE  FreeStatus(frame) = "Ok" <=>
              /\ ~(frame % PageSize # 0)
              /\ ~Overflows(frame + PageSize)
              /\ ~(\A i \in DOMAIN managed : ~ContainsFrame(managed[i], frame))
              /\ ~(\E i \in 1..(Insertion(frame) + 1) \intersect DOMAIN free :
                      ContainsFrame(free[i], frame))
              /\ ~(Insertion(frame) > 0 /\ Overflows(End(free[Insertion(frame)])))
              /\ ~Overflows(MergedPages(frame))
              /\ ~(~JoinsLeft(frame) /\ ~JoinsRight(frame) /\ Len(free) = MaxExtents)
<1> DEFINE a1 == frame % PageSize # 0
           a2 == Overflows(frame + PageSize)
           a3 == \A i \in DOMAIN managed : ~ContainsFrame(managed[i], frame)
           a4 == \E i \in 1..(Insertion(frame) + 1) \intersect DOMAIN free :
                    ContainsFrame(free[i], frame)
           a5 == Insertion(frame) > 0 /\ Overflows(End(free[Insertion(frame)]))
           a6 == Overflows(MergedPages(frame))
           a7 == ~JoinsLeft(frame) /\ ~JoinsRight(frame) /\ Len(free) = MaxExtents
           c == << <<a1, "Unaligned">>, <<a2, "AddressOverflow">>, <<a3, "Unmanaged">>,
                   <<a4, "Duplicate">>, <<a5, "AddressOverflow">>, <<a6, "AddressOverflow">>,
                   <<a7, "CapacityExceeded">> >>
<1>1. FreeStatus(frame) = FirstFailure(c)
  BY Zenon DEF FreeStatus
<1>2. /\ a1 \in BOOLEAN /\ a2 \in BOOLEAN /\ a3 \in BOOLEAN /\ a4 \in BOOLEAN
      /\ a5 \in BOOLEAN /\ a6 \in BOOLEAN /\ a7 \in BOOLEAN
  BY DEF Overflows
<1> HIDE DEF a1, a2, a3, a4, a5, a6, a7
<1>3. /\ Len(c) = 7
      /\ c[1][1] = a1 /\ c[2][1] = a2 /\ c[3][1] = a3 /\ c[4][1] = a4
      /\ c[5][1] = a5 /\ c[6][1] = a6 /\ c[7][1] = a7
  BY <1>2
<1>4. \A i \in 1 .. 7 : c[i][2] # "Ok"
  OBVIOUS
<1> HIDE DEF c
<1>5. \/ FirstFailure(c) = "Ok" /\ (\A i \in 1 .. 7 : ~c[i][1])
      \/ \E i \in 1 .. 7 : /\ c[i][1] /\ FirstFailure(c) = c[i][2]
                           /\ \A j \in 1 .. i - 1 : ~c[j][1]
  BY <1>3, FirstFailureMeaning, Zenon
<1>6. (\A i \in 1 .. 7 : ~c[i][1]) <=> ~a1 /\ ~a2 /\ ~a3 /\ ~a4 /\ ~a5 /\ ~a6 /\ ~a7
  BY <1>3
<1>7. FreeStatus(frame) = "Ok" <=> ~a1 /\ ~a2 /\ ~a3 /\ ~a4 /\ ~a5 /\ ~a6 /\ ~a7
  BY <1>1, <1>4, <1>5, <1>6
<1> QED
  BY <1>7, Zenon DEF a1, a2, a3, a4, a5, a6, a7

(* Addresses are ordered. *)
LEMMA LessTransitive == \A p, q, r \in Nat : p < q /\ q < r => p < r
OBVIOUS

(* y is t with e in place of the extents after a and before b. *)
Spliced(t, a, e, b, y) ==
    /\ a \in 0 .. Len(t) /\ b \in a + 1 .. Len(t) + 1
    /\ a > 0 => End(t[a]) < e.start
    /\ b <= Len(t) => End(e) < t[b].start
    /\ y \in Seq(ExtentType) /\ Len(y) = Len(t) + a + 2 - b
    /\ \A i \in 1 .. a : y[i] = t[i]
    /\ y[a + 1] = e
    /\ \A i \in a + 2 .. Len(y) : y[i] = t[i + b - a - 2]

(* Putting one extent in place of those between two others keeps the table *)
(* canonical when it touches neither.                                      *)
LEMMA Splice ==
    ASSUME NEW t, Canonical(t), NEW e, ExtentOK(e), NEW a, NEW b, NEW y, Spliced(t, a, e, b, y)
    PROVE  /\ Canonical(y)
           /\ \A frame : frame \in PagesIn(y) <=>
                 /\ frame \in Nat /\ Aligned(frame)
                 /\ \/ e.start <= frame /\ frame < End(e)
                    \/ \E i \in 1 .. a \cup b .. Len(t) : t[i].start <= frame /\ frame < End(t[i])
<1> DEFINE n == Len(t)
           m == Len(y)
           Old(i) == i + b - a - 2
<1> USE DEF Spliced
<1>1. /\ n \in Nat
      /\ \A i \in 1 .. n :
            /\ ExtentOK(t[i])
            /\ t[i].start \in Nat /\ End(t[i]) \in Nat /\ t[i].start < End(t[i])
      /\ \A i, j \in 1 .. n : i < j => End(t[i]) < t[j].start
  BY TableFacts
<1>2. /\ e.start \in Nat /\ End(e) \in Nat /\ e.start < End(e)
  BY ExtentEnd
<1>3. m \in Nat /\ DOMAIN y = 1 .. m /\ m = n + a + 2 - b /\ a \in Nat /\ b \in Nat /\ a + 1 <= m
  BY <1>1
<1>4. \A i \in 1 .. m : \/ i \in 1 .. a /\ i \in 1 .. n /\ y[i] = t[i]
                        \/ i = a + 1 /\ y[i] = e
                        \/ i \in a + 2 .. m /\ Old(i) \in b .. n /\ Old(i) \in 1 .. n
                           /\ y[i] = t[Old(i)]
  <2> TAKE i \in 1 .. m
  <2>1. i \in 1 .. a \/ i = a + 1 \/ i \in a + 2 .. m
    BY <1>3
  <2>2. CASE i \in 1 .. a
    <3>1. i \in 1 .. n
      BY <1>1, <1>3, <2>2
    <3> QED
      BY <2>2, <3>1
  <2>3. CASE i \in a + 2 .. m
    <3>1. Old(i) \in b .. n /\ Old(i) \in 1 .. n
      BY <1>1, <1>3, <2>3
    <3> QED
      BY <2>3, <3>1
  <2> QED
    BY <2>1, <2>2, <2>3
<1>5. \A i \in 1 .. a : End(t[i]) < e.start
  <2> TAKE i \in 1 .. a
  <2>1. i \in 1 .. n /\ a \in 1 .. n /\ End(t[a]) < e.start
    BY <1>1, <1>3
  <2>2. CASE i = a
    BY <2>1, <2>2
  <2>3. CASE i # a
    <3>1. End(t[i]) < t[a].start
      BY <1>1, <1>3, <2>1, <2>3
    <3>2. /\ End(t[i]) \in Nat /\ t[a].start \in Nat /\ End(t[a]) \in Nat
          /\ t[a].start < End(t[a]) /\ e.start \in Nat
      BY <1>1, <1>2, <2>1
    <3> QED
      BY <2>1, <3>1, <3>2
  <2> QED
    BY <2>2, <2>3
<1>6. \A i \in b .. n : End(e) < t[i].start
  <2> TAKE i \in b .. n
  <2>1. i \in 1 .. n /\ b \in 1 .. n /\ End(e) < t[b].start
    BY <1>1, <1>3
  <2>2. CASE i = b
    BY <2>1, <2>2
  <2>3. CASE i # b
    <3>1. End(t[b]) < t[i].start
      BY <1>1, <1>3, <2>1, <2>3
    <3>2. t[b].start < End(t[b]) /\ t[b].start \in Nat /\ End(t[b]) \in Nat /\ t[i].start \in Nat
      BY <1>1, <2>1
    <3>3. t[b].start < t[i].start
      BY <3>1, <3>2, LessTransitive, Zenon
    <3> QED
      BY <1>2, <2>1, <3>2, <3>3, LessTransitive, Zenon
  <2> QED
    BY <2>2, <2>3
<1> HIDE DEF Old
<1>7. \A i \in 1 .. m : ExtentOK(y[i])
  BY <1>1, <1>4
<1>8. ASSUME NEW i \in 1 .. m, NEW j \in 1 .. m, i < j PROVE End(y[i]) < y[j].start
  <2>1. CASE i \in 1 .. a /\ i \in 1 .. n /\ y[i] = t[i]
    <3>1. CASE j \in 1 .. a /\ j \in 1 .. n /\ y[j] = t[j]
      BY <1>1, <1>8, <2>1, <3>1
    <3>2. CASE j = a + 1 /\ y[j] = e
      BY <1>5, <2>1, <3>2
    <3>3. CASE Old(j) \in b .. n /\ Old(j) \in 1 .. n /\ y[j] = t[Old(j)]
      <4>1. i < Old(j)
        BY <1>3, <2>1, <3>3
      <4> QED
        BY <1>1, <2>1, <3>3, <4>1, Zenon
    <3> QED
      BY <1>4, <3>1, <3>2, <3>3
  <2>2. CASE i = a + 1 /\ y[i] = e
    <3>1. j \in a + 2 .. m
      BY <1>3, <1>8, <2>2
    <3>2. Old(j) \in b .. n /\ y[j] = t[Old(j)]
      BY <1>3, <1>4, <3>1
    <3> QED
      BY <1>6, <2>2, <3>2
  <2>3. CASE i \in a + 2 .. m /\ Old(i) \in 1 .. n /\ y[i] = t[Old(i)]
    <3>1. j \in a + 2 .. m
      BY <1>3, <1>8, <2>3
    <3>2. Old(j) \in 1 .. n /\ y[j] = t[Old(j)]
      BY <1>3, <1>4, <3>1
    <3>3. Old(i) < Old(j)
      BY <1>3, <1>8 DEF Old
    <3> QED
      BY <1>1, <2>3, <3>2, <3>3, Zenon
  <2> QED
    BY <1>4, <2>1, <2>2, <2>3
<1>9. Canonical(y)
  BY <1>3, <1>7, <1>8, Zenon DEF Canonical
<1>10. ASSUME NEW frame
       PROVE  (\E i \in 1 .. m : y[i].start <= frame /\ frame < End(y[i])) <=>
                 \/ e.start <= frame /\ frame < End(e)
                 \/ \E i \in 1 .. a \cup b .. n : t[i].start <= frame /\ frame < End(t[i])
  <2>1. ASSUME NEW i \in 1 .. m, y[i].start <= frame, frame < End(y[i])
        PROVE  \/ e.start <= frame /\ frame < End(e)
               \/ \E k \in 1 .. a \cup b .. n : t[k].start <= frame /\ frame < End(t[k])
    BY <1>4, <2>1, Zenon
  <2>2. ASSUME e.start <= frame, frame < End(e)
        PROVE  \E i \in 1 .. m : y[i].start <= frame /\ frame < End(y[i])
    <3>1. a + 1 \in 1 .. m
      BY <1>3
    <3> QED
      BY <2>2, <3>1
  <2>3. ASSUME NEW k \in 1 .. a \cup b .. n, t[k].start <= frame, frame < End(t[k])
        PROVE  \E i \in 1 .. m : y[i].start <= frame /\ frame < End(y[i])
    <3>1. CASE k \in 1 .. a
      <4>1. k \in 1 .. m /\ y[k] = t[k]
        BY <1>3, <3>1
      <4> QED
        BY <2>3, <4>1
    <3>2. CASE k \in b .. n
      <4>1. k - b + a + 2 \in a + 2 .. m /\ k - b + a + 2 \in 1 .. m
        BY <1>3, <3>2
      <4>2. Old(k - b + a + 2) = k
        BY <1>3, <3>2 DEF Old
      <4>3. y[k - b + a + 2] = t[k]
        BY <4>1, <4>2 DEF Old
      <4> QED
        BY <2>3, <4>1, <4>3
    <3> QED
      BY <3>1, <3>2
  <2> QED
    BY <2>1, <2>2, <2>3
<1> QED
  BY <1>9, <1>10, TablePages, Zenon

(* Where an accepted frame belongs: managed, not free, and between the two *)
(* free extents the loop stopped at.                                       *)
LEMMA FramePlace ==
    ASSUME AllocatorInv, NEW frame \in Nat, FreeStatus(frame) = "Ok",
           NEW at, at = Insertion(frame)
    PROVE  /\ at \in 0 .. Len(free)
           /\ Aligned(frame) /\ frame + PageSize <= AddressMax
           /\ frame \in PagesIn(managed) /\ frame \notin PagesIn(free)
           /\ at > 0 => End(free[at]) <= frame
           /\ at < Len(free) => frame + PageSize <= free[at + 1].start
           /\ JoinsLeft(frame) \/ JoinsRight(frame) \/ Len(free) < MaxExtents
<1> DEFINE n == Len(free)
<1>1. /\ n \in Nat /\ DOMAIN free = 1 .. n /\ n <= MaxExtents
      /\ \A i \in 1 .. n :
            /\ free[i].start \in Nat /\ Aligned(free[i].start)
            /\ End(free[i]) \in Nat /\ Aligned(End(free[i]))
            /\ free[i].start < End(free[i]) /\ free[i].start + PageSize <= End(free[i])
            /\ End(free[i]) <= AddressMax
      /\ \A i, j \in 1 .. n : i < j => End(free[i]) < free[j].start
  BY TableFacts DEF AllocatorInv
<1>2. /\ at \in 0 .. n
      /\ \A j \in 1 .. at : free[j].start < frame
      /\ at < n => ~(free[at + 1].start < frame)
  BY <1>1, InsertionMeaning
<1>3. /\ Aligned(frame)
      /\ frame + PageSize <= AddressMax
      /\ \E i \in DOMAIN managed : ContainsFrame(managed[i], frame)
      /\ \A i \in 1..(at + 1) \intersect DOMAIN free : ~ContainsFrame(free[i], frame)
      /\ JoinsLeft(frame) \/ JoinsRight(frame) \/ Len(free) # MaxExtents
  BY FreeAccepted, ContractAssumption DEF Overflows, Aligned
<1>4. frame \in PagesIn(managed)
  <2>1. PICK i \in DOMAIN managed : managed[i].start <= frame /\ frame + PageSize <= End(managed[i])
    BY <1>3 DEF ContainsFrame
  <2>2. i \in 1 .. Len(managed) /\ End(managed[i]) \in Nat /\ Canonical(managed)
    BY <2>1, TableFacts DEF AllocatorInv
  <2>3. frame < End(managed[i])
    BY <2>1, <2>2, ContractAssumption
  <2> QED
    BY <1>3, <2>1, <2>2, <2>3, TablePages
<1>5. \A i \in 1 .. n : ContainsFrame(free[i], frame) <=>
                            free[i].start <= frame /\ frame + PageSize <= End(free[i])
  BY <1>1, ContractAssumption DEF ContainsFrame, Overflows
<1>6. ASSUME at > 0 PROVE End(free[at]) <= frame
  <2>1. at \in 1 .. n /\ at \in 1 .. at + 1
    BY <1>1, <1>2, <1>6
  <2>2. ~(frame + PageSize <= End(free[at]))
    BY <1>1, <1>2, <1>3, <1>5, <2>1
  <2>3. ~(frame < End(free[at]))
    BY <1>1, <1>3, <2>1, <2>2, AlignedGap
  <2> QED
    BY <1>1, <2>1, <2>3
<1>7. ASSUME at < n PROVE frame + PageSize <= free[at + 1].start
  <2>1. at + 1 \in 1 .. n /\ at + 1 \in 1 .. at + 1
    BY <1>1, <1>2, <1>7
  <2>2. ~(free[at + 1].start <= frame /\ frame + PageSize <= End(free[at + 1]))
    BY <1>1, <1>3, <1>5, <2>1
  <2>3. free[at + 1].start # frame
    BY <1>1, <2>1, <2>2
  <2>4. frame < free[at + 1].start
    BY <1>1, <1>2, <1>7, <2>1, <2>3
  <2> QED
    BY <1>1, <1>3, <2>1, <2>4, AlignedGap
<1>8. frame \notin PagesIn(free)
  <2>1. SUFFICES ASSUME NEW i \in 1 .. n, free[i].start <= frame, frame < End(free[i])
                 PROVE  FALSE
    BY TablePages DEF AllocatorInv
  <2>2. CASE i <= at
    <3>1. End(free[at]) <= frame /\ at \in 1 .. n
      BY <1>1, <1>2, <1>6, <2>2
    <3>2. i = at \/ End(free[i]) < free[at].start
      BY <1>1, <1>2, <2>2, <3>1
    <3> QED
      BY <1>1, <2>1, <3>1, <3>2
  <2>3. CASE i > at
    <3>1. at + 1 \in 1 .. n /\ frame + PageSize <= free[at + 1].start
      BY <1>1, <1>2, <1>7, <2>3
    <3>2. i = at + 1 \/ End(free[at + 1]) < free[i].start
      BY <1>1, <1>2, <2>3, <3>1
    <3> QED
      BY <1>1, <2>1, <3>1, <3>2, ContractAssumption
  <2> QED
    BY <1>1, <1>2, <2>2, <2>3
<1>9. n # MaxExtents => n < MaxExtents
  <2>1. \A x, y \in Nat : x <= y /\ x # y => x < y
    OBVIOUS
  <2>2. MaxExtents \in Nat
    BY ContractAssumption DEF MaxExtents
  <2> QED
    BY <1>1, <2>1, <2>2, Zenon
<1> QED
  BY <1>2, <1>3, <1>4, <1>6, <1>7, <1>8, <1>9, Zenon

(* A splice whose extent spans exactly the extents it replaces and one     *)
(* more frame adds that frame to the table's pages.                        *)
LEMMA SpliceAdds ==
    ASSUME NEW t, Canonical(t), NEW e, ExtentOK(e), NEW frame \in Nat, Aligned(frame),
           NEW a, NEW b, NEW y, Spliced(t, a, e, b, y),
           \A f \in Nat : Aligned(f) =>
              (e.start <= f /\ f < End(e) <=>
                 f = frame \/ \E i \in a + 1 .. b - 1 : t[i].start <= f /\ f < End(t[i]))
    PROVE  Canonical(y) /\ PagesIn(y) = PagesIn(t) \cup {frame}
<1>1. /\ Canonical(y)
      /\ \A f : f \in PagesIn(y) <=>
            /\ f \in Nat /\ Aligned(f)
            /\ \/ e.start <= f /\ f < End(e)
               \/ \E i \in 1 .. a \cup b .. Len(t) : t[i].start <= f /\ f < End(t[i])
  BY Splice
<1>2. \A i : i \in 1 .. Len(t) <=> i \in a + 1 .. b - 1 \/ i \in 1 .. a \cup b .. Len(t)
  BY TableFacts DEF Spliced
<1>3. ASSUME NEW f PROVE f \in PagesIn(y) <=> f \in PagesIn(t) \cup {frame}
  <2>1. f \in PagesIn(t) <=>
           /\ f \in Nat /\ Aligned(f)
           /\ \E i \in 1 .. Len(t) : t[i].start <= f /\ f < End(t[i])
    BY TablePages
  <2>2. (\E i \in 1 .. Len(t) : t[i].start <= f /\ f < End(t[i])) <=>
           \/ \E i \in a + 1 .. b - 1 : t[i].start <= f /\ f < End(t[i])
           \/ \E i \in 1 .. a \cup b .. Len(t) : t[i].start <= f /\ f < End(t[i])
    BY <1>2, Zenon
  <2> QED
    BY <1>1, <2>1, <2>2
<1> QED
  BY <1>1, <1>3

(* Only one page starts within a page. *)
LEMMA OnePage ==
    ASSUME NEW frame \in Nat, Aligned(frame), NEW f \in Nat, Aligned(f)
    PROVE  frame <= f /\ f < frame + PageSize <=> f = frame
<1>1. frame < f => frame + PageSize <= f
  BY AlignedGap
<1> QED
  BY <1>1, ContractAssumption

(* InsertAt moves what was at or after the place by one. *)
LEMMA InsertedAt ==
    ASSUME NEW t \in Seq(ExtentType), NEW at \in 0 .. Len(t), NEW e \in ExtentType
    PROVE  LET y == InsertAt(t, at + 1, e)
           IN  /\ y \in Seq(ExtentType) /\ Len(y) = Len(t) + 1
               /\ \A i \in 1 .. at : y[i] = t[i]
               /\ y[at + 1] = e
               /\ \A i \in at + 2 .. Len(t) + 1 : y[i] = t[i - 1]
<1> DEFINE p == SubSeq(t, 1, at)
           q == SubSeq(t, at + 1, Len(t))
           pe == p \o <<e>>
           y == InsertAt(t, at + 1, e)
<1>1. Len(t) \in Nat /\ at \in Nat /\ at <= Len(t)
  OBVIOUS
<1>2. p \in Seq(ExtentType) /\ Len(p) = at /\ \A i \in 1 .. at : p[i] = t[i]
  BY <1>1
<1>3. /\ q \in Seq(ExtentType) /\ Len(q) = Len(t) - at
      /\ \A i \in 1 .. Len(t) - at : q[i] = t[at + i]
  BY <1>1
<1>4. InsertAt(t, at + 1, e) = pe \o q
  <2>1. (at + 1) - 1 = at
    BY <1>1
  <2> QED
    BY <2>1, Zenon DEF InsertAt
<1> HIDE DEF p, q
<1>5. /\ pe \in Seq(ExtentType) /\ Len(pe) = at + 1 /\ pe[at + 1] = e
      /\ \A i \in 1 .. at : pe[i] = p[i]
  BY <1>1, <1>2
<1> HIDE DEF pe
<1>6. /\ pe \o q \in Seq(ExtentType) /\ Len(pe \o q) = Len(t) + 1
      /\ \A i \in 1 .. at + 1 : (pe \o q)[i] = pe[i]
      /\ \A i \in at + 2 .. Len(t) + 1 : (pe \o q)[i] = q[i - (at + 1)]
  BY <1>1, <1>3, <1>5
<1>7. \A i \in at + 2 .. Len(t) + 1 : q[i - (at + 1)] = t[i - 1]
  <2> TAKE i \in at + 2 .. Len(t) + 1
  <2>1. i - (at + 1) \in 1 .. Len(t) - at /\ at + (i - (at + 1)) = i - 1
    BY <1>1
  <2> QED
    BY <1>3, <2>1
<1> HIDE DEF y
<1>8. y = pe \o q
  BY <1>4 DEF y
<1>9. /\ \A i \in 1 .. at : y[i] = t[i]
      /\ y[at + 1] = e
      /\ \A i \in at + 2 .. Len(t) + 1 : y[i] = t[i - 1]
  BY <1>1, <1>2, <1>5, <1>6, <1>7, <1>8
<1> QED
  BY <1>6, <1>8, <1>9, Zenon DEF y

(* The extent a returned frame becomes part of. *)
LEMMA MergedExtent ==
    ASSUME NEW s \in Nat, Aligned(s), NEW k \in Nat, k > 0,
           s + k * PageSize <= AddressMax
    PROVE  LET e == Extent(s, k)
           IN  ExtentOK(e) /\ e \in ExtentType /\ e.start = s /\ End(e) = s + k * PageSize
<1> DEFINE e == Extent(s, k)
<1>1. e \in ExtentType /\ e.start = s /\ e.pages = k
  BY DEF Extent, ExtentType
<1>2. End(e) = s + k * PageSize
  BY <1>1 DEF End
<1> QED
  BY <1>1, <1>2 DEF ExtentOK

(* A frame between two free extents it does not touch is an extent of its  *)
(* own.                                                                    *)
LEMMA InsertsAlone ==
    ASSUME NEW t, Canonical(t), NEW frame \in Nat, Aligned(frame),
           frame + PageSize <= AddressMax, NEW at \in 0 .. Len(t),
           at > 0 => End(t[at]) < frame,
           at < Len(t) => frame + PageSize < t[at + 1].start
    PROVE  LET y == InsertAt(t, at + 1, Extent(frame, 1))
           IN  Canonical(y) /\ PagesIn(y) = PagesIn(t) \cup {frame} /\ Len(y) = Len(t) + 1
<1> DEFINE e == Extent(frame, 1)
           y == InsertAt(t, at + 1, e)
<1>1. ExtentOK(e) /\ e \in ExtentType /\ e.start = frame /\ End(e) = frame + PageSize
  <2>1. 1 * PageSize = PageSize
    BY ContractAssumption
  <2> QED
    BY <2>1, MergedExtent
<1> HIDE DEF e
<1>2. t \in Seq(ExtentType) /\ Len(t) \in Nat
  BY TableFacts
<1>3. /\ y \in Seq(ExtentType) /\ Len(y) = Len(t) + 1
      /\ \A i \in 1 .. at : y[i] = t[i]
      /\ y[at + 1] = e
      /\ \A i \in at + 2 .. Len(t) + 1 : y[i] = t[i - 1]
  BY <1>1, <1>2, InsertedAt, Zenon
<1> HIDE DEF y
<1>4. PICK b : b = at + 1
  OBVIOUS
<1>5. /\ b \in at + 1 .. Len(t) + 1 /\ Len(y) = Len(t) + at + 2 - b
      /\ at > 0 => End(t[at]) < e.start
      /\ b <= Len(t) => End(e) < t[b].start
  BY <1>1, <1>2, <1>3, <1>4
<1>6. \A i \in at + 2 .. Len(y) : y[i] = t[i + b - at - 2]
  <2> TAKE i \in at + 2 .. Len(y)
  <2>1. i + b - at - 2 = i - 1 /\ i \in at + 2 .. Len(t) + 1
    BY <1>2, <1>3, <1>4
  <2> QED
    BY <1>3, <2>1
<1>7. \A f \in Nat : Aligned(f) =>
         (e.start <= f /\ f < End(e) <=>
            f = frame \/ \E i \in at + 1 .. b - 1 : t[i].start <= f /\ f < End(t[i]))
  <2>1. at + 1 .. b - 1 = {}
    BY <1>2, <1>4
  <2>2. \A f \in Nat : Aligned(f) => (e.start <= f /\ f < End(e) <=> f = frame)
    BY <1>1, OnePage
  <2> QED
    BY <2>1, <2>2
<1>8. Spliced(t, at, e, b, y)
  BY <1>3, <1>5, <1>6 DEF Spliced
<1>9. Canonical(y) /\ PagesIn(y) = PagesIn(t) \cup {frame}
  BY <1>1, <1>7, <1>8, SpliceAdds
<1> QED
  BY <1>3, <1>9 DEF y, e


(* Where the elements of two tables put together are. *)
LEMMA Together ==
    ASSUME NEW p \in Seq(ExtentType), NEW q \in Seq(ExtentType)
    PROVE  /\ p \o q \in Seq(ExtentType) /\ Len(p \o q) = Len(p) + Len(q)
           /\ \A i \in 1 .. Len(p) : (p \o q)[i] = p[i]
           /\ \A i \in 1 .. Len(q) : (p \o q)[Len(p) + i] = q[i]
<1>1. p \o q \in Seq(ExtentType) /\ Len(p \o q) = Len(p) + Len(q)
  OBVIOUS
<1>2. ASSUME NEW i \in 1 .. Len(p) PROVE (p \o q)[i] = p[i]
  OBVIOUS
<1>3. ASSUME NEW i \in 1 .. Len(q) PROVE (p \o q)[Len(p) + i] = q[i]
  OBVIOUS
<1> QED
  BY <1>1, <1>2, <1>3

(* RemoveAt moves what was after the place by one. *)
LEMMA RemovedAt ==
    ASSUME NEW t \in Seq(ExtentType), NEW at \in Nat, NEW m \in Nat, Len(t) = at + 1 + m
    PROVE  LET y == RemoveAt(t, at + 1)
           IN  /\ y \in Seq(ExtentType) /\ Len(y) = at + m
               /\ \A i \in 1 .. at : y[i] = t[i]
               /\ \A i \in 1 .. m : y[at + i] = t[at + 1 + i]
<1> DEFINE p == SubSeq(t, 1, at)
           q == SubSeq(t, at + 2, Len(t))
           y == RemoveAt(t, at + 1)
<1>1. y = p \o q
  <2>1. (at + 1) - 1 = at /\ (at + 1) + 1 = at + 2
    OBVIOUS
  <2> QED
    BY <2>1, Zenon DEF RemoveAt
<1>2. p \in Seq(ExtentType) /\ Len(p) = at /\ \A i \in 1 .. at : p[i] = t[i]
  OBVIOUS
<1>3. q \in Seq(ExtentType) /\ Len(q) = m /\ \A i \in 1 .. m : q[i] = t[at + 1 + i]
  OBVIOUS
<1> HIDE DEF p, q, y
<1>4. /\ p \o q \in Seq(ExtentType) /\ Len(p \o q) = at + m
      /\ \A i \in 1 .. at : (p \o q)[i] = p[i]
      /\ \A i \in 1 .. m : (p \o q)[at + i] = q[i]
  BY <1>2, <1>3, Together, Zenon
<1> QED
  BY <1>1, <1>2, <1>3, <1>4, Zenon DEF y

(* The length of a frame and the extents around it. *)
LEMMA PagesSum ==
    ASSUME NEW p \in Nat, NEW q \in Nat
    PROVE  /\ p * PageSize \in Nat /\ q * PageSize \in Nat
           /\ (1 + p + q) * PageSize = PageSize + p * PageSize + q * PageSize
BY ContractAssumption

(* The two ways a joined extent is written back. *)
LongerAt(t, at, k) == [t EXCEPT ![at].pages = k]
PutAt(t, at, e) == [t EXCEPT ![at] = e]

(* y is t with the extent e in one place. *)
HasAt(y, t, at, e) ==
    /\ y \in Seq(ExtentType) /\ Len(y) = Len(t) /\ y[at] = e
    /\ \A i \in 1 .. Len(t) : i # at => y[i] = t[i]

(* An extent put in the place of another. *)
LEMMA PutThere ==
    ASSUME NEW t \in Seq(ExtentType), NEW at \in 1 .. Len(t), NEW e \in ExtentType
    PROVE  HasAt(PutAt(t, at, e), t, at, e)
BY DEF PutAt, HasAt

(* A longer extent at the same place. *)
LEMMA Lengthened ==
    ASSUME NEW t \in Seq(ExtentType), NEW at \in 1 .. Len(t), NEW k \in Nat
    PROVE  /\ LongerAt(t, at, k) = PutAt(t, at, Extent(t[at].start, k))
           /\ Extent(t[at].start, k) \in ExtentType
<1>1. PICK x \in ExtentType : x = t[at]
  OBVIOUS
<1>2. [x EXCEPT !.pages = k] = Extent(x.start, k)
  BY DEF ExtentType, Extent
<1>3. Extent(x.start, k) \in ExtentType
  BY DEF ExtentType, Extent
<1> QED
  BY <1>1, <1>2, <1>3, Zenon DEF LongerAt, PutAt

(* The extent a frame and its neighbours make spans just them. *)
LEMMA JoinedExtent ==
    ASSUME NEW s \in Nat, NEW p \in Nat, NEW q \in Nat, NEW frame \in Nat, NEW z \in Nat,
           Aligned(s), frame = s + p * PageSize, z = frame + PageSize + q * PageSize,
           z <= AddressMax
    PROVE  LET e == Extent(s, 1 + p + q)
           IN  ExtentOK(e) /\ e \in ExtentType /\ e.start = s /\ End(e) = z
<1>1. PICK k \in Nat : k = 1 + p + q /\ k > 0
  OBVIOUS
<1>2. /\ k * PageSize = PageSize + p * PageSize + q * PageSize
      /\ p * PageSize \in Nat /\ q * PageSize \in Nat
  BY <1>1, PagesSum
<1>3. PICK pp \in Nat, qq \in Nat, kk \in Nat :
         pp = p * PageSize /\ qq = q * PageSize /\ kk = k * PageSize
  BY <1>1, <1>2, ContractAssumption
<1>4. kk = PageSize + pp + qq /\ frame = s + pp /\ z = frame + PageSize + qq
  BY <1>2, <1>3, Zenon
<1>5. \A u, v, w, x, y, g \in Nat : y = w + u + v /\ x = g + u => g + y = x + w + v
  OBVIOUS
<1>6. s + kk = z
  BY <1>4, <1>5, ContractAssumption
<1>7. s + k * PageSize <= AddressMax /\ s + k * PageSize = z
  BY <1>3, <1>6
<1> QED
  BY <1>1, <1>7, MergedExtent

(* What that extent spans, frame by frame. *)
LEMMA JoinedSpan ==
    ASSUME NEW s \in Nat, NEW frame \in Nat, NEW z \in Nat, Aligned(frame),
           s <= frame, frame + PageSize <= z, NEW f \in Nat, Aligned(f)
    PROVE  s <= f /\ f < z <=>
              f = frame \/ (s <= f /\ f < frame) \/ (frame + PageSize <= f /\ f < z)
<1>1. frame <= f /\ f < frame + PageSize <=> f = frame
  BY OnePage
<1> QED
  BY <1>1, ContractAssumption

(* y is t with the c extents after the first a replaced by e; m follow.    *)
Replaced(t, a, c, m, e, y) ==
    /\ a \in Nat /\ c \in Nat /\ m \in Nat /\ Len(t) = a + c + m
    /\ a > 0 => End(t[a]) < e.start
    /\ m > 0 => End(e) < t[a + c + 1].start
    /\ y \in Seq(ExtentType) /\ Len(y) = a + 1 + m
    /\ \A i \in 1 .. a : y[i] = t[i]
    /\ y[a + 1] = e
    /\ \A i \in 1 .. m : y[a + 1 + i] = t[a + c + i]

(* That is a splice. *)
LEMMA ReplacedIsSpliced ==
    ASSUME NEW t, NEW a, NEW c, NEW m, NEW e, NEW y, Replaced(t, a, c, m, e, y)
    PROVE  Spliced(t, a, e, a + c + 1, y)
<1>1. a \in Nat /\ c \in Nat /\ m \in Nat /\ Len(t) = a + c + m /\ Len(y) = a + 1 + m
  BY DEF Replaced
<1>2. PICK b \in Nat : b = a + c + 1
  BY <1>1
<1>3. a \in 0 .. Len(t) /\ b \in a + 1 .. Len(t) + 1 /\ Len(y) = Len(t) + a + 2 - b
  BY <1>1, <1>2
<1>4. b <= Len(t) => End(e) < t[b].start
  BY <1>1, <1>2 DEF Replaced
<1>5. ASSUME NEW i \in a + 2 .. Len(y) PROVE y[i] = t[i + b - a - 2]
  <2>1. PICK j \in 1 .. m : i = a + 1 + j
    <3>1. i - a - 1 \in 1 .. m /\ i = a + 1 + (i - a - 1)
      BY <1>1
    <3> QED
      BY <3>1
  <2>2. i + b - a - 2 = a + c + j
    BY <1>1, <1>2, <2>1
  <2> QED
    BY <2>1, <2>2, Zenon DEF Replaced
<1>6. Spliced(t, a, e, b, y)
  BY <1>3, <1>4, <1>5 DEF Spliced, Replaced
<1> QED
  BY <1>2, <1>6

(* e can take the place of the c extents after the first a, which leave    *)
(* out just the frame.                                                     *)
Absorbs(t, a, c, m, e, frame) ==
    /\ ExtentOK(e) /\ e \in ExtentType
    /\ a > 0 => End(t[a]) < e.start
    /\ m > 0 => End(e) < t[a + c + 1].start
    /\ \A f \in Nat : Aligned(f) =>
          (e.start <= f /\ f < End(e) <=>
             f = frame \/ \E i \in a + 1 .. a + c : t[i].start <= f /\ f < End(t[i]))

(* y is t with the frame free. *)
Adds(t, frame, y) == Canonical(y) /\ PagesIn(y) = PagesIn(t) \cup {frame}

(* Putting such an extent there adds the frame. *)
LEMMA AbsorbAdds ==
    ASSUME NEW t, Canonical(t), NEW frame \in Nat, Aligned(frame), NEW a \in Nat, NEW c \in Nat,
           NEW m \in Nat, NEW e, Absorbs(t, a, c, m, e, frame),
           NEW y, Replaced(t, a, c, m, e, y)
    PROVE  Adds(t, frame, y)
<1>2. PICK b : b = a + c + 1
  OBVIOUS
<1>3. Spliced(t, a, e, b, y)
  BY <1>2, ReplacedIsSpliced
<1>4. b - 1 = a + c
  BY <1>2
<1>5. \A f \in Nat : Aligned(f) =>
         (e.start <= f /\ f < End(e) <=>
            f = frame \/ \E i \in a + 1 .. b - 1 : t[i].start <= f /\ f < End(t[i]))
  BY <1>4 DEF Absorbs
<1>6. ExtentOK(e)
  BY DEF Absorbs
<1>7. Canonical(y) /\ PagesIn(y) = PagesIn(t) \cup {frame}
  BY <1>3, <1>5, <1>6, SpliceAdds
<1> QED
  BY <1>7 DEF Adds

BothTouch(t, a, m, frame) ==
    /\ Len(t) = a + 2 + m
    /\ End(t[a + 1]) = frame /\ t[a + 2].start = frame + PageSize

(* The frame ends one extent and starts the next. *)
LEMMA AbsorbsBoth ==
    ASSUME NEW t, Canonical(t), NEW frame \in Nat, Aligned(frame), NEW a \in Nat, NEW m \in Nat,
           BothTouch(t, a, m, frame)
    PROVE  Absorbs(t, a, 2, m, Extent(t[a + 1].start, 1 + t[a + 1].pages + t[a + 2].pages), frame)
<1> DEFINE n == Len(t)
<1>1. /\ \A i \in 1 .. n :
            /\ t[i].start \in Nat /\ t[i].pages \in Nat /\ Aligned(t[i].start)
            /\ End(t[i]) \in Nat /\ t[i].start < End(t[i]) /\ End(t[i]) <= AddressMax
      /\ \A i, j \in 1 .. n : i < j => End(t[i]) < t[j].start
  BY TableFacts
<1>2. n = a + 2 + m /\ a + 1 \in 1 .. n /\ a + 2 \in 1 .. n
  BY DEF BothTouch
<1>3. PICK s, p, q, z \in Nat :
         s = t[a + 1].start /\ p = t[a + 1].pages /\ q = t[a + 2].pages /\ z = End(t[a + 2])
  BY <1>1, <1>2
<1>4. Aligned(s) /\ s < frame /\ z <= AddressMax /\ frame + PageSize < z
  <2>1. End(t[a + 1]) = frame /\ t[a + 2].start = frame + PageSize
    BY DEF BothTouch
  <2> QED
    BY <1>1, <1>2, <1>3, <2>1
<1>5. frame = s + p * PageSize /\ z = frame + PageSize + q * PageSize
  BY <1>3 DEF BothTouch, End
<1>6. PICK e \in ExtentType :
         e = Extent(s, 1 + p + q) /\ ExtentOK(e) /\ e.start = s /\ End(e) = z
  BY <1>4, <1>5, JoinedExtent
<1>7. ASSUME a > 0 PROVE End(t[a]) < e.start
  <2>1. a \in 1 .. n /\ a < a + 1
    BY <1>2, <1>7
  <2> QED
    BY <1>1, <1>2, <1>3, <1>6, <2>1
<1>8. ASSUME m > 0 PROVE End(e) < t[a + 2 + 1].start
  <2>1. a + 2 + 1 \in 1 .. n /\ a + 2 < a + 2 + 1
    BY <1>2, <1>8
  <2> QED
    BY <1>1, <1>2, <1>3, <1>6, <2>1, Zenon
<1>9. ASSUME NEW f \in Nat, Aligned(f)
      PROVE  e.start <= f /\ f < End(e) <=>
                f = frame \/ \E i \in a + 1 .. a + 2 : t[i].start <= f /\ f < End(t[i])
  <2>1. \A i : i \in a + 1 .. a + 2 <=> i = a + 1 \/ i = a + 2
    OBVIOUS
  <2>2. s <= frame /\ frame + PageSize <= z
    BY <1>4, ContractAssumption
  <2>3. s <= f /\ f < z <=> f = frame \/ (s <= f /\ f < frame) \/ (frame + PageSize <= f /\ f < z)
    BY <1>9, <2>2, JoinedSpan
  <2>4. End(t[a + 1]) = frame /\ t[a + 2].start = frame + PageSize
    BY DEF BothTouch
  <2> QED
    BY <1>3, <1>6, <2>1, <2>3, <2>4, Zenon
<1> QED
  BY <1>3, <1>6, <1>7, <1>8, <1>9 DEF Absorbs

LeftTouches(t, a, m, frame) ==
    /\ Len(t) = a + 1 + m
    /\ frame + PageSize <= AddressMax
    /\ End(t[a + 1]) = frame
    /\ m > 0 => frame + PageSize < t[a + 2].start

(* The frame ends an extent and does not start the next. *)
LEMMA AbsorbsLeft ==
    ASSUME NEW t, Canonical(t), NEW frame \in Nat, Aligned(frame), NEW a \in Nat, NEW m \in Nat,
           LeftTouches(t, a, m, frame)
    PROVE  Absorbs(t, a, 1, m, Extent(t[a + 1].start, 1 + t[a + 1].pages + 0), frame)
<1> DEFINE n == Len(t)
<1>1. /\ \A i \in 1 .. n :
            /\ t[i].start \in Nat /\ t[i].pages \in Nat /\ Aligned(t[i].start)
            /\ End(t[i]) \in Nat /\ t[i].start < End(t[i])
      /\ \A i, j \in 1 .. n : i < j => End(t[i]) < t[j].start
  BY TableFacts
<1>2. n = a + 1 + m /\ a + 1 \in 1 .. n
  BY DEF LeftTouches
<1>3. PICK s, p, z \in Nat : s = t[a + 1].start /\ p = t[a + 1].pages /\ z = frame + PageSize
  <2>1. t[a + 1].start \in Nat /\ t[a + 1].pages \in Nat
    BY <1>1, <1>2
  <2>2. frame + PageSize \in Nat
    BY ContractAssumption
  <2> QED
    BY <2>1, <2>2, Zenon
<1>4. Aligned(s) /\ s < frame /\ z <= AddressMax
  <2>1. End(t[a + 1]) = frame /\ frame + PageSize <= AddressMax
    BY DEF LeftTouches
  <2> QED
    BY <1>1, <1>2, <1>3, <2>1
<1>5. frame = s + p * PageSize /\ z = frame + PageSize + 0 * PageSize
  <2>1. frame = s + p * PageSize
    BY <1>3 DEF LeftTouches, End
  <2>2. 0 * PageSize = 0 /\ frame + PageSize + 0 = frame + PageSize
    BY ContractAssumption
  <2> QED
    BY <1>3, <2>1, <2>2
<1>6. PICK e \in ExtentType :
         e = Extent(s, 1 + p + 0) /\ ExtentOK(e) /\ e.start = s /\ End(e) = z
  BY <1>4, <1>5, JoinedExtent
<1>7. ASSUME a > 0 PROVE End(t[a]) < e.start
  <2>1. a \in 1 .. n /\ a < a + 1
    BY <1>2, <1>7
  <2> QED
    BY <1>1, <1>2, <1>3, <1>6, <2>1
<1>8. ASSUME m > 0 PROVE End(e) < t[a + 1 + 1].start
  BY <1>3, <1>6, <1>8 DEF LeftTouches
<1>9. ASSUME NEW f \in Nat, Aligned(f)
      PROVE  e.start <= f /\ f < End(e) <=>
                f = frame \/ \E i \in a + 1 .. a + 1 : t[i].start <= f /\ f < End(t[i])
  <2>1. \A i : i \in a + 1 .. a + 1 <=> i = a + 1
    OBVIOUS
  <2>2. s <= frame /\ frame + PageSize <= z
    BY <1>3, <1>4, ContractAssumption
  <2>3. s <= f /\ f < z <=> f = frame \/ (s <= f /\ f < frame) \/ (frame + PageSize <= f /\ f < z)
    BY <1>9, <2>2, JoinedSpan
  <2>4. ~(frame + PageSize <= f /\ f < z)
    BY <1>3, <1>9, ContractAssumption
  <2>5. End(t[a + 1]) = frame
    BY DEF LeftTouches
  <2> QED
    BY <1>3, <1>6, <2>1, <2>3, <2>4, <2>5, Zenon
<1> QED
  BY <1>3, <1>6, <1>7, <1>8, <1>9 DEF Absorbs

RightTouches(t, a, m, frame) ==
    /\ Len(t) = a + 1 + m
    /\ a > 0 => End(t[a]) < frame
    /\ t[a + 1].start = frame + PageSize

(* The frame starts an extent and does not end the one before. *)
LEMMA AbsorbsRight ==
    ASSUME NEW t, Canonical(t), NEW frame \in Nat, Aligned(frame), NEW a \in Nat, NEW m \in Nat,
           RightTouches(t, a, m, frame)
    PROVE  Absorbs(t, a, 1, m, Extent(frame, 1 + 0 + t[a + 1].pages), frame)
<1> DEFINE n == Len(t)
<1>1. /\ \A i \in 1 .. n :
            /\ t[i].start \in Nat /\ t[i].pages \in Nat
            /\ End(t[i]) \in Nat /\ t[i].start < End(t[i]) /\ End(t[i]) <= AddressMax
      /\ \A i, j \in 1 .. n : i < j => End(t[i]) < t[j].start
  BY TableFacts
<1>2. n = a + 1 + m /\ a + 1 \in 1 .. n
  BY DEF RightTouches
<1>3. PICK q, z \in Nat : q = t[a + 1].pages /\ z = End(t[a + 1])
  BY <1>1, <1>2
<1>4. z <= AddressMax /\ frame + PageSize < z
  <2>1. t[a + 1].start = frame + PageSize
    BY DEF RightTouches
  <2> QED
    BY <1>1, <1>2, <1>3, <2>1
<1>5. frame = frame + 0 * PageSize /\ z = frame + PageSize + q * PageSize
  <2>1. z = frame + PageSize + q * PageSize
    BY <1>3 DEF RightTouches, End
  <2>2. 0 * PageSize = 0 /\ frame + 0 = frame
    BY ContractAssumption
  <2> QED
    BY <2>1, <2>2
<1>6. PICK e \in ExtentType :
         e = Extent(frame, 1 + 0 + q) /\ ExtentOK(e) /\ e.start = frame /\ End(e) = z
  BY <1>4, <1>5, JoinedExtent
<1>7. a > 0 => End(t[a]) < e.start
  BY <1>6 DEF RightTouches
<1>8. ASSUME m > 0 PROVE End(e) < t[a + 1 + 1].start
  <2>1. a + 1 + 1 \in 1 .. n /\ a + 1 < a + 1 + 1
    BY <1>2, <1>8
  <2> QED
    BY <1>1, <1>2, <1>3, <1>6, <2>1
<1>9. ASSUME NEW f \in Nat, Aligned(f)
      PROVE  e.start <= f /\ f < End(e) <=>
                f = frame \/ \E i \in a + 1 .. a + 1 : t[i].start <= f /\ f < End(t[i])
  <2>1. \A i : i \in a + 1 .. a + 1 <=> i = a + 1
    OBVIOUS
  <2>2. frame <= frame /\ frame + PageSize <= z
    BY <1>4, ContractAssumption
  <2>3. frame <= f /\ f < z <=>
           f = frame \/ (frame <= f /\ f < frame) \/ (frame + PageSize <= f /\ f < z)
    BY <1>9, <2>2, JoinedSpan
  <2>4. ~(frame <= f /\ f < frame)
    OBVIOUS
  <2>5. t[a + 1].start = frame + PageSize
    BY DEF RightTouches
  <2> QED
    BY <1>3, <1>6, <2>1, <2>3, <2>4, <2>5, Zenon
<1> QED
  BY <1>3, <1>6, <1>7, <1>8, <1>9 DEF Absorbs

(* The table free_frame leaves when the frame joins both its neighbours. *)
LEMMA FreesBetween ==
    ASSUME NEW t, Canonical(t), NEW frame \in Nat, Aligned(frame), NEW a \in Nat, NEW m \in Nat,
           BothTouch(t, a, m, frame)
    PROVE  LET k == 1 + t[a + 1].pages + t[a + 2].pages
               y == RemoveAt(LongerAt(t, a + 1, k), a + 2)
           IN  Adds(t, frame, y) /\ Len(y) <= Len(t)
<1>1. /\ t \in Seq(ExtentType) /\ Len(t) = a + 2 + m
      /\ a + 1 \in 1 .. Len(t) /\ a + 2 \in 1 .. Len(t)
      /\ \A i \in 1 .. Len(t) : t[i].pages \in Nat
  BY TableFacts DEF BothTouch
<1>2. PICK k \in Nat : k = 1 + t[a + 1].pages + t[a + 2].pages
  BY <1>1
<1>3. PICK e \in ExtentType :
         e = Extent(t[a + 1].start, k) /\ LongerAt(t, a + 1, k) = PutAt(t, a + 1, e)
  BY <1>1, Lengthened, Zenon
<1>4. Absorbs(t, a, 2, m, e, frame)
  BY <1>2, <1>3, AbsorbsBoth
<1>5. PICK u : u = PutAt(t, a + 1, e)
  OBVIOUS
<1>6. /\ u \in Seq(ExtentType) /\ Len(u) = Len(t) /\ u[a + 1] = e
      /\ \A i \in 1 .. Len(t) : i # a + 1 => u[i] = t[i]
  <2>1. HasAt(u, t, a + 1, e)
    BY <1>1, <1>5, PutThere
  <2> QED
    BY <2>1, Zenon DEF HasAt
<1>7. PICK y : y = RemoveAt(u, a + 1 + 1)
  OBVIOUS
<1>8. /\ y \in Seq(ExtentType) /\ Len(y) = a + 1 + m
      /\ \A i \in 1 .. a + 1 : y[i] = u[i]
      /\ \A i \in 1 .. m : y[a + 1 + i] = u[a + 1 + 1 + i]
  <2>1. PICK at \in Nat : at = a + 1
    OBVIOUS
  <2>2. u \in Seq(ExtentType) /\ Len(u) = at + 1 + m
    BY <1>1, <1>6, <2>1
  <2>3. /\ RemoveAt(u, at + 1) \in Seq(ExtentType) /\ Len(RemoveAt(u, at + 1)) = at + m
        /\ \A i \in 1 .. at : RemoveAt(u, at + 1)[i] = u[i]
        /\ \A i \in 1 .. m : RemoveAt(u, at + 1)[at + i] = u[at + 1 + i]
    BY <2>2, RemovedAt, Zenon
  <2> QED
    BY <1>7, <2>1, <2>3, Zenon
<1>9. Replaced(t, a, 2, m, e, y)
  <2>1. \A i \in 1 .. a : i \in 1 .. a + 1 /\ i \in 1 .. Len(t) /\ i # a + 1
    BY <1>1
  <2>2. \A i \in 1 .. m : /\ a + 1 + 1 + i \in 1 .. Len(t) /\ a + 1 + 1 + i # a + 1
                         /\ a + 1 + 1 + i = a + 2 + i
    BY <1>1
  <2>3. a + 1 \in 1 .. a + 1
    OBVIOUS
  <2>4. \A i \in 1 .. a : y[i] = t[i]
    BY <1>6, <1>8, <2>1
  <2>5. y[a + 1] = e
    BY <1>6, <1>8, <2>3
  <2>6. \A i \in 1 .. m : y[a + 1 + i] = t[a + 2 + i]
    BY <1>6, <1>8, <2>2, Zenon
  <2> QED
    BY <1>1, <1>4, <1>8, <2>4, <2>5, <2>6 DEF Replaced, Absorbs
<1>10. Adds(t, frame, y)
  BY <1>4, <1>9, AbsorbAdds
<1>11. Len(y) <= Len(t)
  <2>1. Len(y) = a + 1 + m /\ Len(t) = a + 2 + m
    BY <1>1, <1>8, Zenon
  <2> QED
    BY <2>1
<1>12. y = RemoveAt(LongerAt(t, a + 1, k), a + 2)
  BY <1>3, <1>5, <1>7
<1> QED
  BY <1>2, <1>10, <1>11, <1>12, Zenon

(* Putting an extent in the place of one it absorbs adds the frame. *)
LEMMA ReplacesOne ==
    ASSUME NEW t, Canonical(t), NEW frame \in Nat, Aligned(frame), NEW a \in Nat, NEW m \in Nat,
           NEW e, Absorbs(t, a, 1, m, e, frame), NEW y, Len(t) = a + 1 + m,
           HasAt(y, t, a + 1, e)
    PROVE  Adds(t, frame, y)
<1>1. Replaced(t, a, 1, m, e, y)
  <2>1. \A i \in 1 .. a : i \in 1 .. Len(t) /\ i # a + 1
    OBVIOUS
  <2>2. \A i \in 1 .. m : a + 1 + i \in 1 .. Len(t) /\ a + 1 + i # a + 1
    OBVIOUS
  <2>3. \A i \in 1 .. a : y[i] = t[i]
    BY <2>1 DEF HasAt
  <2>4. \A i \in 1 .. m : y[a + 1 + i] = t[a + 1 + i]
    BY <2>2 DEF HasAt
  <2> QED
    BY <2>3, <2>4 DEF Replaced, Absorbs, HasAt
<1> QED
  BY <1>1, AbsorbAdds, Zenon

(* The table free_frame leaves when the frame joins the extent before it. *)
LEMMA FreesAfter ==
    ASSUME NEW t, Canonical(t), NEW frame \in Nat, Aligned(frame), NEW a \in Nat, NEW m \in Nat,
           LeftTouches(t, a, m, frame)
    PROVE  LET y == LongerAt(t, a + 1, 1 + t[a + 1].pages + 0)
           IN  Adds(t, frame, y) /\ Len(y) <= Len(t)
<1>1. /\ t \in Seq(ExtentType) /\ Len(t) = a + 1 + m /\ a + 1 \in 1 .. Len(t)
      /\ \A i \in 1 .. Len(t) : t[i].pages \in Nat
  BY TableFacts DEF LeftTouches
<1>2. PICK k \in Nat : k = 1 + t[a + 1].pages + 0
  BY <1>1
<1>3. PICK e \in ExtentType :
         e = Extent(t[a + 1].start, k) /\ LongerAt(t, a + 1, k) = PutAt(t, a + 1, e)
  BY <1>1, Lengthened
<1>4. Absorbs(t, a, 1, m, e, frame)
  BY <1>2, <1>3, AbsorbsLeft
<1>5. PICK y : y = PutAt(t, a + 1, e)
  OBVIOUS
<1>6. HasAt(y, t, a + 1, e)
  BY <1>1, <1>5, PutThere
<1>7. Adds(t, frame, y)
  BY <1>1, <1>4, <1>6, ReplacesOne
<1>8. Len(y) <= Len(t)
  BY <1>1, <1>6 DEF HasAt
<1> QED
  BY <1>2, <1>3, <1>5, <1>7, <1>8, Zenon

(* The table free_frame leaves when the frame joins the extent after it. *)
LEMMA FreesBefore ==
    ASSUME NEW t, Canonical(t), NEW frame \in Nat, Aligned(frame), NEW a \in Nat, NEW m \in Nat,
           RightTouches(t, a, m, frame)
    PROVE  LET y == PutAt(t, a + 1, Extent(frame, 1 + 0 + t[a + 1].pages))
           IN  Adds(t, frame, y) /\ Len(y) <= Len(t)
<1>1. t \in Seq(ExtentType) /\ Len(t) = a + 1 + m /\ a + 1 \in 1 .. Len(t)
  BY TableFacts DEF RightTouches
<1>2. PICK e : e = Extent(frame, 1 + 0 + t[a + 1].pages)
  OBVIOUS
<1>3. Absorbs(t, a, 1, m, e, frame)
  BY <1>2, AbsorbsRight
<1>4. e \in ExtentType
  BY <1>3 DEF Absorbs
<1>5. PICK y : y = PutAt(t, a + 1, e)
  OBVIOUS
<1>6. HasAt(y, t, a + 1, e)
  BY <1>1, <1>4, <1>5, PutThere
<1>7. Adds(t, frame, y)
  BY <1>1, <1>3, <1>6, ReplacesOne
<1>8. Len(y) <= Len(t)
  BY <1>1, <1>6 DEF HasAt
<1> QED
  BY <1>2, <1>5, <1>7, <1>8, Zenon

(* How far apart two numbers are. *)
LEMMA Distance ==
    ASSUME NEW x \in Nat, NEW y \in Nat
    PROVE  /\ x > 0 => \E a \in Nat : x = a + 1
           /\ x < y => \E m \in Nat : y = x + 1 + m
           /\ x <= y => \E m \in Nat : y = x + m
<1>1. x > 0 => x - 1 \in Nat /\ x = (x - 1) + 1
  OBVIOUS
<1>2. x < y => y - x - 1 \in Nat /\ y = x + 1 + (y - x - 1)
  OBVIOUS
<1>3. x <= y => y - x \in Nat /\ y = x + (y - x)
  OBVIOUS
<1> QED
  BY <1>1, <1>2, <1>3

(* An accepted free_frame adds a frame that was managed and not free, and  *)
(* leaves a canonical table that fits.                                     *)
LEMMA FreeSteps ==
    ASSUME AllocatorInv, NEW frame \in Nat, FreeFrame(frame), FreeStatus(frame) = "Ok"
    PROVE  /\ Canonical(free') /\ Len(free') <= MaxExtents
           /\ frame \in PagesIn(managed) /\ frame \notin PagesIn(free)
           /\ PagesIn(free') = PagesIn(free) \cup {frame}
<1> DEFINE n == Len(free)
           k == MergedPages(frame)
<1>1. PICK at : at = Insertion(frame)
  OBVIOUS
<1>2. /\ at \in 0 .. n
      /\ Aligned(frame) /\ frame + PageSize <= AddressMax
      /\ frame \in PagesIn(managed) /\ frame \notin PagesIn(free)
      /\ at > 0 => End(free[at]) <= frame
      /\ at < n => frame + PageSize <= free[at + 1].start
      /\ JoinsLeft(frame) \/ JoinsRight(frame) \/ n < MaxExtents
  BY <1>1, FramePlace
<1>3. /\ n \in Nat /\ n <= MaxExtents /\ MaxExtents \in Nat /\ Canonical(free) /\ at \in Nat /\ at <= n
      /\ \A i \in 1 .. n : End(free[i]) \in Nat /\ free[i].start \in Nat
  BY <1>2, TableFacts, ContractAssumption DEF AllocatorInv, MaxExtents
<1>4. /\ JoinsLeft(frame) <=> at > 0 /\ End(free[at]) = frame
      /\ JoinsRight(frame) <=> at < n /\ free[at + 1].start = frame + PageSize
  BY <1>1 DEF JoinsLeft, JoinsRight
<1>5. SUFFICES /\ Canonical(free') /\ Len(free') <= MaxExtents
               /\ PagesIn(free') = PagesIn(free) \cup {frame}
  BY <1>2
<1>6. ASSUME NEW y, free' = y, Canonical(y), PagesIn(y) = PagesIn(free) \cup {frame},
             Len(y) <= n
      PROVE  /\ Canonical(free') /\ Len(free') <= MaxExtents
             /\ PagesIn(free') = PagesIn(free) \cup {frame}
  <2>1. Len(y) \in Nat
    BY <1>6, TableFacts
  <2> QED
    BY <1>3, <1>6, <2>1
<1>7. CASE JoinsLeft(frame) /\ JoinsRight(frame)
  <2>1. PICK a \in Nat, m \in Nat : at = a + 1 /\ n = a + 2 + m
    <3>1. PICK a \in Nat : at = a + 1
      BY <1>3, <1>4, <1>7, Distance
    <3>2. PICK m \in Nat : n = at + 1 + m
      BY <1>3, <1>4, <1>7, Distance, Zenon
    <3> QED
      BY <3>1, <3>2
  <2>2. BothTouch(free, a, m, frame)
    BY <1>4, <1>7, <2>1 DEF BothTouch
  <2>3. k = 1 + free[at].pages + free[at + 1].pages
    BY <1>1, <1>7 DEF MergedPages
  <2>4. free' = RemoveAt(LongerAt(free, at, k), at + 1)
    BY <1>1, <1>7, Zenon DEF FreeFrame, LongerAt
  <2> HIDE DEF k
  <2>5. at + 1 = a + 2
    BY <2>1
  <2>6. free' = RemoveAt(LongerAt(free, a + 1, 1 + free[a + 1].pages + free[a + 2].pages), a + 2)
    BY <2>1, <2>3, <2>4, <2>5, Zenon
  <2>7. Adds(free, frame, free') /\ Len(free') <= n
    <3>1. LET y == RemoveAt(LongerAt(free, a + 1, 1 + free[a + 1].pages + free[a + 2].pages), a + 2)
          IN  Adds(free, frame, y) /\ Len(y) <= n
      BY <1>2, <1>3, <2>2, FreesBetween
    <3> QED
      BY <2>6, <3>1, Zenon
  <2> QED
    BY <1>6, <2>7 DEF Adds
<1>8. CASE JoinsLeft(frame) /\ ~JoinsRight(frame)
  <2>1. PICK a \in Nat, m \in Nat : at = a + 1 /\ n = a + 1 + m
    <3>1. PICK a \in Nat : at = a + 1
      BY <1>3, <1>4, <1>8, Distance
    <3>2. PICK m \in Nat : n = at + m
      BY <1>3, Distance
    <3> QED
      BY <3>1, <3>2
  <2>2. LeftTouches(free, a, m, frame)
    <3>1. ASSUME m > 0 PROVE frame + PageSize < free[a + 2].start
      <4>1. at < n /\ a + 2 = at + 1 /\ a + 2 \in 1 .. n
        BY <2>1, <3>1
      <4>2. frame + PageSize <= free[a + 2].start /\ frame + PageSize # free[a + 2].start
        BY <1>2, <1>4, <1>8, <4>1
      <4>3. free[a + 2].start \in Nat /\ frame + PageSize \in Nat
        BY <1>3, <4>1, ContractAssumption
      <4>4. \A u, v \in Nat : u <= v /\ u # v => u < v
        OBVIOUS
      <4> QED
        BY <4>2, <4>3, <4>4, Zenon
    <3> QED
      BY <1>2, <1>4, <1>8, <2>1, <3>1 DEF LeftTouches
  <2>3. k = 1 + free[at].pages + 0
    BY <1>1, <1>8 DEF MergedPages
  <2>4. free' = LongerAt(free, at, k)
    BY <1>1, <1>8, Zenon DEF FreeFrame, LongerAt
  <2> HIDE DEF k
  <2>6. free' = LongerAt(free, a + 1, 1 + free[a + 1].pages + 0)
    BY <2>1, <2>3, <2>4, Zenon
  <2>7. Adds(free, frame, free') /\ Len(free') <= n
    <3>1. LET y == LongerAt(free, a + 1, 1 + free[a + 1].pages + 0)
          IN  Adds(free, frame, y) /\ Len(y) <= n
      BY <1>2, <1>3, <2>2, FreesAfter
    <3> QED
      BY <2>6, <3>1, Zenon
  <2> QED
    BY <1>6, <2>7 DEF Adds
<1>9. CASE ~JoinsLeft(frame) /\ JoinsRight(frame)
  <2>1. PICK m \in Nat : n = at + 1 + m
    BY <1>3, <1>4, <1>9, Distance, Zenon
  <2>2. RightTouches(free, at, m, frame)
    <3>1. ASSUME at > 0 PROVE End(free[at]) < frame
      <4>1. End(free[at]) <= frame /\ End(free[at]) # frame
        BY <1>2, <1>4, <1>9, <3>1
      <4>2. End(free[at]) \in Nat
        BY <1>3, <3>1
      <4> QED
        BY <4>1, <4>2
    <3> QED
      BY <1>4, <1>9, <2>1, <3>1 DEF RightTouches
  <2>3. k = 1 + 0 + free[at + 1].pages
    BY <1>1, <1>9 DEF MergedPages
  <2>4. free' = PutAt(free, at + 1, Extent(frame, k))
    BY <1>1, <1>9, Zenon DEF FreeFrame, PutAt
  <2> HIDE DEF k
  <2>6. free' = PutAt(free, at + 1, Extent(frame, 1 + 0 + free[at + 1].pages))
    BY <2>3, <2>4, Zenon
  <2>7. Adds(free, frame, free') /\ Len(free') <= n
    <3>1. LET y == PutAt(free, at + 1, Extent(frame, 1 + 0 + free[at + 1].pages))
          IN  Adds(free, frame, y) /\ Len(y) <= n
      BY <1>2, <1>3, <2>2, FreesBefore
    <3> QED
      BY <2>6, <3>1, Zenon
  <2> QED
    BY <1>6, <2>7 DEF Adds
<1>10. CASE ~JoinsLeft(frame) /\ ~JoinsRight(frame)
  <2>1. ASSUME at > 0 PROVE End(free[at]) < frame
    <3>1. End(free[at]) <= frame /\ End(free[at]) # frame
      BY <1>2, <1>4, <1>10, <2>1
    <3>2. End(free[at]) \in Nat
      BY <1>3, <2>1
    <3> QED
      BY <3>1, <3>2
  <2>2. ASSUME at < n PROVE frame + PageSize < free[at + 1].start
    <3>1. frame + PageSize <= free[at + 1].start /\ frame + PageSize # free[at + 1].start
      BY <1>2, <1>4, <1>10, <2>2
    <3>2. at + 1 \in 1 .. n
      BY <1>3, <2>2
    <3>3. free[at + 1].start \in Nat /\ frame + PageSize \in Nat
      BY <1>3, <3>2, ContractAssumption
    <3>4. \A u, v \in Nat : u <= v /\ u # v => u < v
      OBVIOUS
    <3> QED
      BY <3>1, <3>3, <3>4, Zenon
  <2>3. free' = InsertAt(free, at + 1, Extent(frame, 1))
    BY <1>1, <1>10, Zenon DEF FreeFrame
  <2> DEFINE y == InsertAt(free, at + 1, Extent(frame, 1))
  <2>4. Canonical(y) /\ PagesIn(y) = PagesIn(free) \cup {frame} /\ Len(y) = n + 1
    BY <1>2, <1>3, <2>1, <2>2, InsertsAlone
  <2> HIDE DEF y
  <2>5. n < MaxExtents
    BY <1>2, <1>10
  <2>6. n + 1 <= MaxExtents
    BY <1>3, <2>5
  <2> QED
    BY <2>3, <2>4, <2>6 DEF y
<1> QED
  BY <1>7, <1>8, <1>9, <1>10

(* An allocate_frame takes the first free frame, and fails only when there *)
(* is none.                                                                *)
LEMMA AllocateSteps ==
    ASSUME AllocatorInv, AllocateFrame
    PROVE  \/ /\ free # <<>> /\ free' = WithoutFirst(free)
              /\ result' = Returned("allocate", "Ok", free[1].start)
           \/ /\ free = <<>> /\ free' = free
              /\ result' = Returned("allocate", "Exhausted", 0)
<1> DEFINE none == free = <<>>
           past == free # <<>> /\ free[1].pages # 1 /\ Overflows(free[1].start + PageSize)
<1>1. none \in BOOLEAN /\ past \in BOOLEAN
  OBVIOUS
<1>2. AllocateStatus = IF none THEN "Exhausted" ELSE IF past THEN "InvariantOverflow" ELSE "Ok"
  <2>1. AllocateStatus = FirstFailure(<< <<none, "Exhausted">>, <<past, "InvariantOverflow">> >>)
    BY Zenon DEF AllocateStatus
  <2> HIDE DEF none, past
  <2> QED
    BY <1>1, <2>1, FirstOfTwo
<1>3. ~past
  <2>1. SUFFICES ASSUME free # <<>> PROVE ~Overflows(free[1].start + PageSize)
    OBVIOUS
  <2>2. free \in Seq(ExtentType) /\ Len(free) \in Nat
    BY TableFacts DEF AllocatorInv
  <2>3. 1 \in 1 .. Len(free)
    BY <2>1, <2>2
  <2>4. /\ free[1].start \in Nat /\ End(free[1]) \in Nat
        /\ free[1].start + PageSize <= End(free[1]) /\ End(free[1]) <= AddressMax
    BY <2>3, TableFacts DEF AllocatorInv
  <2> QED
    BY <2>4, ContractAssumption DEF Overflows
<1>4. CASE none
  BY <1>2, <1>4 DEF AllocateFrame
<1>5. CASE ~none
  <2>1. AllocateStatus = "Ok"
    BY <1>2, <1>3, <1>5
  <2> QED
    BY <1>5, <2>1, Zenon DEF AllocateFrame, WithoutFirst
<1> QED
  BY <1>4, <1>5

-----------------------------------------------------------------------------
(* initialize: what the loop over the accepted regions builds. *)

(* f holds the extents after each of the first k regions. *)
Grown(regions, k, f) ==
    f = [j \in 0 .. k |-> IF j = 0 THEN <<>> ELSE AddRegion(f[j - 1], regions[j])]

(* The loop's states can be told one after the other. *)
LEMMA LoopRuns ==
    ASSUME NEW regions, NEW n \in Nat
    PROVE  \E f : Grown(regions, n, f)
<1> DEFINE Bad == {k \in Nat : ~\E f : Grown(regions, k, f)}
<1>1. SUFFICES ASSUME Bad # {} PROVE FALSE
  OBVIOUS
<1>2. PICK k \in Bad : \A y \in Bad : k <= y
  <2>1. Bad \in SUBSET Nat
    OBVIOUS
  <2> HIDE DEF Bad
  <2> QED
    BY <1>1, <2>1, LeastElement, Zenon
<1>3. CASE k = 0
  <2>1. Grown(regions, 0, [j \in 0 .. 0 |-> <<>>])
    BY DEF Grown
  <2> QED
    BY <1>3, <2>1
<1>4. CASE k # 0
  <2>1. PICK m \in Nat : k = m + 1
    BY <1>4, Distance
  <2>2. m \notin Bad
    BY <1>2, <2>1
  <2>3. PICK f : Grown(regions, m, f)
    BY <2>2
  <2> DEFINE g == [j \in 0 .. k |-> IF j \in 0 .. m THEN f[j] ELSE AddRegion(f[m], regions[k])]
  <2>4. ASSUME NEW j \in 0 .. k
        PROVE  g[j] = IF j = 0 THEN <<>> ELSE AddRegion(g[j - 1], regions[j])
    <3>1. CASE j = 0
      BY <2>1, <2>3, <3>1 DEF Grown
    <3>2. CASE j # 0 /\ j \in 0 .. m
      <4>1. j - 1 \in 0 .. m /\ j - 1 \in 0 .. k
        BY <2>1, <3>2
      <4>2. g[j] = f[j] /\ g[j - 1] = f[j - 1]
        BY <3>2, <4>1
      <4>3. f[j] = AddRegion(f[j - 1], regions[j])
        BY <2>3, <3>2, Zenon DEF Grown
      <4> QED
        BY <3>2, <4>2, <4>3
    <3>3. CASE j \notin 0 .. m
      <4>1. j = k /\ j # 0 /\ j - 1 = m /\ m \in 0 .. m /\ m \in 0 .. k
        BY <2>1, <3>3
      <4> QED
        BY <3>3, <4>1
    <3> QED
      BY <3>1, <3>2, <3>3
  <2>5. Grown(regions, k, g)
    <3>1. g = [j \in 0 .. k |-> g[j]]
      OBVIOUS
    <3> HIDE DEF g
    <3> QED
      BY <2>4, <3>1, Zenon DEF Grown
  <2> QED
    BY <2>5
<1> QED
  BY <1>3, <1>4

(* The managed table is the loop's last state. *)
LEMMA LoopEnds ==
    ASSUME NEW regions, Len(regions) \in Nat
    PROVE  \E f : Grown(regions, Len(regions), f) /\ UsableExtents(regions) = f[Len(regions)]
<1> DEFINE up == CHOOSE f : Grown(regions, Len(regions), f)
<1>1. Grown(regions, Len(regions), up)
  BY LoopRuns
<1>2. UsableExtents(regions) = up[Len(regions)]
  BY Zenon DEF UsableExtents, Grown
<1> QED
  BY <1>1, <1>2, Zenon

(* What initialize has checked of a region it accepts. *)
RegionOK(regions, i) ==
    /\ regions[i].start \in Nat /\ regions[i].pages \in Nat /\ regions[i].pages > 0
    /\ Aligned(regions[i].start)
    /\ End(regions[i]) <= AddressMax
    /\ i > 1 => End(regions[i - 1]) <= regions[i].start
    /\ ExtentCount(regions, i) <= MaxExtents

(* A region is accepted only after every check. *)
LEMMA RegionAccepted ==
    ASSUME NEW regions, NEW i, RegionStatus(regions, i) = "Ok"
    PROVE  /\ ~(regions[i].pages = 0)
           /\ ~(regions[i].start % PageSize # 0)
           /\ ~Overflows(End(regions[i]))
           /\ ~(i > 1 /\ regions[i].start < End(regions[i - 1]))
           /\ ~(ExtentCount(regions, i) > MaxExtents)
<1> DEFINE a1 == regions[i].pages = 0
           a2 == regions[i].start % PageSize # 0
           a3 == regions[i].kind \notin MemoryKinds
           a4 == regions[i].attributes # 0
           a5 == Overflows(End(regions[i]))
           a6 == i > 1 /\ regions[i].start < regions[i - 1].start
           a7 == i > 1 /\ regions[i].start < End(regions[i - 1])
           a8 == ExtentCount(regions, i) > MaxExtents
           c == << <<a1, "ZeroPages">>, <<a2, "Unaligned">>, <<a3, "UnknownKind">>,
                   <<a4, "Attributes">>, <<a5, "RangeOverflow">>, <<a6, "OutOfOrder">>,
                   <<a7, "Overlap">>, <<a8, "CapacityExceeded">> >>
<1>1. RegionStatus(regions, i) = FirstFailure(c)
  BY Zenon DEF RegionStatus
<1>2. /\ a1 \in BOOLEAN /\ a2 \in BOOLEAN /\ a3 \in BOOLEAN /\ a4 \in BOOLEAN
      /\ a5 \in BOOLEAN /\ a6 \in BOOLEAN /\ a7 \in BOOLEAN /\ a8 \in BOOLEAN
  BY DEF Overflows
<1> HIDE DEF a1, a2, a3, a4, a5, a6, a7, a8
<1>3. /\ Len(c) = 8
      /\ c[1][1] = a1 /\ c[2][1] = a2 /\ c[3][1] = a3 /\ c[4][1] = a4
      /\ c[5][1] = a5 /\ c[6][1] = a6 /\ c[7][1] = a7 /\ c[8][1] = a8
  BY <1>2
<1>4. \A j \in 1 .. 8 : c[j][2] # "Ok"
  OBVIOUS
<1> HIDE DEF c
<1>5. \/ FirstFailure(c) = "Ok" /\ (\A j \in 1 .. 8 : ~c[j][1])
      \/ \E j \in 1 .. 8 : /\ c[j][1] /\ FirstFailure(c) = c[j][2]
                           /\ \A k \in 1 .. j - 1 : ~c[k][1]
  BY <1>3, FirstFailureMeaning, Zenon
<1>6. \A j \in 1 .. 8 : ~c[j][1]
  BY <1>1, <1>4, <1>5
<1>7. ~a1 /\ ~a2 /\ ~a5 /\ ~a7 /\ ~a8
  BY <1>3, <1>6
<1> QED
  BY <1>7, Zenon DEF a1, a2, a5, a7, a8

(* A map is accepted only when each of its regions is. *)
LEMMA MapAccepted ==
    ASSUME NEW regions \in Seq(MemoryRegions), MapStatus(regions) = "Ok"
    PROVE  \A i \in 1 .. Len(regions) : RegionStatus(regions, i) = "Ok"
<1> DEFINE wrong == {i \in DOMAIN regions : RegionStatus(regions, i) # "Ok"}
<1>1. MapStatus(regions) = IF wrong = {} THEN "Ok" ELSE RegionStatus(regions, Min(wrong))
  BY Zenon DEF MapStatus, FirstFailing
<1>2. wrong = {}
  <2>1. ASSUME wrong # {} PROVE FALSE
    <3>1. wrong \in SUBSET Nat
      OBVIOUS
    <3>2. Min(wrong) \in wrong
      <4> HIDE DEF wrong
      <4> QED
        BY <2>1, <3>1, LeastElement
    <3> QED
      BY <1>1, <2>1, <3>2
  <2> QED
    BY <2>1
<1> QED
  BY <1>2

(* Each region either opens an extent, and is counted, or does not. *)
LEMMA CountSteps ==
    ASSUME NEW regions, NEW k \in Nat
    PROVE  /\ ExtentCount(regions, k) \in Nat
           /\ ExtentCount(regions, 0) = 0
           /\ ExtentCount(regions, k + 1) =
                 IF OpensExtent(regions, k + 1) THEN ExtentCount(regions, k) + 1
                                                ELSE ExtentCount(regions, k)
<1> DEFINE C(n) == {j \in 1 .. n : OpensExtent(regions, j)}
<1>1. \A n : ExtentCount(regions, n) = Cardinality(C(n))
  BY Zenon DEF ExtentCount, Quantify
<1>2. IsFiniteSet(C(k))
  <2>1. IsFiniteSet(1 .. k) /\ C(k) \subseteq 1 .. k
    BY FS_Interval
  <2> QED
    BY <2>1, FS_Subset
<1>3. Cardinality(C(k)) \in Nat
  BY <1>2, FS_CardinalityType
<1>4. C(0) = {} /\ Cardinality({}) = 0
  BY FS_EmptySet
<1>5. C(k + 1) = IF OpensExtent(regions, k + 1) THEN C(k) \cup {k + 1} ELSE C(k)
  <2>1. \A j : j \in 1 .. k + 1 <=> j \in 1 .. k \/ j = k + 1
    OBVIOUS
  <2> QED
    BY <2>1
<1>6. k + 1 \notin C(k)
  OBVIOUS
<1> HIDE DEF C
<1>7. Cardinality(C(k) \cup {k + 1}) = Cardinality(C(k)) + 1
  BY <1>2, <1>6, FS_AddElement
<1> QED
  BY <1>1, <1>3, <1>4, <1>5, <1>7

(* t is what the loop has built from the first k regions. *)
SoFar(regions, k, t) ==
    /\ Canonical(t)
    /\ Len(t) <= ExtentCount(regions, k)
    /\ k > 0 /\ regions[k].kind = "usable" => t # <<>> /\ End(t[Len(t)]) = End(regions[k])
    /\ t # <<>> => k > 0 /\ End(t[Len(t)]) <= End(regions[k])

(* Replacing the end of a canonical table by an extent after the rest. *)
LEMMA ReplacedIsCanonical ==
    ASSUME NEW t, Canonical(t), NEW e, ExtentOK(e), NEW a, NEW c, NEW m, NEW y,
           Replaced(t, a, c, m, e, y)
    PROVE  Canonical(y)
<1>1. PICK b : b = a + c + 1
  OBVIOUS
<1>2. Spliced(t, a, e, b, y)
  BY <1>1, ReplacedIsSpliced
<1> QED
  BY <1>2, Splice

(* A usable region right after the last extent makes it longer. *)
LEMMA LastGrows ==
    ASSUME NEW t, Canonical(t), t # <<>>, NEW s \in Nat, NEW q \in Nat, End(t[Len(t)]) = s,
           s + q * PageSize <= AddressMax
    PROVE  LET y == LongerAt(t, Len(t), t[Len(t)].pages + q)
           IN  /\ Canonical(y) /\ y # <<>> /\ Len(y) = Len(t)
               /\ End(y[Len(y)]) = s + q * PageSize
<1> DEFINE n == Len(t)
<1>1. /\ t \in Seq(ExtentType) /\ n \in Nat
      /\ \A i \in 1 .. n : /\ ExtentOK(t[i]) /\ t[i].start \in Nat /\ t[i].pages \in Nat
                           /\ Aligned(t[i].start)
      /\ \A i, j \in 1 .. n : i < j => End(t[i]) < t[j].start
  BY TableFacts
<1>2. n > 0 /\ n \in 1 .. n
  BY <1>1
<1>3. PICK g, p \in Nat : g = t[n].start /\ p = t[n].pages /\ Aligned(g) /\ p > 0
  BY <1>1, <1>2 DEF ExtentOK
<1>4. s = g + p * PageSize
  BY <1>3 DEF End
<1>5. PICK k \in Nat : k = p + q /\ k > 0
  BY <1>3
<1>6. g + k * PageSize = s + q * PageSize
  <2>1. k * PageSize = p * PageSize + q * PageSize /\ p * PageSize \in Nat /\ q * PageSize \in Nat
    BY <1>5, ContractAssumption
  <2>2. PICK pp \in Nat, qq \in Nat : pp = p * PageSize /\ qq = q * PageSize
    BY <2>1
  <2>3. k * PageSize = pp + qq /\ s = g + pp
    BY <1>4, <2>1, <2>2
  <2> QED
    BY <2>2, <2>3
<1>7. PICK e \in ExtentType :
         e = Extent(g, k) /\ ExtentOK(e) /\ e.start = g /\ End(e) = s + q * PageSize
  BY <1>3, <1>5, <1>6, MergedExtent
<1>8. PICK y : y = PutAt(t, n, e)
  OBVIOUS
<1>9. y = LongerAt(t, n, t[n].pages + q)
  BY <1>1, <1>2, <1>3, <1>5, <1>7, <1>8, Lengthened
<1>10. /\ y \in Seq(ExtentType) /\ Len(y) = n /\ y[n] = e
       /\ \A i \in 1 .. n : i # n => y[i] = t[i]
  <2>1. HasAt(y, t, n, e)
    BY <1>1, <1>2, <1>8, PutThere
  <2> QED
    BY <2>1, Zenon DEF HasAt
<1>11. PICK a \in Nat : n = a + 1
  BY <1>1, <1>2, Distance
<1>12. Replaced(t, a, 1, 0, e, y)
  <2>1. \A i \in 1 .. a : i \in 1 .. n /\ i # n /\ i < n
    BY <1>11
  <2>2. a > 0 => End(t[a]) < e.start
    BY <1>1, <1>2, <1>3, <1>7, <2>1
  <2>3. \A i \in 1 .. a : y[i] = t[i]
    BY <1>10, <2>1
  <2>4. Len(t) = a + 1 + 0 /\ Len(y) = a + 1 + 0 /\ y[a + 1] = e
    BY <1>10, <1>11
  <2> QED
    BY <1>10, <2>2, <2>3, <2>4 DEF Replaced
<1>13. Canonical(y)
  BY <1>7, <1>12, ReplacedIsCanonical
<1>14. y # <<>> /\ Len(y) = n /\ End(y[Len(y)]) = s + q * PageSize
  BY <1>2, <1>7, <1>10
<1> QED
  BY <1>9, <1>13, <1>14, Zenon

(* Any other usable region becomes an extent of its own. *)
LEMMA LastAppended ==
    ASSUME NEW t, Canonical(t), NEW e \in ExtentType, ExtentOK(e),
           t # <<>> => End(t[Len(t)]) < e.start
    PROVE  LET y == Append(t, e)
           IN  Canonical(y) /\ y # <<>> /\ Len(y) = Len(t) + 1 /\ y[Len(y)] = e
<1> DEFINE n == Len(t)
           y == Append(t, e)
<1>1. t \in Seq(ExtentType) /\ n \in Nat
  BY TableFacts
<1>2. /\ y \in Seq(ExtentType) /\ Len(y) = n + 1 /\ y[n + 1] = e
      /\ \A i \in 1 .. n : y[i] = t[i]
  BY <1>1
<1> HIDE DEF y
<1>3. n > 0 => End(t[n]) < e.start
  BY <1>1
<1>4. Replaced(t, n, 0, 0, e, y)
  <2>1. Len(t) = n + 0 + 0 /\ Len(y) = n + 1 + 0 /\ y[n + 1] = e
    BY <1>1, <1>2
  <2> QED
    BY <1>1, <1>2, <1>3, <2>1 DEF Replaced
<1>5. Canonical(y)
  BY <1>4, ReplacedIsCanonical
<1>6. y # <<>> /\ Len(y) = n + 1 /\ y[Len(y)] = e
  BY <1>1, <1>2
<1> QED
  BY <1>5, <1>6, Zenon DEF y

(* Where a region ends is an address. *)
LEMMA RegionEnd ==
    ASSUME NEW r, r.start \in Nat, r.pages \in Nat
    PROVE  End(r) \in Nat
<1>1. PICK s, q \in Nat : s = r.start /\ q = r.pages
  OBVIOUS
<1>2. q * PageSize \in Nat
  BY ContractAssumption
<1>3. End(r) = s + q * PageSize
  BY <1>1 DEF End
<1> QED
  BY <1>2, <1>3

(* The fields of an offered region are numbers. *)
LEMMA RegionTypes ==
    ASSUME NEW regions \in Seq(MemoryRegions), NEW i \in 1 .. Len(regions)
    PROVE  regions[i].start \in Nat /\ regions[i].pages \in Nat
<1>1. PICK r \in MemoryRegions : r = regions[i]
  OBVIOUS
<1>2. r.start \in 0 .. AddressMax /\ r.pages \in 0 .. AddressMax
  BY DEF MemoryRegions
<1> QED
  BY <1>1, <1>2, ContractAssumption

(* One more region keeps the loop's invariant. *)
LEMMA LoopStep ==
    ASSUME NEW regions, NEW k \in Nat, NEW t, SoFar(regions, k, t),
           k > 0 => RegionOK(regions, k), RegionOK(regions, k + 1)
    PROVE  SoFar(regions, k + 1, AddRegion(t, regions[k + 1]))
<1> DEFINE n == Len(t)
           j == k + 1
           y == AddRegion(t, regions[k + 1])
<1>1. /\ Canonical(t) /\ t \in Seq(ExtentType) /\ n \in Nat /\ n <= ExtentCount(regions, k)
      /\ t # <<>> => n \in 1 .. n /\ End(t[n]) \in Nat
  BY TableFacts DEF SoFar
<1>2. PICK s, q, z \in Nat :
         /\ s = regions[j].start /\ q = regions[j].pages /\ z = End(regions[j])
         /\ z = s + q * PageSize /\ s < z /\ z <= AddressMax /\ Aligned(s) /\ q > 0
  <2>1. /\ regions[j].start \in Nat /\ regions[j].pages \in Nat /\ regions[j].pages > 0
        /\ Aligned(regions[j].start) /\ End(regions[j]) <= AddressMax
    BY DEF RegionOK
  <2>2. PICK s, q \in Nat : s = regions[j].start /\ q = regions[j].pages
    BY <2>1
  <2>3. q * PageSize \in Nat /\ q * PageSize > 0
    BY <2>1, <2>2, ContractAssumption
  <2>4. End(regions[j]) = s + q * PageSize
    BY <2>2 DEF End
  <2> QED
    BY <2>1, <2>2, <2>3, <2>4
<1>3. t # <<>> => End(t[n]) <= s
  <2>1. SUFFICES ASSUME t # <<>> PROVE End(t[n]) <= s
    OBVIOUS
  <2>2. k > 0 /\ End(t[n]) <= End(regions[k])
    BY <2>1 DEF SoFar
  <2>3. j > 1 /\ j - 1 = k
    BY <2>2
  <2>4. End(regions[k]) <= s
    BY <1>2, <2>3 DEF RegionOK
  <2>5. End(regions[k]) \in Nat
    <3>1. regions[k].start \in Nat /\ regions[k].pages \in Nat
      BY <2>2 DEF RegionOK
    <3> QED
      BY <3>1, RegionEnd
  <2> QED
    BY <1>1, <2>1, <2>2, <2>4, <2>5
<1>4. /\ ExtentCount(regions, k) \in Nat
      /\ ExtentCount(regions, j) =
            IF OpensExtent(regions, j) THEN ExtentCount(regions, k) + 1 ELSE ExtentCount(regions, k)
  BY CountSteps
<1>5. CASE regions[j].kind # "usable"
  <2>1. y = t
    BY <1>5 DEF AddRegion
  <2>2. t # <<>> => End(t[n]) <= End(regions[j])
    BY <1>1, <1>2, <1>3
  <2>3. n <= ExtentCount(regions, j)
    BY <1>1, <1>4
  <2> QED
    BY <1>1, <1>5, <2>1, <2>2, <2>3 DEF SoFar
<1>6. CASE regions[j].kind = "usable" /\ t # <<>> /\ End(t[n]) = s
  <2>1. y = LongerAt(t, n, t[n].pages + q)
    BY <1>1, <1>2, <1>6, Zenon DEF AddRegion, LongerAt, Last
  <2>2. /\ Canonical(y) /\ y # <<>> /\ Len(y) = n /\ End(y[Len(y)]) = z
    <3>1. LET x == LongerAt(t, n, t[n].pages + q)
          IN  /\ Canonical(x) /\ x # <<>> /\ Len(x) = n
              /\ End(x[Len(x)]) = s + q * PageSize
      <4>1. /\ Canonical(t) /\ t # <<>> /\ End(t[Len(t)]) = s /\ s \in Nat /\ q \in Nat
            /\ s + q * PageSize <= AddressMax
        BY <1>1, <1>2, <1>6
      <4> QED
        BY <4>1, LastGrows, Zenon
    <3> QED
      BY <1>2, <2>1, <3>1, Zenon
  <2>3. n <= ExtentCount(regions, j)
    BY <1>1, <1>4
  <2>4. z <= z
    OBVIOUS
  <2> HIDE DEF y
  <2>5. SoFar(regions, j, y)
    BY <1>2, <2>2, <2>3, <2>4 DEF SoFar
  <2> QED
    BY <2>5 DEF y
<1>7. CASE regions[j].kind = "usable" /\ ~(t # <<>> /\ End(t[n]) = s)
  <2>1. PICK e \in ExtentType : e = Extent(s, q) /\ ExtentOK(e) /\ e.start = s /\ End(e) = z
    BY <1>2, MergedExtent
  <2>2. y = Append(t, e)
    BY <1>2, <1>7, <2>1, Zenon DEF AddRegion, Last
  <2>3. t # <<>> => End(t[n]) < e.start
    BY <1>1, <1>3, <1>7, <2>1
  <2>4. /\ Canonical(y) /\ y # <<>> /\ Len(y) = n + 1 /\ End(y[Len(y)]) = z
    <3>1. LET x == Append(t, e)
          IN  Canonical(x) /\ x # <<>> /\ Len(x) = n + 1 /\ x[Len(x)] = e
      BY <1>1, <2>1, <2>3, LastAppended
    <3> QED
      BY <2>1, <2>2, <3>1, Zenon
  <2>5. OpensExtent(regions, j)
    <3>1. SUFFICES ASSUME j # 1, regions[j - 1].kind = "usable", End(regions[j - 1]) = regions[j].start
                   PROVE  FALSE
      BY <1>7 DEF OpensExtent
    <3>2. k > 0 /\ j - 1 = k
      BY <3>1
    <3>3. t # <<>> /\ End(t[n]) = End(regions[k])
      BY <3>1, <3>2 DEF SoFar
    <3> QED
      BY <1>2, <1>7, <3>1, <3>2, <3>3
  <2>6. n + 1 <= ExtentCount(regions, j)
    BY <1>1, <1>4, <2>5
  <2>7. z <= z
    OBVIOUS
  <2> HIDE DEF y
  <2>8. SoFar(regions, j, y)
    BY <1>2, <2>4, <2>6, <2>7 DEF SoFar
  <2> QED
    BY <2>8 DEF y
<1> QED
  BY <1>5, <1>6, <1>7

(* The managed table of an accepted map is canonical and fits. *)
LEMMA MapEstablishes ==
    ASSUME NEW regions \in Seq(MemoryRegions), MapStatus(regions) = "Ok"
    PROVE  Canonical(UsableExtents(regions)) /\ Len(UsableExtents(regions)) <= MaxExtents
<1> DEFINE n == Len(regions)
<1>1. n \in Nat
  OBVIOUS
<1>2. \A i \in 1 .. n : RegionOK(regions, i)
  <2>1. SUFFICES ASSUME NEW i \in 1 .. n PROVE RegionOK(regions, i)
    OBVIOUS
  <2>2. RegionStatus(regions, i) = "Ok"
    BY MapAccepted
  <2>3. /\ ~(regions[i].pages = 0) /\ ~(regions[i].start % PageSize # 0)
        /\ ~Overflows(End(regions[i]))
        /\ ~(i > 1 /\ regions[i].start < End(regions[i - 1]))
        /\ ~(ExtentCount(regions, i) > MaxExtents)
    BY <2>2, RegionAccepted
  <2>4. regions[i].start \in Nat /\ regions[i].pages \in Nat
    BY RegionTypes
  <2>5. End(regions[i]) \in Nat
    BY <2>4, RegionEnd
  <2>6. i > 1 => End(regions[i - 1]) \in Nat
    <3>1. SUFFICES ASSUME i > 1 PROVE End(regions[i - 1]) \in Nat
      OBVIOUS
    <3>2. i - 1 \in 1 .. n
      BY <1>1, <3>1
    <3>3. regions[i - 1].start \in Nat /\ regions[i - 1].pages \in Nat
      BY <3>2, RegionTypes
    <3> QED
      BY <3>3, RegionEnd
  <2>7. i \in Nat /\ ExtentCount(regions, i) \in Nat /\ MaxExtents \in Nat
    BY <1>1, CountSteps, ContractAssumption DEF MaxExtents
  <2>8. Aligned(regions[i].start)
    BY <2>3, Zenon DEF Aligned
  <2>9. End(regions[i]) <= AddressMax
    BY <2>3, <2>5, ContractAssumption DEF Overflows
  <2>10. ExtentCount(regions, i) <= MaxExtents
    BY <2>3, <2>7
  <2>11. i > 1 => End(regions[i - 1]) <= regions[i].start
    BY <2>3, <2>4, <2>6
  <2>12. regions[i].pages > 0
    BY <2>3, <2>4
  <2> QED
    BY <2>4, <2>8, <2>9, <2>10, <2>11, <2>12 DEF RegionOK
<1>3. PICK f : Grown(regions, n, f) /\ UsableExtents(regions) = f[n]
  BY <1>1, LoopEnds
<1>4. f[0] = <<>> /\ \A k \in 1 .. n : f[k] = AddRegion(f[k - 1], regions[k])
  BY <1>1, <1>3 DEF Grown
<1> DEFINE Bad == {k \in 0 .. n : ~SoFar(regions, k, f[k])}
<1>5. Bad = {}
  <2>1. SUFFICES ASSUME Bad # {} PROVE FALSE
    OBVIOUS
  <2>2. PICK k \in Bad : \A y \in Bad : k <= y
    <3>1. Bad \in SUBSET Nat
      OBVIOUS
    <3> HIDE DEF Bad
    <3> QED
      BY <2>1, <3>1, LeastElement, Zenon
  <2>3. CASE k = 0
    <3>1. ExtentCount(regions, 0) = 0
      BY CountSteps
    <3>2. SoFar(regions, 0, <<>>)
      BY <3>1, EmptyTable DEF SoFar
    <3> QED
      BY <1>4, <2>2, <2>3, <3>2
  <2>4. CASE k # 0
    <3>1. PICK m \in Nat : k = m + 1
      BY <2>4, Distance
    <3>2. m \in 0 .. n /\ m \notin Bad /\ m + 1 \in 1 .. n /\ (m + 1) - 1 = m
      BY <1>1, <2>2, <3>1
    <3>3. SoFar(regions, m, f[m])
      BY <3>2
    <3>4. m > 0 => RegionOK(regions, m)
      BY <1>1, <1>2, <3>2
    <3>5. RegionOK(regions, m + 1)
      BY <1>2, <3>2
    <3>6. SoFar(regions, m + 1, AddRegion(f[m], regions[m + 1]))
      BY <3>3, <3>4, <3>5, LoopStep
    <3>7. f[m + 1] = AddRegion(f[m], regions[m + 1])
      BY <1>4, <3>2
    <3> QED
      BY <2>2, <3>1, <3>6, <3>7
  <2> QED
    BY <2>3, <2>4
<1>6. SoFar(regions, n, f[n])
  BY <1>1, <1>5
<1>7. Canonical(f[n]) /\ Len(f[n]) <= ExtentCount(regions, n)
  BY <1>6 DEF SoFar
<1>8. ExtentCount(regions, n) <= MaxExtents
  <2>1. CASE n = 0
    BY <2>1, CountSteps, ContractAssumption DEF MaxExtents
  <2>2. CASE n # 0
    <3>1. n \in 1 .. n
      BY <1>1, <2>2
    <3> QED
      BY <1>2, <3>1 DEF RegionOK
  <2> QED
    BY <2>1, <2>2
<1>9. /\ Len(f[n]) \in Nat /\ ExtentCount(regions, n) \in Nat /\ MaxExtents \in Nat
  BY <1>1, <1>7, TableFacts, CountSteps, ContractAssumption DEF MaxExtents
<1>10. Len(f[n]) <= MaxExtents
  <2>1. \A u, v, w \in Nat : u <= v /\ v <= w => u <= w
    OBVIOUS
  <2> QED
    BY <1>7, <1>8, <1>9, <2>1, Zenon
<1> QED
  BY <1>3, <1>7, <1>10

(* No region, no extent. *)
LEMMA NoRegions == UsableExtents(<<>>) = <<>>
<1>1. Len(<<>>) = 0
  OBVIOUS
<1>2. PICK f : Grown(<<>>, 0, f) /\ UsableExtents(<<>>) = f[0]
  BY <1>1, LoopEnds
<1> QED
  BY <1>2 DEF Grown

(* An accepted initialize starts with every usable page free. *)
LEMMA InitializeSteps ==
    ASSUME AllocatorInv, NEW regions \in Offered, Initialize(regions), MapStatus(regions) = "Ok"
    PROVE  /\ managed = <<>> /\ free = <<>> /\ free' = managed' /\ map' = regions
           /\ Canonical(managed') /\ Len(managed') <= MaxExtents
           /\ regions = <<>> => managed' = <<>>
<1>1. /\ map = <<>> /\ map' = regions /\ managed' = UsableExtents(regions) /\ free' = managed'
  BY DEF Initialize
<1>2. Canonical(UsableExtents(regions)) /\ Len(UsableExtents(regions)) <= MaxExtents
  BY OfferedAssumption, MapEstablishes
<1>3. managed = <<>>
  BY <1>1 DEF AllocatorInv
<1>4. free = <<>>
  <2>1. SUFFICES ASSUME free # <<>> PROVE FALSE
    OBVIOUS
  <2>2. free[1].start \in PagesIn(free)
    BY <2>1, TakeFirst DEF AllocatorInv
  <2> QED
    BY <1>3, <2>2, EmptyTable DEF AllocatorInv
<1> QED
  BY <1>1, <1>2, <1>3, <1>4, NoRegions

(* Every call keeps both tables canonical. *)
LEMMA AllocatorStep == AllocatorInv /\ [FrameNext]_frameVars => AllocatorInv'
<1> SUFFICES ASSUME AllocatorInv, [FrameNext]_frameVars PROVE AllocatorInv'
  OBVIOUS
<1>1. ASSUME NEW regions \in Offered, Initialize(regions) PROVE AllocatorInv'
  <2>1. CASE MapStatus(regions) = "Ok"
    BY <1>1, <2>1, InitializeSteps DEF AllocatorInv
  <2>2. CASE MapStatus(regions) # "Ok"
    BY <1>1, <2>2 DEF AllocatorInv, Initialize
  <2> QED
    BY <2>1, <2>2
<1>2. CASE AllocateFrame
  <2>1. managed' = managed /\ map' = map
    BY <1>2 DEF AllocateFrame
  <2>2. CASE free' = free
    BY <2>1, <2>2 DEF AllocatorInv
  <2>3. CASE free # <<>> /\ free' = WithoutFirst(free)
    <3>1. /\ Canonical(free') /\ Len(free') <= Len(free) /\ PagesIn(free') \subseteq PagesIn(free)
      BY <2>3, TakeFirst DEF AllocatorInv
    <3>2. Len(free') \in Nat /\ Len(free) \in Nat /\ MaxExtents \in Nat /\ Len(free) <= MaxExtents
      BY <3>1, TableFacts, ContractAssumption DEF AllocatorInv, MaxExtents
    <3>3. Len(free') <= MaxExtents
      BY <3>1, <3>2
    <3> QED
      BY <2>1, <3>1, <3>3 DEF AllocatorInv
  <2> QED
    BY <1>2, <2>2, <2>3, AllocateSteps
<1>3. ASSUME NEW frame \in 0 .. AddressMax, FreeFrame(frame) PROVE AllocatorInv'
  <2>1. managed' = managed /\ map' = map /\ frame \in Nat
    BY <1>3, ContractAssumption DEF FreeFrame
  <2>2. CASE FreeStatus(frame) # "Ok"
    <3>1. free' = free
      BY <1>3, <2>2, Zenon DEF FreeFrame
    <3> QED
      BY <2>1, <3>1 DEF AllocatorInv
  <2>3. CASE FreeStatus(frame) = "Ok"
    <3>1. /\ Canonical(free') /\ Len(free') <= MaxExtents
          /\ frame \in PagesIn(managed) /\ PagesIn(free') = PagesIn(free) \cup {frame}
      BY <1>3, <2>1, <2>3, FreeSteps
    <3> QED
      BY <2>1, <3>1 DEF AllocatorInv
  <2> QED
    BY <2>2, <2>3
<1>4. CASE UNCHANGED frameVars
  BY <1>4 DEF frameVars, AllocatorInv
<1> QED
  BY <1>1, <1>2, <1>3, <1>4 DEF FrameNext

(* The allocator starts with both tables empty. *)
LEMMA AllocatorStarts == FrameInit => AllocatorInv
<1>1. MaxExtents \in Nat /\ Len(<<>>) = 0
  BY ContractAssumption DEF MaxExtents
<1> QED
  BY <1>1, EmptyTable DEF FrameInit, AllocatorInv

(* After any calls of initialize, allocate_frame and free_frame, both      *)
(* extent tables are sorted, aligned, disjoint and merged, fit their       *)
(* arrays, and what is free is managed.                                    *)
THEOREM AllocatorInvariant == FrameSpec => []AllocatorInv
<1> QED
  BY AllocatorStarts, AllocatorStep, PTL DEF FrameSpec
-----------------------------------------------------------------------------
(* The tables implement a pool of frames. *)

(* What a table holds are page addresses. *)
LEMMA PagesAreFrames ==
    ASSUME NEW t, Canonical(t)
    PROVE  PagesIn(t) \subseteq {frame \in 0 .. AddressMax : frame % PageSize = 0}
<1> SUFFICES ASSUME NEW f \in PagesIn(t)
             PROVE  f \in 0 .. AddressMax /\ f % PageSize = 0
  OBVIOUS
<1>1. PICK i \in 1 .. Len(t) : f < End(t[i]) /\ f \in Nat /\ Aligned(f)
  BY TablePages
<1>2. End(t[i]) \in Nat /\ End(t[i]) <= AddressMax
  BY TableFacts
<1>3. f \in 0 .. AddressMax
  BY <1>1, <1>2, ContractAssumption
<1>4. f % PageSize = 0
  BY <1>1, Zenon DEF Aligned
<1> QED
  BY <1>3, <1>4

(* The allocator's first state is the pool's. *)
LEMMA PoolStarts == FrameInit => Pool!PoolInit
BY EmptyTable DEF FrameInit, Pool!PoolInit, HeldFrames, Returned

(* Every call of the allocator is a step of the pool. *)
LEMMA PoolSteps ==
    AllocatorInv /\ [FrameNext]_frameVars => [Pool!PoolNext]_(Pool!pool)
<1> SUFFICES ASSUME AllocatorInv, [FrameNext]_frameVars
             PROVE  [Pool!PoolNext]_(Pool!pool)
  OBVIOUS
<1> DEFINE M == PagesIn(managed)
           U == PagesIn(free)
           A == IF result.call = "allocate" /\ result.status = "Ok" THEN {result.frame} ELSE {}
<1>1. U \subseteq M
  BY DEF AllocatorInv
<1>2. ASSUME managed' = managed, free' = free, A' = {} PROVE Pool!Refuse
  BY <1>2 DEF Pool!Refuse, HeldFrames
<1>3. ASSUME NEW call, NEW status, NEW frame, result' = Returned(call, status, frame)
      PROVE  A' = IF call = "allocate" /\ status = "Ok" THEN {frame} ELSE {}
  BY <1>3 DEF Returned
<1>4. ASSUME NEW regions \in Offered, Initialize(regions) PROVE Pool!PoolNext
  <2>1. A' = {}
    BY <1>3, <1>4, Zenon DEF Initialize
  <2>2. CASE MapStatus(regions) # "Ok"
    BY <1>2, <1>4, <2>1, <2>2 DEF Initialize, Pool!PoolNext
  <2>3. CASE MapStatus(regions) = "Ok"
    <3>1. managed = <<>> /\ free = <<>> /\ free' = managed' /\ Canonical(managed')
      BY <1>4, <2>3, InitializeSteps
    <3>2. U = {} /\ HeldFrames = {} /\ HeldFrames' = {}
      BY <3>1, EmptyTable DEF HeldFrames
    <3>3. U' \in SUBSET {frame \in 0 .. AddressMax : frame % PageSize = 0}
      BY <3>1, PagesAreFrames
    <3> QED
      BY <2>1, <3>2, <3>3 DEF Pool!PoolNext, Pool!Establish
  <2> QED
    BY <2>2, <2>3
<1>5. CASE AllocateFrame
  <2>1. managed' = managed
    BY <1>5 DEF AllocateFrame
  <2>2. CASE free = <<>> /\ free' = free /\ result' = Returned("allocate", "Exhausted", 0)
    <3>1. A' = {}
      BY <2>2 DEF Returned
    <3> QED
      BY <1>2, <2>1, <2>2, <3>1 DEF Pool!PoolNext
  <2>3. CASE /\ free # <<>> /\ free' = WithoutFirst(free)
             /\ result' = Returned("allocate", "Ok", free[1].start)
    <3>1. A' = {free[1].start}
      BY <1>3, <2>3, Zenon
    <3>2. free[1].start \in U /\ U' = U \ {free[1].start}
      BY <2>3, TakeFirst DEF AllocatorInv
    <3>3. \A other \in U : free[1].start <= other
      BY <2>3, TakeFirst DEF AllocatorInv
    <3>4. HeldFrames' = HeldFrames \union {free[1].start}
      BY <1>1, <2>1, <3>2 DEF HeldFrames
    <3> QED
      BY <3>1, <3>2, <3>3, <3>4 DEF Pool!PoolNext, Pool!Take
  <2> QED
    BY <1>5, <2>2, <2>3, AllocateSteps
<1>6. ASSUME NEW frame \in 0 .. AddressMax, FreeFrame(frame) PROVE Pool!PoolNext
  <2>1. managed' = managed /\ frame \in Nat /\ result' = Returned("free", FreeStatus(frame), frame)
    BY <1>6, ContractAssumption DEF FreeFrame
  <2>2. A' = {}
    BY <1>3, <2>1, Zenon
  <2>3. CASE FreeStatus(frame) # "Ok"
    <3>1. free' = free
      BY <1>6, <2>3, Zenon DEF FreeFrame
    <3> QED
      BY <1>2, <2>1, <2>2, <3>1 DEF Pool!PoolNext
  <2>4. CASE FreeStatus(frame) = "Ok"
    <3>1. frame \in M /\ frame \notin U /\ U' = U \union {frame}
      BY <1>6, <2>1, <2>4, FreeSteps
    <3>2. frame \in HeldFrames /\ HeldFrames' = HeldFrames \ {frame}
      BY <2>1, <3>1 DEF HeldFrames
    <3> QED
      BY <2>2, <3>1, <3>2 DEF Pool!PoolNext, Pool!GiveBack
  <2> QED
    BY <2>3, <2>4
<1>7. CASE UNCHANGED frameVars
  BY <1>7 DEF frameVars, Pool!pool, HeldFrames
<1> QED
  BY <1>4, <1>5, <1>6, <1>7 DEF FrameNext

(* The extent tables implement a pool of frames: allocate_frame hands out  *)
(* the lowest free frame, free_frame takes back only a frame that is held, *)
(* and a refused call moves none.                                          *)
THEOREM PoolRefinement == FrameSpec => ImplementsPool
<1> QED
  BY PoolStarts, PoolSteps, AllocatorInvariant, PTL
     DEF ImplementsPool, Pool!PoolSpec, FrameSpec
-----------------------------------------------------------------------------
(* Some held frame can always be returned. *)

(* Where a frame that is not free would go. *)
LEMMA HeldPlace ==
    ASSUME AllocatorInv, NEW frame \in Nat, Aligned(frame), frame \notin PagesIn(free),
           NEW at, at = Insertion(frame)
    PROVE  /\ at \in 0 .. Len(free)
           /\ at > 0 => End(free[at]) <= frame
           /\ at < Len(free) => frame + PageSize <= free[at + 1].start
<1> DEFINE n == Len(free)
<1>1. /\ Canonical(free) /\ n \in Nat /\ DOMAIN free = 1 .. n
      /\ \A i \in 1 .. n : /\ free[i].start \in Nat /\ Aligned(free[i].start)
                           /\ End(free[i]) \in Nat /\ free[i].start < End(free[i])
  BY TableFacts DEF AllocatorInv
<1>2. /\ at \in 0 .. n
      /\ \A j \in 1 .. at : free[j].start < frame
      /\ at < n => ~(free[at + 1].start < frame)
  BY <1>1, InsertionMeaning
<1>3. \A i \in 1 .. n : ~(free[i].start <= frame /\ frame < End(free[i]))
  BY <1>1, TablePages
<1>4. ASSUME at > 0 PROVE End(free[at]) <= frame
  <2>1. at \in 1 .. n /\ at \in 1 .. at
    BY <1>1, <1>2, <1>4
  <2> QED
    BY <1>1, <1>2, <1>3, <2>1
<1>5. ASSUME at < n PROVE frame + PageSize <= free[at + 1].start
  <2>1. at + 1 \in 1 .. n
    BY <1>1, <1>2, <1>5
  <2>2. frame < free[at + 1].start
    BY <1>1, <1>2, <1>3, <1>5, <2>1
  <2> QED
    BY <1>1, <2>1, <2>2, AlignedGap
<1> QED
  BY <1>2, <1>4, <1>5

(* A frame right before a free extent joins it. *)
LEMMA HeldBefore ==
    ASSUME AllocatorInv, NEW frame \in Nat, Aligned(frame), frame \notin PagesIn(free),
           NEW i \in 1 .. Len(free), free[i].start = frame + PageSize
    PROVE  JoinsRight(frame)
<1> DEFINE n == Len(free)
<1>1. PICK at : at = Insertion(frame)
  OBVIOUS
<1>2. /\ n \in Nat
      /\ \A j \in 1 .. n : /\ free[j].start \in Nat /\ End(free[j]) \in Nat
                           /\ free[j].start < End(free[j])
      /\ \A j, k \in 1 .. n : j < k => End(free[j]) < free[k].start
  BY TableFacts DEF AllocatorInv
<1>3. /\ at \in 0 .. n
      /\ at > 0 => End(free[at]) <= frame
      /\ at < n => frame + PageSize <= free[at + 1].start
  BY <1>1, HeldPlace
<1>4. PICK s \in Nat : s = frame + PageSize /\ frame < s
  BY ContractAssumption
<1>5. ~(i <= at)
  <2>1. SUFFICES ASSUME i <= at PROVE FALSE
    OBVIOUS
  <2>2. at \in 1 .. n /\ at > 0
    BY <1>2, <1>3, <2>1
  <2>3. i = at \/ End(free[i]) < free[at].start
    BY <1>2, <1>3, <2>1, <2>2
  <2>4. free[i].start = s /\ End(free[at]) <= frame
    BY <1>3, <1>4, <2>2
  <2> QED
    BY <1>2, <1>4, <2>2, <2>3, <2>4
<1>6. at + 1 \in 1 .. n /\ at < n
  BY <1>2, <1>3, <1>5
<1>7. i = at + 1
  <2>1. SUFFICES ASSUME at + 1 < i PROVE FALSE
    BY <1>2, <1>3, <1>5
  <2>2. End(free[at + 1]) < free[i].start
    BY <1>2, <1>6, <2>1
  <2>3. free[i].start = s /\ s <= free[at + 1].start
    BY <1>3, <1>4, <1>6
  <2> QED
    BY <1>2, <1>6, <2>2, <2>3
<1> QED
  BY <1>1, <1>6, <1>7 DEF JoinsRight

(* A frame right after a free extent joins it. *)
LEMMA HeldAfter ==
    ASSUME AllocatorInv, NEW frame \in Nat, Aligned(frame), frame \notin PagesIn(free),
           NEW i \in 1 .. Len(free), End(free[i]) = frame
    PROVE  JoinsLeft(frame)
<1> DEFINE n == Len(free)
<1>1. PICK at : at = Insertion(frame)
  OBVIOUS
<1>2. /\ n \in Nat
      /\ \A j \in 1 .. n : /\ free[j].start \in Nat /\ End(free[j]) \in Nat
                           /\ free[j].start < End(free[j])
      /\ \A j, k \in 1 .. n : j < k => End(free[j]) < free[k].start
  BY TableFacts DEF AllocatorInv
<1>3. /\ at \in 0 .. n
      /\ at > 0 => End(free[at]) <= frame
      /\ at < n => frame + PageSize <= free[at + 1].start
  BY <1>1, HeldPlace
<1>4. i <= at
  <2>1. SUFFICES ASSUME at < i PROVE FALSE
    BY <1>2, <1>3
  <2>2. at + 1 \in 1 .. n /\ at < n
    BY <1>2, <1>3, <2>1
  <2>3. frame < free[at + 1].start
    BY <1>2, <1>3, <2>2, ContractAssumption
  <2>4. i = at + 1 \/ End(free[at + 1]) < free[i].start
    BY <1>2, <1>3, <2>1, <2>2
  <2> QED
    BY <1>2, <2>2, <2>3, <2>4
<1>5. at \in 1 .. n /\ at > 0
  BY <1>2, <1>3, <1>4
<1>6. i = at
  <2>1. SUFFICES ASSUME i < at PROVE FALSE
    BY <1>2, <1>3, <1>4
  <2>2. End(free[i]) < free[at].start
    BY <1>2, <1>5, <2>1
  <2> QED
    BY <1>2, <1>3, <1>5, <2>2
<1> QED
  BY <1>1, <1>5, <1>6 DEF JoinsLeft

(* Merging never overflows the count of pages. *)
LEMMA MergeFits ==
    ASSUME AllocatorInv, NEW frame \in Nat, Aligned(frame), frame \notin PagesIn(free),
           frame + PageSize <= AddressMax
    PROVE  MergedPages(frame) \in Nat /\ MergedPages(frame) <= AddressMax
<1> DEFINE n == Len(free)
<1>1. PICK at : at = Insertion(frame)
  OBVIOUS
<1>2. /\ n \in Nat
      /\ \A j \in 1 .. n : /\ free[j].start \in Nat /\ free[j].pages \in Nat
                           /\ End(free[j]) \in Nat /\ End(free[j]) <= AddressMax
  BY TableFacts DEF AllocatorInv
<1>3. at \in 0 .. n
  BY <1>1, HeldPlace
<1>4. PICK p \in Nat : /\ p = IF JoinsLeft(frame) THEN free[at].pages ELSE 0
                       /\ p * PageSize <= frame
  <2>1. CASE JoinsLeft(frame)
    <3>1. at \in 1 .. n /\ End(free[at]) = frame
      BY <1>1, <1>2, <1>3, <2>1 DEF JoinsLeft
    <3>2. PICK s, p \in Nat : s = free[at].start /\ p = free[at].pages
      BY <1>2, <3>1
    <3>3. s + p * PageSize = frame
      BY <3>1, <3>2 DEF End
    <3>4. p * PageSize \in Nat
      BY ContractAssumption
    <3>5. p * PageSize <= frame
      BY <3>3, <3>4
    <3> QED
      BY <2>1, <3>2, <3>5
  <2>2. CASE ~JoinsLeft(frame)
    <3>1. 0 * PageSize = 0
      BY ContractAssumption
    <3> QED
      BY <2>2, <3>1
  <2> QED
    BY <2>1, <2>2
<1>5. PICK q \in Nat : /\ q = IF JoinsRight(frame) THEN free[at + 1].pages ELSE 0
                       /\ frame + PageSize + q * PageSize <= AddressMax
  <2>1. CASE JoinsRight(frame)
    <3>1. at + 1 \in 1 .. n /\ free[at + 1].start = frame + PageSize
      BY <1>1, <1>2, <1>3, <2>1 DEF JoinsRight
    <3>2. PICK q \in Nat : q = free[at + 1].pages
      BY <1>2, <3>1
    <3>3. End(free[at + 1]) = frame + PageSize + q * PageSize
      BY <3>1, <3>2 DEF End
    <3> QED
      BY <1>2, <2>1, <3>1, <3>2, <3>3
  <2>2. CASE ~JoinsRight(frame)
    <3>1. 0 * PageSize = 0 /\ frame + PageSize + 0 = frame + PageSize
      BY ContractAssumption
    <3> QED
      BY <2>2, <3>1
  <2> QED
    BY <2>1, <2>2
<1>6. MergedPages(frame) = 1 + p + q
  BY <1>1, <1>4, <1>5 DEF MergedPages
<1>7. PICK k \in Nat : k = 1 + p + q
  OBVIOUS
<1>8. /\ k * PageSize = PageSize + p * PageSize + q * PageSize
      /\ p * PageSize \in Nat /\ q * PageSize \in Nat
  BY <1>7, PagesSum, Zenon
<1>9. PICK pp \in Nat, qq \in Nat : pp = p * PageSize /\ qq = q * PageSize
  BY <1>8
<1>10. k * PageSize = PageSize + pp + qq /\ pp <= frame /\ frame + PageSize + qq <= AddressMax
  BY <1>4, <1>5, <1>8, <1>9
<1>11. k * PageSize <= AddressMax
  BY <1>10, ContractAssumption
<1>12. k <= k * PageSize /\ k * PageSize \in Nat
  BY ContractAssumption
<1>13. k <= AddressMax
  BY <1>11, <1>12, ContractAssumption
<1> QED
  BY <1>6, <1>7, <1>13

(* A held frame is refused only when it would need a slot and none is      *)
(* left.                                                                   *)
LEMMA ReturnAccepted ==
    ASSUME AllocatorInv, NEW frame \in HeldFrames,
           JoinsLeft(frame) \/ JoinsRight(frame) \/ Len(free) # MaxExtents
    PROVE  FreeStatus(frame) = "Ok"
<1> DEFINE n == Len(free)
<1>1. PICK at : at = Insertion(frame)
  OBVIOUS
<1>2. /\ Canonical(free) /\ Canonical(managed)
      /\ frame \in PagesIn(managed) /\ frame \notin PagesIn(free)
  BY DEF HeldFrames, AllocatorInv
<1>3. frame \in Nat /\ Aligned(frame)
  BY <1>2, TablePages
<1>4. PICK j \in 1 .. Len(managed) : managed[j].start <= frame /\ frame < End(managed[j])
  BY <1>2, TablePages
<1>5. /\ DOMAIN managed = 1 .. Len(managed) /\ managed[j].start \in Nat
      /\ End(managed[j]) \in Nat /\ Aligned(End(managed[j])) /\ End(managed[j]) <= AddressMax
  BY <1>2, TableFacts
<1>6. frame + PageSize <= End(managed[j])
  BY <1>3, <1>4, <1>5, AlignedGap
<1>7. frame + PageSize \in Nat /\ frame + PageSize <= AddressMax
  BY <1>3, <1>5, <1>6, ContractAssumption
<1>8. ~Overflows(frame + PageSize)
  BY <1>7, ContractAssumption DEF Overflows
<1>9. ~(\A i \in DOMAIN managed : ~ContainsFrame(managed[i], frame))
  <2>1. ~Overflows(End(managed[j]))
    BY <1>5, ContractAssumption DEF Overflows
  <2>2. ContainsFrame(managed[j], frame)
    BY <1>4, <1>6, <2>1 DEF ContainsFrame
  <2> QED
    BY <1>5, <2>2
<1>10. /\ n \in Nat /\ DOMAIN free = 1 .. n
       /\ \A i \in 1 .. n : End(free[i]) \in Nat /\ End(free[i]) <= AddressMax
  BY <1>2, TableFacts
<1>11. ~(\E i \in 1 .. (Insertion(frame) + 1) \intersect DOMAIN free : ContainsFrame(free[i], frame))
  <2>1. SUFFICES ASSUME NEW i \in 1 .. n, ContainsFrame(free[i], frame) PROVE FALSE
    BY <1>10
  <2>2. free[i].start <= frame /\ frame + PageSize <= End(free[i])
    BY <2>1 DEF ContainsFrame
  <2>3. frame < End(free[i])
    BY <1>3, <1>10, <2>2, ContractAssumption
  <2> QED
    BY <1>2, <1>3, <2>2, <2>3, TablePages
<1>12. ~(Insertion(frame) > 0 /\ Overflows(End(free[Insertion(frame)])))
  <2>1. at \in 0 .. n
    BY <1>1, <1>2, <1>3, HeldPlace
  <2>2. SUFFICES ASSUME at > 0 PROVE ~Overflows(End(free[at]))
    BY <1>1
  <2>3. at \in 1 .. n
    BY <1>10, <2>1, <2>2
  <2> QED
    BY <1>10, <2>3, ContractAssumption DEF Overflows
<1>13. ~Overflows(MergedPages(frame))
  BY <1>2, <1>3, <1>7, MergeFits, ContractAssumption DEF Overflows
<1>14. ~(frame % PageSize # 0)
  BY <1>3, Zenon DEF Aligned
<1> QED
  BY <1>8, <1>9, <1>11, <1>12, <1>13, <1>14, FreeAccepted, Zenon

(* A free extent starts where a managed one does, or the frame before it   *)
(* is held and joins it.                                                   *)
LEMMA FreeStarts ==
    ASSUME AllocatorInv, NEW i \in 1 .. Len(free)
    PROVE  \/ \E j \in 1 .. Len(managed) : managed[j].start = free[i].start
           \/ \E frame \in HeldFrames : frame + PageSize = free[i].start /\ JoinsRight(frame)
<1> DEFINE n == Len(free)
<1>1. /\ Canonical(free) /\ Canonical(managed) /\ PagesIn(free) \subseteq PagesIn(managed)
  BY DEF AllocatorInv
<1>2. /\ n \in Nat
      /\ \A k \in 1 .. n : /\ free[k].start \in Nat /\ Aligned(free[k].start)
                           /\ End(free[k]) \in Nat /\ Aligned(End(free[k]))
                           /\ free[k].start < End(free[k])
  BY <1>1, TableFacts
<1>3. PICK s \in Nat : s = free[i].start /\ Aligned(s) /\ s < End(free[i])
  BY <1>2
<1>4. s \in PagesIn(managed)
  BY <1>1, <1>3, StartsArePages
<1>5. PICK j \in 1 .. Len(managed) : managed[j].start <= s /\ s < End(managed[j])
  BY <1>1, <1>4, TablePages
<1>6. /\ managed[j].start \in Nat /\ Aligned(managed[j].start) /\ End(managed[j]) \in Nat
  BY <1>1, TableFacts
<1>7. CASE managed[j].start = s
  BY <1>3, <1>7
<1>8. CASE managed[j].start < s
  <2>1. PICK f \in Nat : f = s - PageSize /\ Aligned(f) /\ managed[j].start + PageSize <= s
    BY <1>3, <1>6, <1>8, AlignedGap
  <2>2. f + PageSize = s /\ managed[j].start <= f /\ f < s
    BY <1>6, <2>1, ContractAssumption
  <2>3. f < End(managed[j])
    BY <1>5, <1>6, <2>2
  <2>4. f \in PagesIn(managed)
    BY <1>1, <2>1, <2>2, <2>3, TablePages
  <2>5. f \notin PagesIn(free)
    <3>1. SUFFICES ASSUME NEW k \in 1 .. n, free[k].start <= f, f < End(free[k]) PROVE FALSE
      BY <1>1, TablePages
    <3>2. f + PageSize <= End(free[k])
      BY <1>2, <2>1, <3>1, AlignedGap
    <3>3. /\ free[k].start <= s /\ s <= End(free[k]) /\ k # i
          /\ free[i].start <= s /\ s <= End(free[i])
      BY <1>2, <1>3, <2>2, <3>1, <3>2
    <3> QED
      BY <1>1, <3>3, GapBetween
  <2>6. JoinsRight(f)
    BY <1>3, <2>1, <2>2, <2>5, HeldBefore
  <2> QED
    BY <1>3, <2>2, <2>4, <2>5, <2>6 DEF HeldFrames
<1> QED
  BY <1>3, <1>5, <1>6, <1>7, <1>8

(* A managed extent that a free one starts with is all free, or the frame  *)
(* after the free one is held and joins it.                                *)
LEMMA FreeEnds ==
    ASSUME AllocatorInv, NEW h \in HeldFrames,
           NEW j \in 1 .. Len(managed), managed[j].start <= h, h < End(managed[j]),
           NEW i \in 1 .. Len(free), free[i].start = managed[j].start
    PROVE  \E frame \in HeldFrames : JoinsLeft(frame)
<1> DEFINE n == Len(free)
<1>1. /\ Canonical(free) /\ Canonical(managed)
      /\ h \in PagesIn(managed) /\ h \notin PagesIn(free)
  BY DEF AllocatorInv, HeldFrames
<1>2. h \in Nat /\ Aligned(h)
  BY <1>1, TablePages
<1>3. /\ n \in Nat
      /\ \A k \in 1 .. n : /\ free[k].start \in Nat
                           /\ End(free[k]) \in Nat /\ Aligned(End(free[k]))
                           /\ free[k].start < End(free[k])
  BY <1>1, TableFacts
<1>4. managed[j].start \in Nat /\ End(managed[j]) \in Nat
  BY <1>1, TableFacts
<1>5. PICK f \in Nat : f = End(free[i]) /\ Aligned(f) /\ free[i].start < f
  BY <1>3
<1>6. ~(h < f)
  BY <1>1, <1>2, <1>5, TablePages
<1>7. managed[j].start <= f /\ f < End(managed[j])
  BY <1>2, <1>4, <1>5, <1>6
<1>8. f \in PagesIn(managed)
  BY <1>1, <1>5, <1>7, TablePages
<1>9. f \notin PagesIn(free)
  <2>1. SUFFICES ASSUME NEW k \in 1 .. n, free[k].start <= f, f < End(free[k]) PROVE FALSE
    BY <1>1, TablePages
  <2>2. /\ f <= End(free[k]) /\ k # i /\ free[i].start <= f /\ f <= End(free[i])
    BY <1>3, <1>5, <2>1
  <2> QED
    BY <1>1, <2>1, <2>2, GapBetween
<1>10. JoinsLeft(f)
  BY <1>5, <1>9, HeldAfter
<1> QED
  BY <1>8, <1>9, <1>10 DEF HeldFrames

(* How many numbers there are up to one. *)
LEMMA CountUpTo ==
    ASSUME NEW k \in Nat
    PROVE  IsFiniteSet(1 .. k) /\ Cardinality(1 .. k) = k
<1>1. 1 \in Int /\ k \in Int
  OBVIOUS
<1>2. IsFiniteSet(1 .. k) /\ Cardinality(1 .. k) = IF 1 > k THEN 0 ELSE k - 1 + 1
  BY <1>1, FS_Interval, Zenon
<1>3. (IF 1 > k THEN 0 ELSE k - 1 + 1) = k
  OBVIOUS
<1> QED
  BY <1>2, <1>3

(* Fewer free extents than managed ones, when each starts with one of them *)
(* and one is left out.                                                    *)
LEMMA SlotLeft ==
    ASSUME AllocatorInv, NEW j \in 1 .. Len(managed),
           \A i \in 1 .. Len(free) :
              \E l \in 1 .. Len(managed) : l # j /\ managed[l].start = free[i].start
    PROVE  Len(free) # MaxExtents
<1> DEFINE n == Len(free)
           N == Len(managed)
           S == 1 .. n
           T == (1 .. N) \ {j}
           f == [i \in S |-> CHOOSE l \in T : managed[l].start = free[i].start]
<1>1. /\ n \in Nat /\ N \in Nat /\ N <= MaxExtents /\ MaxExtents \in Nat /\ Canonical(free)
  BY TableFacts, ContractAssumption DEF AllocatorInv, MaxExtents
<1>2. \A i \in S : f[i] \in T /\ managed[f[i]].start = free[i].start
  OBVIOUS
<1>3. f \in [S -> T]
  BY <1>2
<1>4. \A i, k \in S : i # k => f[i] # f[k]
  <2>1. SUFFICES ASSUME NEW i \in S, NEW k \in S, i # k, f[i] = f[k] PROVE FALSE
    BY Zenon
  <2>2. free[i].start = free[k].start
    BY <1>2, <2>1, Zenon
  <2> QED
    BY <1>1, <2>1, <2>2, StartsDiffer
<1>5. IsFiniteSet(S) /\ Cardinality(S) = n
  BY <1>1, CountUpTo
<1>6. IsFiniteSet(1 .. N) /\ Cardinality(1 .. N) = N
  BY <1>1, CountUpTo
<1>7. IsFiniteSet(T) /\ Cardinality(T) = N - 1
  BY <1>6, FS_RemoveElement, Zenon
<1> HIDE DEF f, S, T
<1>8. ~(Cardinality(T) < Cardinality(S))
  BY <1>3, <1>4, <1>5, <1>7, FS_PigeonHole
<1>9. ~(N - 1 < n)
  BY <1>5, <1>7, <1>8
<1> QED
  BY <1>1, <1>9

(* No more free extents than managed ones, when all but one of them start  *)
(* with a managed one and a managed one is left out.                       *)
LEMMA OneMoreFree ==
    ASSUME AllocatorInv, NEW j \in 1 .. Len(managed), NEW odd \in Nat,
           \A i \in 1 .. Len(free) :
              i # odd => \E l \in 1 .. Len(managed) : l # j /\ managed[l].start = free[i].start
    PROVE  Len(free) <= Len(managed)
<1> DEFINE n == Len(free)
           N == Len(managed)
           S == 1 .. n
           T == 1 .. N
           f == [i \in S |-> IF i = odd THEN j
                             ELSE CHOOSE l \in T : l # j /\ managed[l].start = free[i].start]
<1>1. n \in Nat /\ N \in Nat /\ Canonical(free)
  BY TableFacts DEF AllocatorInv
<1>2. \A i \in S : i # odd => f[i] \in T /\ f[i] # j /\ managed[f[i]].start = free[i].start
  OBVIOUS
<1>3. \A i \in S : i = odd => f[i] = j
  OBVIOUS
<1>4. f \in [S -> T]
  BY <1>2, <1>3
<1>5. \A i, k \in S : i # k => f[i] # f[k]
  <2>1. SUFFICES ASSUME NEW i \in S, NEW k \in S, i # k, f[i] = f[k] PROVE FALSE
    BY Zenon
  <2>2. i # odd /\ k # odd
    BY <1>2, <1>3, <2>1, Zenon
  <2>3. free[i].start = free[k].start
    BY <1>2, <2>1, <2>2, Zenon
  <2> QED
    BY <1>1, <2>1, <2>3, StartsDiffer
<1>6. IsFiniteSet(S) /\ Cardinality(S) = n
  BY <1>1, CountUpTo
<1>7. IsFiniteSet(T) /\ Cardinality(T) = N
  BY <1>1, CountUpTo
<1> HIDE DEF f, S, T
<1>8. ~(Cardinality(T) < Cardinality(S))
  BY <1>4, <1>5, <1>6, <1>7, FS_PigeonHole
<1> QED
  BY <1>1, <1>6, <1>7, <1>8

(* Whenever a frame is held, one can be returned. *)
LEMMA HeldReturns == AllocatorInv => SomeHeldFrameReturns
<1> SUFFICES ASSUME AllocatorInv, HeldFrames # {}
             PROVE  \E frame \in HeldFrames : FreeStatus(frame) = "Ok"
  BY DEF SomeHeldFrameReturns
<1>1. CASE \E frame \in HeldFrames : JoinsLeft(frame) \/ JoinsRight(frame)
  BY <1>1, ReturnAccepted
<1>2. CASE ~\E frame \in HeldFrames : JoinsLeft(frame) \/ JoinsRight(frame)
  <2>1. PICK h \in HeldFrames : TRUE
    OBVIOUS
  <2>2. PICK j \in 1 .. Len(managed) : managed[j].start <= h /\ h < End(managed[j])
    BY <2>1, TablePages DEF HeldFrames, AllocatorInv
  <2>3. \A i \in 1 .. Len(free) : \E l \in 1 .. Len(managed) : managed[l].start = free[i].start
    BY <1>2, FreeStarts
  <2>4. \A i \in 1 .. Len(free) : free[i].start # managed[j].start
    BY <1>2, <2>1, <2>2, FreeEnds
  <2>5. \A i \in 1 .. Len(free) :
           \E l \in 1 .. Len(managed) : l # j /\ managed[l].start = free[i].start
    BY <2>3, <2>4
  <2>6. Len(free) # MaxExtents
    BY <2>5, SlotLeft
  <2> QED
    BY <2>1, <2>6, ReturnAccepted
<1> QED
  BY <1>1, <1>2

(* Fragmentation never wedges free_frame: while any frame is held, some    *)
(* held frame is accepted back, because the managed extents of an accepted *)
(* map already fit the free table.                                         *)
THEOREM NeverWedged == FrameSpec => []SomeHeldFrameReturns
<1> QED
  BY AllocatorInvariant, HeldReturns, PTL
-----------------------------------------------------------------------------
(* Two canonical tables of the same pages are the same table. *)

(* An extent of one table that starts within an extent of the other starts *)
(* with it: the page before would be a page of both.                       *)
LEMMA SameStart ==
    ASSUME NEW t, Canonical(t), NEW u, Canonical(u), PagesIn(t) = PagesIn(u),
           NEW i \in 1 .. Len(t), NEW j \in 1 .. Len(u),
           u[j].start <= t[i].start, t[i].start < End(u[j])
    PROVE  u[j].start = t[i].start
<1>1. SUFFICES ASSUME u[j].start < t[i].start PROVE FALSE
  BY TableFacts
<1>2. PICK a \in Nat : a = t[i].start /\ Aligned(a)
  BY TableFacts
<1>3. PICK b \in Nat : b = u[j].start /\ Aligned(b) /\ b < a
  BY <1>1, <1>2, TableFacts
<1>4. PICK p \in Nat : p = a - PageSize /\ Aligned(p) /\ p < a /\ b <= p
  <2>1. b + PageSize <= a /\ a - PageSize \in Nat /\ Aligned(a - PageSize)
    BY <1>2, <1>3, AlignedGap
  <2>2. PageSize \in Nat /\ PageSize > 0
    BY ContractAssumption
  <2>3. a - PageSize < a /\ b <= a - PageSize
    BY <1>2, <1>3, <2>1, <2>2
  <2> QED
    BY <2>1, <2>3
<1>5. p < End(u[j])
  <2>1. End(u[j]) \in Nat /\ a < End(u[j])
    BY <1>2, TableFacts
  <2> QED
    BY <1>4, <2>1
<1>6. p \in PagesIn(t)
  BY <1>3, <1>4, <1>5, TablePages
<1>7. PICK k \in 1 .. Len(t) : t[k].start <= p /\ p < End(t[k])
  BY <1>6, TablePages
<1>8. End(t[k]) \in Nat /\ Aligned(End(t[k])) /\ t[k].start \in Nat
  BY TableFacts
<1>9. a <= End(t[k])
  BY <1>4, <1>7, <1>8, AlignedGap, ContractAssumption
<1>10. k # i /\ t[k].start <= a
  BY <1>2, <1>4, <1>7, <1>8
<1>11. t[i].start <= a /\ a <= End(t[i])
  BY <1>2, TableFacts
<1> QED
  BY <1>9, <1>10, <1>11, GapBetween

(* An extent does not end before the one of the other table that starts    *)
(* where it does: the page after it would be a page of both.               *)
LEMMA SameEnd ==
    ASSUME NEW t, Canonical(t), NEW u, Canonical(u), PagesIn(t) = PagesIn(u),
           NEW i \in 1 .. Len(t), NEW j \in 1 .. Len(u), u[j].start = t[i].start
    PROVE  ~(End(t[i]) < End(u[j]))
<1>1. SUFFICES ASSUME End(t[i]) < End(u[j]) PROVE FALSE
  OBVIOUS
<1>2. PICK p \in Nat : p = End(t[i]) /\ Aligned(p) /\ t[i].start < p /\ t[i].start \in Nat
  BY TableFacts
<1>3. u[j].start <= p /\ p < End(u[j])
  BY <1>1, <1>2
<1>4. p \in PagesIn(t)
  BY <1>2, <1>3, TablePages
<1>5. PICK k \in 1 .. Len(t) : t[k].start <= p /\ p < End(t[k])
  BY <1>4, TablePages
<1>6. k # i /\ p <= End(t[k]) /\ t[i].start <= p /\ p <= End(t[i])
  BY <1>2, <1>5, TableFacts
<1> QED
  BY <1>5, <1>6, GapBetween

(* Start and end make the extent. *)
LEMMA SameExtent ==
    ASSUME NEW d, ExtentOK(d), NEW e, ExtentOK(e), d.start = e.start, End(d) = End(e)
    PROVE  d = e
<1>1. PICK a \in Nat, p \in Nat, q \in Nat : a = d.start /\ p = d.pages /\ q = e.pages
  BY ExtentEnd
<1>2. PageSize \in Nat \ {0}
  BY ContractAssumption
<1>3. a + p * PageSize = a + q * PageSize
  BY <1>1 DEF End
<1>4. p * PageSize = q * PageSize
  BY <1>2, <1>3
<1>5. p = q
  <2>1. \A x, y \in Nat : x < y => x * PageSize < y * PageSize
    <3>1. ASSUME NEW x \in Nat, NEW y \in Nat, x < y PROVE x * PageSize < y * PageSize
      <4>1. PICK z \in Nat : y = x + z /\ z > 0
        <5>1. y - x \in Nat /\ y = x + (y - x) /\ y - x > 0
          BY <3>1
        <5> QED
          BY <5>1
      <4>2. y * PageSize = x * PageSize + z * PageSize
        BY <1>2, <4>1
      <4>3. z * PageSize > 0 /\ z * PageSize \in Nat /\ x * PageSize \in Nat
        BY <1>2, <4>1
      <4> QED
        BY <4>2, <4>3
    <3> QED
      BY <3>1
  <2>2. p * PageSize \in Nat
    BY <1>2
  <2> QED
    BY <1>4, <2>1, <2>2
<1>6. d \in [start : Nat, pages : Nat] /\ e \in [start : Nat, pages : Nat]
  BY DEF ExtentOK, ExtentType
<1>7. \A x, y \in [start : Nat, pages : Nat] : x.start = y.start /\ x.pages = y.pages => x = y
  OBVIOUS
<1> QED
  BY <1>1, <1>5, <1>6, <1>7, Zenon

(* Every extent of one table is an extent of the other. *)
LEMMA SameExtents ==
    ASSUME NEW t, Canonical(t), NEW u, Canonical(u), PagesIn(t) = PagesIn(u)
    PROVE  \A i \in 1 .. Len(t) : \E j \in 1 .. Len(u) : t[i] = u[j]
<1>1. SUFFICES ASSUME NEW i \in 1 .. Len(t) PROVE \E j \in 1 .. Len(u) : t[i] = u[j]
  OBVIOUS
<1>2. t[i].start \in PagesIn(u)
  BY StartsArePages
<1>3. PICK j \in 1 .. Len(u) : u[j].start <= t[i].start /\ t[i].start < End(u[j])
  BY <1>2, TablePages
<1>4. u[j].start = t[i].start
  BY <1>3, SameStart
<1>5. ~(End(t[i]) < End(u[j])) /\ ~(End(u[j]) < End(t[i]))
  BY <1>4, SameEnd
<1>6. End(t[i]) = End(u[j])
  <2>1. End(t[i]) \in Nat /\ End(u[j]) \in Nat
    BY TableFacts
  <2> QED
    BY <1>5, <2>1
<1>7. ExtentOK(t[i]) /\ ExtentOK(u[j])
  BY TableFacts
<1> QED
  BY <1>4, <1>6, <1>7, SameExtent

(* The extents come in the same order, so each has the same place in both  *)
(* tables: there is no first place where they differ.                      *)
LEMMA SamePlaces ==
    ASSUME NEW t, Canonical(t), NEW u, Canonical(u), PagesIn(t) = PagesIn(u)
    PROVE  \A i \in 1 .. Len(t) : i \in 1 .. Len(u) /\ t[i] = u[i]
<1> DEFINE D == {i \in 1 .. Len(t) : ~(i \in 1 .. Len(u) /\ t[i] = u[i])}
<1>1. SUFFICES ASSUME D # {} PROVE FALSE
  OBVIOUS
<1>2. Len(t) \in Nat /\ Len(u) \in Nat
  BY TableFacts
<1>3. D \subseteq Nat
  OBVIOUS
<1>4. Min(D) \in D /\ \A y \in D : Min(D) <= y
  BY <1>1, <1>3, LeastElement, Zenon
<1>5. PICK k \in 1 .. Len(t) : k \in D /\ \A y \in D : k <= y
  BY <1>4
<1>6. ~(k \in 1 .. Len(u) /\ t[k] = u[k])
  BY <1>5
<1>7. \A i \in 1 .. Len(t) : i < k => i \in 1 .. Len(u) /\ t[i] = u[i]
  BY <1>2, <1>5
<1> HIDE DEF D
<1>8. PICK j \in 1 .. Len(u) : t[k] = u[j]
  BY SameExtents
<1>9. \A v : Canonical(v) => \A a, b \in 1 .. Len(v) : a < b => v[a].start < v[b].start
  <2>1. ASSUME NEW v, Canonical(v), NEW a \in 1 .. Len(v), NEW b \in 1 .. Len(v), a < b
        PROVE  v[a].start < v[b].start
    <3>1. /\ v[a].start \in Nat /\ End(v[a]) \in Nat /\ v[b].start \in Nat
          /\ v[a].start < End(v[a]) /\ End(v[a]) < v[b].start
      BY <2>1, TableFacts
    <3> QED
      BY <3>1
  <2> QED
    BY <2>1
<1>10. k < j
  <2>1. ASSUME j < k PROVE FALSE
    <3>1. j \in 1 .. Len(t) /\ t[j] = u[j]
      BY <1>2, <1>7, <2>1
    <3>2. t[j].start < t[k].start /\ t[k].start \in Nat
      BY <1>9, <2>1, <3>1, TableFacts
    <3> QED
      BY <1>8, <3>1, <3>2
  <2>2. j # k
    BY <1>6, <1>8
  <2> QED
    BY <1>2, <2>1, <2>2
<1>11. k \in 1 .. Len(u)
  BY <1>2, <1>10
<1>12. PICK i \in 1 .. Len(t) : u[k] = t[i]
  BY <1>11, SameExtents
<1>13. k < i
  <2>1. ASSUME i < k PROVE FALSE
    <3>1. i \in 1 .. Len(u) /\ t[i] = u[i]
      BY <1>7, <2>1
    <3>2. u[i].start < u[k].start /\ u[k].start \in Nat
      BY <1>9, <1>11, <2>1, <3>1, TableFacts
    <3> QED
      BY <1>12, <3>1, <3>2
  <2>2. i # k
    BY <1>6, <1>11, <1>12
  <2> QED
    BY <1>2, <2>1, <2>2
<1>14. t[k].start < t[i].start /\ u[k].start < u[j].start
  BY <1>9, <1>10, <1>11, <1>13
<1> QED
  BY <1>8, <1>12, <1>14, TableFacts

(* Two canonical tables of the same pages are the same table. *)
LEMMA SameTable ==
    ASSUME NEW t, Canonical(t), NEW u, Canonical(u), PagesIn(t) = PagesIn(u)
    PROVE  t = u
<1>1. /\ \A i \in 1 .. Len(t) : i \in 1 .. Len(u) /\ t[i] = u[i]
      /\ \A i \in 1 .. Len(u) : i \in 1 .. Len(t) /\ u[i] = t[i]
  BY SamePlaces
<1>2. /\ t \in Seq(ExtentType) /\ u \in Seq(ExtentType) /\ Len(t) \in Nat /\ Len(u) \in Nat
  BY TableFacts
<1>3. Len(t) = Len(u)
  <2>1. \A m, n \in Nat : (\A i \in 1 .. m : i \in 1 .. n) => m <= n
    <3>1. ASSUME NEW m \in Nat, NEW n \in Nat, \A i \in 1 .. m : i \in 1 .. n PROVE m <= n
      <4>1. CASE m = 0
        BY <4>1
      <4>2. CASE m # 0
        <5>1. m \in 1 .. m
          BY <4>2
        <5>2. m \in 1 .. n
          BY <3>1, <5>1
        <5> QED
          BY <5>2
      <4> QED
        BY <4>1, <4>2
    <3> QED
      BY <3>1
  <2>2. Len(t) <= Len(u) /\ Len(u) <= Len(t)
    BY <1>1, <1>2, <2>1
  <2> QED
    BY <1>2, <2>2
<1>4. PICK n \in Nat : n = Len(t) /\ n = Len(u)
  BY <1>2, <1>3
<1>5. \A i \in 1 .. n : t[i] = u[i]
  BY <1>1, <1>4
<1>6. \A S : \A v \in Seq(S) : v \in [1 .. Len(v) -> S]
  OBVIOUS
<1>7. t \in [1 .. n -> ExtentType] /\ u \in [1 .. n -> ExtentType]
  BY <1>2, <1>4, <1>6, Zenon
<1> QED
  BY <1>5, <1>7
-----------------------------------------------------------------------------
(* What a caller of the allocator relies on. *)

(* The pages of the extents are addresses. *)
LEMMA PagesAreAddresses ==
    ASSUME AllocatorInv
    PROVE  /\ PagesIn(managed) \in SUBSET Nat /\ PagesIn(free) \in SUBSET Nat
           /\ PagesIn(managed) \subseteq 0 .. AddressMax
<1>1. Canonical(managed) /\ Canonical(free)
  BY DEF AllocatorInv
<1>2. /\ \A f \in PagesIn(managed) : f \in Nat /\ f \in 0 .. AddressMax
      /\ \A f \in PagesIn(free) : f \in Nat
  BY <1>1, TablePages, PagesAreFrames
<1> QED
  BY <1>2

(* The frame allocate_frame returns is the lowest free page. *)
LEMMA FirstFree ==
    ASSUME AllocatorInv, free # <<>>
    PROVE  /\ free[1].start \in Nat /\ free[1].start \in PagesIn(free)
           /\ \A p \in PagesIn(free) : free[1].start <= p
           /\ PagesIn(WithoutFirst(free)) = PagesIn(free) \ {free[1].start}
<1>1. Canonical(free)
  BY DEF AllocatorInv
<1>2. /\ free[1].start \in PagesIn(free)
      /\ \A p \in PagesIn(free) : free[1].start <= p
      /\ PagesIn(WithoutFirst(free)) = PagesIn(free) \ {free[1].start}
  BY <1>1, TakeFirst
<1>3. free[1].start \in Nat
  BY <1>2, PagesAreAddresses
<1> QED
  BY <1>2, <1>3

(* An allocator that has accepted a map and done nothing yet. *)
LEMMA AcceptedMapStarts ==
    ASSUME map \in Seq(MemoryRegions), MapStatus(map) = "Ok",
           managed = UsableExtents(map), free = managed
    PROVE  AllocatorInv
<1>1. Canonical(managed) /\ Len(managed) <= MaxExtents
  BY MapEstablishes
<1>2. map = <<>> => managed = <<>>
  BY NoRegions
<1> QED
  BY <1>1, <1>2 DEF AllocatorInv

(* While the run at the bottom has a frame, no free extent starts where    *)
(* the first managed one does.                                             *)
LEMMA FirstIsTaken ==
    ASSUME AllocatorInv, NEW A \in SUBSET HeldFrames, A # {},
           \A f \in A : \A p \in PagesIn(managed) : p < f => p \in A
    PROVE  /\ 1 \in 1 .. Len(managed)
           /\ \A i \in 1 .. Len(free) : free[i].start # managed[1].start
<1>1. Canonical(managed) /\ Canonical(free)
  BY DEF AllocatorInv
<1>2. PICK f \in A : f \in PagesIn(managed)
  BY DEF HeldFrames
<1>3. managed # <<>>
  BY <1>1, <1>2, EmptyTable
<1>4. managed[1].start \in PagesIn(managed) /\ managed[1].start <= f
  BY <1>1, <1>2, <1>3, TakeFirst
<1>5. managed[1].start \in Nat /\ f \in Nat
  BY <1>1, <1>2, <1>4, TablePages
<1>6. managed[1].start \in A
  BY <1>2, <1>4, <1>5
<1>7. managed[1].start \notin PagesIn(free)
  BY <1>6 DEF HeldFrames
<1>8. \A i \in 1 .. Len(free) : free[i].start \in PagesIn(free)
  BY <1>1, StartsArePages
<1>9. 1 \in 1 .. Len(managed)
  BY <1>1, <1>3, TableFacts
<1> QED
  BY <1>7, <1>8, <1>9

(* No more free extents than managed ones, when all of them start with a   *)
(* managed one.                                                            *)
LEMMA NoneMoreFree ==
    ASSUME AllocatorInv,
           \A i \in 1 .. Len(free) : \E l \in 1 .. Len(managed) : managed[l].start = free[i].start
    PROVE  Len(free) <= Len(managed)
<1>1. /\ Canonical(managed) /\ Canonical(free) /\ Len(free) \in Nat /\ Len(managed) \in Nat
  BY TableFacts DEF AllocatorInv
<1>2. CASE Len(free) = 0
  BY <1>1, <1>2
<1>3. CASE Len(free) # 0
  <2>1. PICK a \in 1 .. Len(managed) : managed[a].start = free[1].start
    BY <1>1, <1>3
  <2>2. ASSUME NEW i \in 1 .. Len(free), i # 1 PROVE free[i].start # free[1].start
    <3>1. 1 \in 1 .. Len(free)
      BY <1>1, <1>3
    <3> QED
      BY <1>1, <2>2, <3>1, StartsDiffer
  <2>3. \A i \in 1 .. Len(free) :
           i # 1 => \E l \in 1 .. Len(managed) : l # a /\ managed[l].start = free[i].start
    BY <2>1, <2>2
  <2> QED
    BY <2>3, OneMoreFree, ZenonT(30)
<1> QED
  BY <1>2, <1>3
=============================================================================
