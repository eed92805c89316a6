-------------------------- MODULE AllocatorProofs --------------------------
(***************************************************************************)
(* Proofs, for every page size and every size of the two regions, of the   *)
(* properties of AllocatorSpec.  The argument rests on one inductive       *)
(* invariant, IInv: the two free lists, page_free_cnt and partial_slots    *)
(* are functions of the set of slots in use.                               *)
(***************************************************************************)
EXTENDS AllocatorSpec, FiniteSetTheorems, TLAPS

-----------------------------------------------------------------------------
(***************************************************************************)
(* The address space: pages are disjoint runs of PAGE slots.               *)
(***************************************************************************)

\* Division by PAGE, as the code uses it to find the page of a slot.
LEMMA PageDivision ==
  \A s \in Nat : /\ PageOf(s) \in Nat
                 /\ s % PAGE \in 0 .. (PAGE - 1)
                 /\ s = PageOf(s) * PAGE + (s % PAGE)
                 /\ PageOf(s) * PAGE <= s
                 /\ s < PageOf(s) * PAGE + PAGE
  BY SizeAssumption DEF PageOf

\* A slot of page p is p * PAGE + j for one j below PAGE.
LEMMA PageUnique ==
  \A p \in Nat : \A j \in 0 .. (PAGE - 1) : PageOf(p * PAGE + j) = p
  <1> TAKE p \in Nat
  <1> TAKE j \in 0 .. (PAGE - 1)
  <1> DEFINE s == p * PAGE + j
             q == PageOf(s)
  <1>1. s \in Nat
    BY SizeAssumption
  <1>2. q \in Nat /\ q * PAGE <= s /\ s < q * PAGE + PAGE
    BY <1>1, PageDivision, SizeAssumption
  <1>3. ~ (q < p)
    BY <1>2, SizeAssumption
  <1>4. ~ (p < q)
    BY <1>2, SizeAssumption
  <1> QED
    BY <1>2, <1>3, <1>4

LEMMA Regions ==
  /\ offset \in Nat
  /\ Slots2 \subseteq Nat
  /\ Slots4 \subseteq Nat
  /\ Slots2 \cap Slots4 = {}
  /\ \A s \in Slots2 : s < offset /\ s >= PAGE
  /\ \A s \in Slots4 : s >= offset
  /\ IsFiniteSet(Slots2) /\ IsFiniteSet(Slots4) /\ IsFiniteSet(Slots)
  /\ Cardinality(Slots4) = NumInt4
  /\ Pages \subseteq Nat
  /\ IsFiniteSet(Pages) /\ Cardinality(Pages) = NumPages
  <1>1. offset \in Nat
    BY SizeAssumption DEF offset
  <1>2. IsFiniteSet(Slots2) /\ IsFiniteSet(Slots4) /\ IsFiniteSet(Pages)
    BY <1>1, SizeAssumption, FS_Interval DEF Slots2, Slots4, Pages
  <1>3. IsFiniteSet(Slots)
    BY Zenon, <1>2, FS_Union DEF Slots
  <1>4. Cardinality(Slots4) = NumInt4
    BY <1>1, SizeAssumption, FS_Interval DEF Slots4
  <1>5. Cardinality(Pages) = NumPages
    BY SizeAssumption, FS_Interval DEF Pages
  <1>6. Pages \subseteq Nat
    BY SizeAssumption DEF Pages
  <1> QED
    BY <1>1, <1>2, <1>3, <1>4, <1>5, <1>6, SizeAssumption DEF Slots2, Slots4

\* The slots p * PAGE + j with p a usable page are the INT2 slots.
LEMMA SlotOfPage ==
  /\ \A p \in Pages : \A j \in 0 .. (PAGE - 1) : p * PAGE + j \in Slots2
  /\ \A s \in Slots2 : PageOf(s) \in Pages
  <1>1. \A p \in Pages : \A j \in 0 .. (PAGE - 1) : p * PAGE + j \in Slots2
    <2> TAKE p \in Pages
    <2> TAKE j \in 0 .. (PAGE - 1)
    <2>1. p * PAGE >= PAGE
      BY SizeAssumption DEF Pages
    <2>2. p * PAGE + PAGE <= offset
      BY SizeAssumption DEF Pages, offset
    <2> QED
      BY <2>1, <2>2, SizeAssumption, Regions DEF Pages, Slots2
  <1>2. ASSUME NEW s \in Slots2 PROVE PageOf(s) \in Pages
    <2>1. s \in Nat /\ s >= PAGE /\ s < offset
      BY Regions
    <2>2. PageOf(s) \in Nat /\ PageOf(s) * PAGE <= s /\ s < PageOf(s) * PAGE + PAGE
      BY <2>1, PageDivision, SizeAssumption
    <2>3. PageOf(s) >= 1
      BY <2>1, <2>2, SizeAssumption
    <2>4. PageOf(s) * PAGE < (NumPages + 1) * PAGE
      BY <2>1, <2>2, SizeAssumption DEF offset
    <2>5. PageOf(s) < NumPages + 1
      BY <2>2, <2>4, SizeAssumption
    <2> QED
      BY <2>2, <2>3, <2>5, SizeAssumption DEF Pages
  <1> QED
    BY <1>1, <1>2

\* Whole pages hold PAGE slots each.
LEMMA PagesCardinality ==
  ASSUME NEW P \in SUBSET Pages
  PROVE  /\ IsFiniteSet(SlotsOfPages(P))
         /\ IsFiniteSet(P)
         /\ Cardinality(SlotsOfPages(P)) = Cardinality(P) * PAGE
  <1> DEFINE J == 0 .. (PAGE - 1)
             f == [x \in P \X J |-> x[1] * PAGE + x[2]]
  <1>1. IsFiniteSet(P) /\ Cardinality(P) \in Nat
    BY Zenon, Regions, FS_Subset, FS_CardinalityType
  <1>2. IsFiniteSet(J) /\ Cardinality(J) = PAGE
    BY SizeAssumption, FS_Interval
  <1>3. IsFiniteSet(P \X J) /\ Cardinality(P \X J) = Cardinality(P) * PAGE
    BY Zenon, <1>1, <1>2, FS_Product
  <1>4. ASSUME NEW x \in P \X J
        PROVE  /\ x[1] \in Nat /\ x[1] \in P /\ x[2] \in J
               /\ f[x] = x[1] * PAGE + x[2]
               /\ f[x] \in SlotsOfPages(P)
    <2>1. x[1] \in P /\ x[2] \in J /\ f[x] = x[1] * PAGE + x[2]
      OBVIOUS
    <2>2. x[1] \in Pages /\ x[1] \in Nat
      BY Zenon, <2>1, Regions
    <2>3. f[x] \in Slots2 /\ PageOf(f[x]) = x[1]
      BY <2>1, <2>2, SlotOfPage, PageUnique
    <2> QED
      BY <2>1, <2>2, <2>3 DEF SlotsOfPages
  <1>5. \A x, y \in P \X J : f[x] = f[y] => x = y
    <2> TAKE x, y \in P \X J
    <2> HAVE f[x] = f[y]
    <2>1. x[1] \in Nat /\ y[1] \in Nat /\ x[2] \in J /\ y[2] \in J
      BY <1>4
    <2>2. x[1] * PAGE + x[2] = y[1] * PAGE + y[2]
      BY <1>4
    <2>3. x[1] = y[1]
      BY <2>1, <2>2, PageUnique
    <2>4. x[2] = y[2]
      BY <2>1, <2>2, <2>3, SizeAssumption
    <2> QED
      BY <2>3, <2>4
  <1>6. \A s \in SlotsOfPages(P) : \E x \in P \X J : f[x] = s
    <2> TAKE s \in SlotsOfPages(P)
    <2>1. s \in Nat /\ PageOf(s) \in P
      BY Regions DEF SlotsOfPages
    <2>2. s % PAGE \in J /\ s = PageOf(s) * PAGE + (s % PAGE)
      BY <2>1, PageDivision
    <2>3. <<PageOf(s), s % PAGE>> \in P \X J
      BY <2>1, <2>2
    <2> QED
      BY <2>2, <2>3
  <1>7. f \in Bijection(P \X J, SlotsOfPages(P))
    BY <1>4, <1>5, <1>6 DEF Bijection, Injection, Surjection, IsInjective
  <1>8. ExistsBijection(P \X J, SlotsOfPages(P))
    BY <1>7 DEF ExistsBijection
  <1> QED
    BY <1>1, <1>3, <1>8, FS_Bijection

LEMMA OnePage ==
  ASSUME NEW p \in Pages
  PROVE  /\ PageSlots(p) = SlotsOfPages({p})
         /\ PageSlots(p) \subseteq Slots2
         /\ IsFiniteSet(PageSlots(p))
         /\ Cardinality(PageSlots(p)) = PAGE
  <1>1. PageSlots(p) = SlotsOfPages({p})
    BY DEF PageSlots, SlotsOfPages
  <1>2. IsFiniteSet(SlotsOfPages({p})) /\ Cardinality(SlotsOfPages({p})) = 1 * PAGE
    BY PagesCardinality, FS_Singleton
  <1> QED
    BY <1>1, <1>2, SizeAssumption DEF PageSlots

\* Cardinalities of disjoint unions and of differences, in the form used below.
LEMMA DisjointUnion ==
  ASSUME NEW A, NEW B, IsFiniteSet(A), IsFiniteSet(B), A \cap B = {}
  PROVE  /\ IsFiniteSet(A \cup B)
         /\ Cardinality(A) \in Nat /\ Cardinality(B) \in Nat
         /\ Cardinality(A \cup B) = Cardinality(A) + Cardinality(B)
  <1>1. Cardinality(A) \in Nat /\ Cardinality(B) \in Nat
    BY FS_CardinalityType
  <1>2. Cardinality(A \cap B) = 0
    BY FS_EmptySet
  <1>3. /\ IsFiniteSet(A \cup B)
        /\ Cardinality(A \cup B)
             = Cardinality(A) + Cardinality(B) - Cardinality(A \cap B)
    BY FS_Union
  <1> QED
    BY <1>1, <1>2, <1>3

LEMMA Removal ==
  ASSUME NEW A, NEW B \in SUBSET A, IsFiniteSet(A)
  PROVE  /\ IsFiniteSet(A \ B) /\ IsFiniteSet(B)
         /\ Cardinality(A) \in Nat /\ Cardinality(B) \in Nat
         /\ Cardinality(A \ B) = Cardinality(A) - Cardinality(B)
  <1>1. IsFiniteSet(B) /\ IsFiniteSet(A \ B)
    BY FS_Subset
  <1>2. A = (A \ B) \cup B /\ (A \ B) \cap B = {}
    OBVIOUS
  <1>3. Cardinality(A \ B) \in Nat /\ Cardinality(B) \in Nat
    BY <1>1, FS_CardinalityType
  <1>4. Cardinality(A) = Cardinality(A \ B) + Cardinality(B)
    BY <1>1, <1>2, DisjointUnion
  <1> QED
    BY <1>1, <1>3, <1>4

-----------------------------------------------------------------------------
(***************************************************************************)
(* What Consistent implies.                                                *)
(***************************************************************************)

\* The reported size is exact.
LEMMA ConsistentExact ==
  ASSUME NEW a, a.free_pages2 \in SUBSET Pages,
         NEW U \in SUBSET Slots, Consistent(a, U)
  PROVE  available_size(a) = size - Cardinality(U)
  <1> DEFINE N == Pages \ a.free_pages2
             f2 == SlotsOfPages(a.free_pages2)
             r2 == SlotsOfPages(N) \ U
             u2 == U \cap Slots2
             u4 == U \cap Slots4
  <1>1. /\ IsFiniteSet(U) /\ IsFiniteSet(u2) /\ IsFiniteSet(u4)
        /\ Cardinality(u2) \in Nat /\ Cardinality(u4) \in Nat
    BY Zenon, Regions, FS_Subset, FS_CardinalityType DEF Slots
  <1>2. Cardinality(U) = Cardinality(u2) + Cardinality(u4)
    <2>1. U = u2 \cup u4 /\ u2 \cap u4 = {}
      BY Zenon, Regions DEF Slots
    <2> QED
      BY <1>1, <2>1, DisjointUnion
  <1>3. Cardinality(a.free_slots4) = NumInt4 - Cardinality(u4)
    <2>1. a.free_slots4 = Slots4 \ u4 /\ u4 \in SUBSET Slots4
      BY DEF Consistent
    <2> QED
      BY Zenon, <2>1, Regions, Removal
  <1>4. /\ IsFiniteSet(f2) /\ Cardinality(f2) = Cardinality(a.free_pages2) * PAGE
        /\ Cardinality(f2) \in Nat
    BY PagesCardinality, FS_CardinalityType
  <1>5. IsFiniteSet(Slots2) /\ Cardinality(Slots2) = NumPages * PAGE
    <2>1. SlotsOfPages(Pages) = Slots2
      BY SlotOfPage DEF SlotsOfPages
    <2> QED
      BY <2>1, PagesCardinality, Regions
  <1>6. IsFiniteSet(r2) /\ Cardinality(r2) \in Nat
    <2>1. r2 \in SUBSET Slots2
      BY DEF SlotsOfPages
    <2> QED
      BY Zenon, <2>1, Regions, FS_Subset, FS_CardinalityType
  <1>7. f2 \cap u2 = {}
    BY DEF Consistent, PageSlots, SlotsOfPages
  <1>8. Slots2 = (f2 \cup u2) \cup r2 /\ (f2 \cup u2) \cap r2 = {}
    BY <1>7, SlotOfPage DEF SlotsOfPages
  <1>9. IsFiniteSet(f2 \cup u2) /\ Cardinality(f2 \cup u2) = Cardinality(f2) + Cardinality(u2)
    BY Zenon, <1>1, <1>4, <1>7, DisjointUnion
  <1>10. Cardinality(Slots2) = Cardinality(f2) + Cardinality(u2) + Cardinality(r2)
    BY <1>6, <1>8, <1>9, DisjointUnion
  <1>11. a.partial_slots = Cardinality(r2)
    BY DEF Consistent
  <1>12. available_size(a) = Cardinality(f2) + Cardinality(a.free_slots4) + Cardinality(r2)
    BY <1>4, <1>11 DEF available_size, available_size_int2, available_size_int4
  <1>13. size = Cardinality(f2) + Cardinality(u2) + Cardinality(r2) + NumInt4
    BY <1>5, <1>10 DEF size
  <1> HIDE DEF N, f2, r2, u2, u4
  <1> QED
    BY <1>1, <1>2, <1>3, <1>4, <1>6, <1>12, <1>13, SizeAssumption

\* Nothing in use is free, and nothing that is not in use is lost.
LEMMA ConsistentSafe ==
  ASSUME NEW a, a.free_pages2 \in SUBSET Pages,
         NEW U \in SUBSET Slots, Consistent(a, U)
  PROVE  /\ FreeSlots(a) \cap U = {}
         /\ Slots4 \ U \subseteq a.free_slots4
         /\ \A p \in Pages : PageSlots(p) \cap U = {} => p \in a.free_pages2
  <1>1. a.free_slots4 \cap U = {} /\ Slots4 \ U \subseteq a.free_slots4
    BY DEF Consistent
  <1>2. SlotsOfPages(a.free_pages2) \cap U = {}
    BY DEF Consistent, SlotsOfPages, PageSlots
  <1>3. ASSUME NEW p \in Pages, PageSlots(p) \cap U = {}, p \notin a.free_pages2
        PROVE  FALSE
    <2>1. PageSlots(p) \ U = PageSlots(p)
      BY <1>3
    <2>2. Cardinality(PageSlots(p) \ U) < PAGE
      BY <1>3 DEF Consistent
    <2>3. Cardinality(PageSlots(p) \ U) = PAGE
      BY <2>1, OnePage, Zenon
    <2> QED
      BY <2>2, <2>3, SizeAssumption
  <1> QED
    BY <1>1, <1>2, <1>3 DEF FreeSlots

-----------------------------------------------------------------------------
(***************************************************************************)
(* Each method keeps the allocator consistent.                             *)
(***************************************************************************)

\* clear(): everything is free.
LEMMA ClearedConsistent ==
  cleared \in AllocatorState /\ InUse(cleared) = {} /\ Consistent(cleared, {})
  <1>1. cleared \in AllocatorState
    BY DEF cleared, AllocatorState
  <1>2. InUse(cleared) = {}
    BY DEF cleared, InUse
  <1>3. SlotsOfPages(Pages \ Pages) \ {} = {}
    BY DEF SlotsOfPages
  <1> QED
    BY Zenon, <1>1, <1>2, <1>3, FS_EmptySet DEF cleared, Consistent

\* alloc and alloc_mixed serve free pages and free INT4 slots.
LEMMA TakeConsistent ==
  ASSUME NEW a \in AllocatorState, NEW U \in SUBSET Slots, Consistent(a, U),
         NEW P \in SUBSET a.free_pages2, NEW F \in SUBSET a.free_slots4
  PROVE  /\ Take(a, P, F) \in AllocatorState
         /\ Consistent(Take(a, P, F), U \cup SlotsOfPages(P) \cup F)
  <1> DEFINE b == Take(a, P, F)
             V == U \cup SlotsOfPages(P) \cup F
  <1>1. /\ a.free_pages2 \in SUBSET Pages /\ a.free_slots4 \in SUBSET Slots4
        /\ a.page_free_cnt \in [Pages -> Nat]
    BY DEF AllocatorState
  <1>2. /\ b.free_pages2 = a.free_pages2 \ P
        /\ b.free_slots4 = a.free_slots4 \ F
        /\ b.page_free_cnt = a.page_free_cnt
        /\ b.partial_slots = a.partial_slots
    BY DEF Take, AllocatorState
  <1>3. b \in AllocatorState
    <2>1. a.held \cup SlotsOfPages(P) \cup F \in SUBSET Slots
      BY <1>1 DEF SlotsOfPages, Slots, AllocatorState
    <2> QED
      BY Zenon, <2>1 DEF Take, AllocatorState
  <1>4. F \cap Slots2 = {} /\ SlotsOfPages(P) \cap Slots4 = {}
    BY Zenon, <1>1, Regions DEF SlotsOfPages
  <1>5. b.free_slots4 = Slots4 \ V
    BY <1>2, <1>4 DEF Consistent
  <1>6. ASSUME NEW p \in b.free_pages2
        PROVE  b.page_free_cnt[p] = 0 /\ PageSlots(p) \cap V = {}
    <2>1. p \in a.free_pages2 /\ p \notin P
      BY <1>2
    <2>2. PageSlots(p) \cap SlotsOfPages(P) = {} /\ PageSlots(p) \cap F = {}
      BY <2>1, <1>4 DEF PageSlots, SlotsOfPages
    <2> QED
      BY <1>2, <2>1, <2>2 DEF Consistent
  <1>7. ASSUME NEW p \in Pages \ b.free_pages2
        PROVE  /\ b.page_free_cnt[p] = Cardinality(PageSlots(p) \ V)
               /\ b.page_free_cnt[p] < PAGE
    <2>1. CASE p \in P
      <3>1. PageSlots(p) \ V = {}
        BY <2>1 DEF PageSlots, SlotsOfPages
      <3>2. b.page_free_cnt[p] = 0
        BY <2>1, <1>2 DEF Consistent
      <3>3. Cardinality(PageSlots(p) \ V) = 0
        BY <3>1, FS_EmptySet, Zenon
      <3> QED
        BY <3>2, <3>3, SizeAssumption
    <2>2. CASE p \notin P
      <3>1. p \in Pages \ a.free_pages2
        BY <2>2, <1>2
      <3>2. PageSlots(p) \ V = PageSlots(p) \ U
        BY <2>2, <1>4 DEF PageSlots, SlotsOfPages
      <3> QED
        BY <3>1, <3>2, <1>2 DEF Consistent
    <2> QED
      BY <2>1, <2>2
  <1>8. SlotsOfPages(Pages \ b.free_pages2) \ V
          = SlotsOfPages(Pages \ a.free_pages2) \ U
    BY <1>1, <1>2, <1>4 DEF SlotsOfPages
  <1> QED
    BY Zenon, <1>2, <1>3, <1>5, <1>6, <1>7, <1>8 DEF Consistent

\* free() outside a group, of slots in use.
LEMMA ReleaseConsistent ==
  ASSUME NEW a \in AllocatorState, NEW U \in SUBSET Slots, Consistent(a, U),
         NEW S \in SUBSET U
  PROVE  /\ Release(a, S) \in AllocatorState
         /\ Consistent(Release(a, S), U \ S)
  <1> DEFINE s4   == {s \in S : s >= offset}
             s2   == {s \in S : s < offset /\ s >= PAGE}
             cnt  == [p \in Pages |-> a.page_free_cnt[p]
                                       + Cardinality({s \in s2 : PageOf(s) = p})]
             cand == {p \in Pages : \E s \in s2 : PageOf(s) = p}
             full == {p \in cand : cnt[p] >= PAGE}
             b    == Release(a, S)
             V    == U \ S
  <1>1. /\ a.free_pages2 \in SUBSET Pages /\ a.free_slots4 \in SUBSET Slots4
        /\ a.page_free_cnt \in [Pages -> Nat] /\ a.partial_slots \in Int
    BY DEF AllocatorState
  <1>2. s4 = S \cap Slots4 /\ s2 = S \cap Slots2
    <2>1. \A s \in S : s \in Slots2 \/ s \in Slots4
      BY DEF Slots
    <2>2. \A s \in Slots4 : s \in Nat /\ s >= offset /\ ~ (s < offset)
      BY Regions
    <2>3. \A s \in Slots2 : s \in Nat /\ s >= PAGE /\ s < offset /\ ~ (s >= offset)
      BY Regions
    <2> QED
      BY <2>1, <2>2, <2>3
  <1>3. /\ IsFiniteSet(s2) /\ Cardinality(s2) \in Nat
        /\ \A T \in SUBSET Slots2 : IsFiniteSet(T) /\ Cardinality(T) \in Nat
    <2>1. \A T \in SUBSET Slots2 : IsFiniteSet(T) /\ Cardinality(T) \in Nat
      BY Zenon, Regions, FS_Subset, FS_CardinalityType
    <2>2. s2 \in SUBSET Slots2
      BY <1>2
    <2> QED
      BY <2>1, <2>2
  <1>4. full \in SUBSET Pages /\ Cardinality(full) \in Nat
    BY Zenon, Regions, FS_Subset, FS_CardinalityType
  <1>5. \A p \in Pages : {s \in s2 : PageOf(s) = p} = PageSlots(p) \cap S
    BY <1>2 DEF PageSlots
  <1>6. cnt \in [Pages -> Nat]
    <2>1. \A p \in Pages : Cardinality({s \in s2 : PageOf(s) = p}) \in Nat
      <3> TAKE p \in Pages
      <3>1. {s \in s2 : PageOf(s) = p} \in SUBSET Slots2
        BY <1>2
      <3> QED
        BY <3>1, <1>3
    <2> QED
      BY <1>1, <2>1
  <1>7. /\ b.free_slots4 = a.free_slots4 \cup s4
        /\ b.page_free_cnt = [p \in Pages |-> IF p \in full THEN 0 ELSE cnt[p]]
        /\ b.free_pages2 = a.free_pages2 \cup full
        /\ b.partial_slots = a.partial_slots + Cardinality(s2) - Cardinality(full) * PAGE
    BY DEF Release, AllocatorState
  <1>8. b \in AllocatorState
    <2>1. [p \in Pages |-> IF p \in full THEN 0 ELSE cnt[p]] \in [Pages -> Nat]
      BY <1>6
    <2>2. a.free_slots4 \cup s4 \in SUBSET Slots4
      BY <1>1, <1>2
    <2>3. a.partial_slots + Cardinality(s2) - Cardinality(full) * PAGE \in Int
      BY <1>1, <1>3, <1>4, SizeAssumption
    <2> QED
      BY Zenon, <1>1, <1>4, <2>1, <2>2, <2>3 DEF Release, AllocatorState
  <1>9. b.free_slots4 = Slots4 \ V
    BY <1>2, <1>7, Regions DEF Consistent, Slots
  \* The count of a page that is out is what is left of it outside V.
  <1>10. ASSUME NEW p \in Pages \ a.free_pages2
         PROVE  cnt[p] = Cardinality(PageSlots(p) \ V)
    <2>1. /\ PageSlots(p) \ V = (PageSlots(p) \ U) \cup (PageSlots(p) \cap S)
          /\ (PageSlots(p) \ U) \cap (PageSlots(p) \cap S) = {}
      OBVIOUS
    <2>2. PageSlots(p) \ U \in SUBSET Slots2 /\ PageSlots(p) \cap S \in SUBSET Slots2
      BY DEF PageSlots
    <2>3. Cardinality((PageSlots(p) \ U) \cup (PageSlots(p) \cap S))
            = Cardinality(PageSlots(p) \ U) + Cardinality(PageSlots(p) \cap S)
      BY <2>1, <2>2, <1>3, DisjointUnion
    <2>4. cnt[p] = a.page_free_cnt[p] + Cardinality(PageSlots(p) \cap S)
      BY <1>5, Zenon
    <2>5. a.page_free_cnt[p] = Cardinality(PageSlots(p) \ U)
      BY DEF Consistent
    <2>6. Cardinality(PageSlots(p) \ V)
            = Cardinality((PageSlots(p) \ U) \cup (PageSlots(p) \cap S))
      BY <2>1, Zenon
    <2> QED
      BY <2>3, <2>4, <2>5, <2>6, Zenon
  \* A page that is touched is out, one that is not keeps its count.
  <1>11. cand \cap a.free_pages2 = {}
    BY <1>2 DEF Consistent, PageSlots
  <1>12. ASSUME NEW p \in Pages \ cand
         PROVE  cnt[p] = a.page_free_cnt[p] /\ PageSlots(p) \ V = PageSlots(p) \ U
    <2>1. {s \in s2 : PageOf(s) = p} = {}
      BY <1>12
    <2>2. Cardinality({s \in s2 : PageOf(s) = p}) = 0
      BY <2>1, FS_EmptySet, Zenon
    <2>3. cnt[p] = a.page_free_cnt[p] + Cardinality({s \in s2 : PageOf(s) = p})
      OBVIOUS
    <2>4. PageSlots(p) \cap S = {}
      BY <2>1, <1>5, Zenon
    <2>5. a.page_free_cnt[p] \in Nat
      BY <1>1, <1>12
    <2> QED
      BY <2>2, <2>3, <2>4, <2>5
  \* The pages given back have no slot in use left.
  <1>13. ASSUME NEW p \in full PROVE PageSlots(p) \cap V = {}
    <2>1. p \in Pages \ a.free_pages2 /\ cnt[p] >= PAGE
      BY <1>11
    <2>2. Cardinality(PageSlots(p) \ V) >= Cardinality(PageSlots(p))
      BY Zenon, <2>1, <1>10, OnePage
    <2>3. PageSlots(p) \ V \in SUBSET PageSlots(p)
      OBVIOUS
    <2>4. /\ IsFiniteSet(PageSlots(p)) /\ Cardinality(PageSlots(p)) = PAGE
      BY Zenon, <2>1, OnePage
    <2>5. Cardinality(PageSlots(p) \ V) \in Nat
      BY <2>3, <2>4, FS_Subset, FS_CardinalityType
    <2>6. Cardinality(PageSlots(p) \ V) <= Cardinality(PageSlots(p))
      BY <2>3, <2>4, FS_Subset
    <2>7. Cardinality(PageSlots(p)) = Cardinality(PageSlots(p) \ V)
      BY <2>2, <2>4, <2>5, <2>6, SizeAssumption
    <2>8. PageSlots(p) = PageSlots(p) \ V
      BY <2>3, <2>4, <2>7, FS_Subset
    <2> QED
      BY <2>8
  <1>14. ASSUME NEW p \in b.free_pages2
         PROVE  b.page_free_cnt[p] = 0 /\ PageSlots(p) \cap V = {}
    <2>1. CASE p \in full
      BY <2>1, <1>4, <1>7, <1>13
    <2>2. CASE p \notin full
      <3>1. p \in a.free_pages2 /\ p \in Pages \ cand
        BY <2>2, <1>1, <1>7, <1>11
      <3>2. b.page_free_cnt[p] = a.page_free_cnt[p]
        BY <2>2, <3>1, <1>7, <1>12
      <3> QED
        BY <3>1, <3>2 DEF Consistent
    <2> QED
      BY <2>1, <2>2
  <1>15. ASSUME NEW p \in Pages \ b.free_pages2
         PROVE  /\ b.page_free_cnt[p] = Cardinality(PageSlots(p) \ V)
                /\ b.page_free_cnt[p] < PAGE
    <2>1. p \in Pages \ a.free_pages2 /\ p \notin full
      BY <1>7
    <2>2. b.page_free_cnt[p] = cnt[p] /\ cnt[p] \in Nat
      BY <2>1, <1>6, <1>7
    <2>3. cnt[p] = Cardinality(PageSlots(p) \ V)
      BY <2>1, <1>10
    <2>4. CASE p \in cand
      BY <2>1, <2>2, <2>3, <2>4, SizeAssumption
    <2>5. CASE p \notin cand
      <3>1. cnt[p] = a.page_free_cnt[p]
        BY <2>1, <2>5, <1>12
      <3>2. a.page_free_cnt[p] < PAGE
        BY Zenon, <2>1 DEF Consistent
      <3> QED
        BY <2>2, <2>3, <3>1, <3>2
    <2> QED
      BY <2>4, <2>5
  \* partial_slots: the slots S leaves, less the pages made whole.
  <1>16. b.partial_slots = Cardinality(SlotsOfPages(Pages \ b.free_pages2) \ V)
    <2> DEFINE N == Pages \ a.free_pages2
               A == SlotsOfPages(N) \ U
               B == A \cup s2
               C == SlotsOfPages(full)
    <2>1. A \in SUBSET Slots2 /\ A \cap s2 = {}
      BY <1>2 DEF SlotsOfPages
    <2>2. /\ IsFiniteSet(A) /\ IsFiniteSet(B)
          /\ Cardinality(B) = Cardinality(A) + Cardinality(s2)
      BY Zenon, <2>1, <1>3, DisjointUnion
    <2>3. C \in SUBSET B
      <3> SUFFICES ASSUME NEW s \in C PROVE s \in B
        BY Zenon
      <3>1. s \in Slots2 /\ PageOf(s) \in full /\ s \in PageSlots(PageOf(s))
        BY DEF SlotsOfPages, PageSlots
      <3>2. s \notin V
        BY <3>1, <1>13
      <3>3. PageOf(s) \in N
        BY <3>1, <1>4, <1>11
      <3> QED
        BY <3>1, <3>2, <3>3, <1>2 DEF SlotsOfPages
    <2>4. Cardinality(B \ C) = Cardinality(B) - Cardinality(C)
      BY Zenon, <2>2, <2>3, Removal
    <2>5. Cardinality(C) = Cardinality(full) * PAGE
      BY Zenon, <1>4, PagesCardinality
    <2>6. SlotsOfPages(Pages \ b.free_pages2) \ V = B \ C
      <3>1. ASSUME NEW s \in SlotsOfPages(Pages \ b.free_pages2) \ V
            PROVE  s \in B \ C
        BY <3>1, <1>2, <1>7 DEF SlotsOfPages
      <3>2. ASSUME NEW s \in B \ C
            PROVE  s \in SlotsOfPages(Pages \ b.free_pages2) \ V
        <4>1. s \in Slots2 /\ s \notin V /\ PageOf(s) \notin full
          BY <2>1, <1>2 DEF SlotsOfPages
        <4>2. PageOf(s) \in N
          <5>1. CASE s \in A
            BY <5>1 DEF SlotsOfPages
          <5>2. CASE s \in s2
            BY <5>2, <4>1, <1>11, SlotOfPage
          <5> QED
            BY <5>1, <5>2
        <4> QED
          BY <4>1, <4>2, <1>7 DEF SlotsOfPages
      <3> QED
        BY Zenon, <3>1, <3>2
    <2>7. Cardinality(SlotsOfPages(Pages \ b.free_pages2) \ V) = Cardinality(B \ C)
      BY <2>6, Zenon
    <2>8. a.partial_slots = Cardinality(A)
      BY DEF Consistent
    <2>9. /\ Cardinality(A) \in Nat /\ Cardinality(s2) \in Nat
          /\ Cardinality(full) * PAGE \in Nat
      BY <1>3, <1>4, <2>2, FS_CardinalityType, SizeAssumption
    <2>10. b.partial_slots = Cardinality(A) + Cardinality(s2) - Cardinality(C)
      BY <1>7, <2>5, <2>8
    <2> HIDE DEF A, B, C
    <2> QED
      BY <2>2, <2>4, <2>5, <2>7, <2>9, <2>10
  <1> QED
    BY <1>8, <1>9, <1>14, <1>15, <1>16 DEF Consistent

-----------------------------------------------------------------------------
(***************************************************************************)
(* The free group.                                                         *)
(***************************************************************************)
LEMMA InUseType ==
  ASSUME NEW a \in AllocatorState
  PROVE  /\ Grouped(a) \in SUBSET Slots
         /\ InUse(a) \in SUBSET Slots
         /\ a.held \in SUBSET Slots
         /\ a.is_not_in_free_group => InUse(a) = a.held
         /\ ~ a.is_not_in_free_group => InUse(a) = a.held \cup Grouped(a)
  <1>1. a.held \in SUBSET Slots /\ a.free_group \in Seq(SUBSET Slots)
    BY DEF AllocatorState
  <1>2. \A i \in DOMAIN a.free_group : a.free_group[i] \in SUBSET Slots
    BY <1>1
  <1>3. Grouped(a) \in SUBSET Slots
    BY <1>2 DEF Grouped
  <1> QED
    BY <1>1, <1>3 DEF InUse

\* free() in a group appends to the list and recycles nothing.
LEMMA FreeInGroup ==
  ASSUME NEW a \in AllocatorState, ~ a.is_not_in_free_group,
         NEW S \in SUBSET a.held, S # {}
  PROVE  LET b == free(a, S)
         IN  /\ b \in AllocatorState
             /\ b.free_pages2 = a.free_pages2 /\ b.free_slots4 = a.free_slots4
             /\ b.page_free_cnt = a.page_free_cnt
             /\ b.partial_slots = a.partial_slots
             /\ b.is_not_in_free_group = a.is_not_in_free_group
             /\ b.held = a.held \ S
             /\ Grouped(b) = Grouped(a) \cup S
  <1> DEFINE b == free(a, S)
             g == a.free_group
             h == Append(g, S)
  <1>1. b = [a EXCEPT !.free_group = Append(@, S), !.held = @ \ S]
    BY DEF free
  <1>2. g \in Seq(SUBSET Slots) /\ S \in SUBSET Slots
    BY DEF AllocatorState
  <1>3. h \in Seq(SUBSET Slots)
    BY <1>2
  <1>4. b \in AllocatorState /\ b.free_group = h
    BY Zenon, <1>1, <1>3 DEF AllocatorState
  <1>5. /\ \A i \in DOMAIN g : i \in DOMAIN h /\ h[i] = g[i]
        /\ Len(g) + 1 \in DOMAIN h /\ h[Len(g) + 1] = S
        /\ \A i \in DOMAIN h : i \in DOMAIN g \/ i = Len(g) + 1
    BY <1>2
  <1>6. UNION {h[i] : i \in DOMAIN h} = (UNION {g[i] : i \in DOMAIN g}) \cup S
    <2> HIDE DEF g, h
    <2>1. ASSUME NEW s, NEW i \in DOMAIN h, s \in h[i]
          PROVE  s \in (UNION {g[j] : j \in DOMAIN g}) \cup S
      BY <2>1, <1>5
    <2>2. ASSUME NEW s \in (UNION {g[j] : j \in DOMAIN g}) \cup S
          PROVE  \E i \in DOMAIN h : s \in h[i]
      BY <2>2, <1>5
    <2> QED
      BY <2>1, <2>2
  <1>7. Grouped(b) = Grouped(a) \cup S
    BY <1>4, <1>6 DEF Grouped
  <1> QED
    BY <1>1, <1>4, <1>7 DEF AllocatorState

\* Consistent depends on the four fields that backup_state saves, only.
LEMMA ConsistentFields ==
  ASSUME NEW a, NEW b, NEW U, Consistent(a, U),
         b.free_pages2 = a.free_pages2, b.free_slots4 = a.free_slots4,
         b.page_free_cnt = a.page_free_cnt, b.partial_slots = a.partial_slots
  PROVE  Consistent(b, U)
  BY DEF Consistent

-----------------------------------------------------------------------------
(***************************************************************************)
(* The invariant is inductive.                                             *)
(***************************************************************************)
LEMMA InitIInv == Init => IInv
  <1> SUFFICES ASSUME Init PROVE IInv
    OBVIOUS
  <1>1. alloc = cleared /\ backup = <<>>
    BY DEF Init
  <1>2. TypeOK
    BY <1>1, ClearedConsistent DEF TypeOK
  <1>3. alloc.is_not_in_free_group
    BY <1>1 DEF cleared
  <1>4. Consistent(alloc, InUse(alloc))
    BY <1>1, ClearedConsistent, Zenon
  <1> QED
    BY <1>1, <1>2, <1>3, <1>4 DEF IInv

\* An allocation of any free pages and INT4 slots.
LEMMA TakeIInv ==
  ASSUME IInv, NEW P \in SUBSET alloc.free_pages2,
         NEW F \in SUBSET alloc.free_slots4,
         alloc' = Take(alloc, P, F), backup' = backup
  PROVE  IInv'
  <1> DEFINE U == InUse(alloc)
             V == U \cup SlotsOfPages(P) \cup F
  <1>1. /\ alloc \in AllocatorState /\ backup \in Seq(SavedState)
        /\ U \in SUBSET Slots /\ Consistent(alloc, U)
    BY InUseType DEF IInv, TypeOK
  <1>2. alloc' \in AllocatorState /\ Consistent(alloc', V)
    BY Zenon, <1>1, TakeConsistent
  <1>3. /\ alloc'.held = alloc.held \cup SlotsOfPages(P) \cup F
        /\ alloc'.is_not_in_free_group = alloc.is_not_in_free_group
        /\ alloc'.free_group = alloc.free_group
    BY <1>1 DEF Take, AllocatorState
  <1>4. Grouped(alloc') = Grouped(alloc)
    BY <1>3 DEF Grouped
  <1>5. InUse(alloc') = V
    BY <1>3, <1>4 DEF InUse
  <1>6. Consistent(alloc', InUse(alloc'))
    BY <1>2, <1>5, Zenon
  <1>7. ~ alloc'.is_not_in_free_group => Grouped(alloc') \cap alloc'.held = {}
    <2> SUFFICES ASSUME ~ alloc'.is_not_in_free_group
                 PROVE  Grouped(alloc') \cap alloc'.held = {}
      OBVIOUS
    <2>1. Grouped(alloc) \subseteq U /\ Grouped(alloc) \cap alloc.held = {}
      BY <1>1, <1>3, InUseType DEF IInv
    <2>2. FreeSlots(alloc) \cap U = {}
      BY <1>1, ConsistentSafe DEF AllocatorState
    <2>3. SlotsOfPages(P) \cup F \subseteq FreeSlots(alloc)
      BY DEF FreeSlots, SlotsOfPages
    <2> QED
      BY <2>1, <2>2, <2>3, <1>3, <1>4
  <1>8. backup' # <<>> =>
          /\ alloc'.is_not_in_free_group
          /\ backup'[1].held \subseteq alloc'.held
          /\ Consistent(backup'[1], backup'[1].held)
    BY <1>3 DEF IInv
  <1> QED
    BY <1>1, <1>2, <1>6, <1>7, <1>8 DEF IInv, TypeOK

LEMMA NextIInv == IInv /\ [Next]_vars => IInv'
  <1> SUFFICES ASSUME IInv, [Next]_vars PROVE IInv'
    OBVIOUS
  <1> DEFINE U == InUse(alloc)
  <1>0. /\ alloc \in AllocatorState /\ backup \in Seq(SavedState)
        /\ U \in SUBSET Slots /\ Consistent(alloc, U)
    BY InUseType DEF IInv, TypeOK
  <1>1. CASE Alloc
    <2>1. PICK F \in SUBSET alloc.free_slots4 :
            alloc' = Take(alloc, {}, F) /\ backup' = backup
      BY <1>1 DEF Alloc
    <2> QED
      BY <2>1, TakeIInv
  <1>2. CASE AllocMixed
    <2>1. PICK P \in SUBSET alloc.free_pages2, F \in SUBSET alloc.free_slots4 :
            alloc' = Take(alloc, P, F) /\ backup' = backup
      BY <1>2 DEF AllocMixed
    <2> QED
      BY <2>1, TakeIInv
  <1>3. CASE Free
    <2>1. PICK S \in SUBSET alloc.held :
            alloc' = free(alloc, S) /\ backup = <<>> /\ backup' = backup
      BY <1>3 DEF Free
    <2>2. CASE S = {}
      <3>1. alloc' = alloc
        BY <2>1, <2>2 DEF free
      <3> QED
        BY <2>1, <3>1 DEF IInv, TypeOK
    <2>3. CASE S # {} /\ ~ alloc.is_not_in_free_group
      <3>1. /\ alloc' \in AllocatorState
            /\ alloc'.is_not_in_free_group = alloc.is_not_in_free_group
            /\ alloc'.held = alloc.held \ S
            /\ Grouped(alloc') = Grouped(alloc) \cup S
        BY <1>0, <2>1, <2>3, FreeInGroup
      <3>2. InUse(alloc') = U
        BY <2>3, <3>1 DEF InUse
      <3>3. Consistent(alloc', U)
        BY <1>0, <2>1, <2>3, FreeInGroup, ConsistentFields
      <3>4. Consistent(alloc', InUse(alloc'))
        BY <3>2, <3>3, Zenon
      <3>5. Grouped(alloc') \cap alloc'.held = {}
        BY <2>3, <3>1 DEF IInv
      <3> QED
        BY <1>0, <2>1, <3>1, <3>4, <3>5 DEF IInv, TypeOK
    <2>4. CASE S # {} /\ alloc.is_not_in_free_group
      <3> DEFINE b == Release(alloc, S)
      <3>1. alloc' = [b EXCEPT !.held = @ \ S]
        BY <2>1, <2>4 DEF free
      <3>2. U = alloc.held
        BY <1>0, <2>4, InUseType
      <3>3. b \in AllocatorState /\ Consistent(b, U \ S)
        BY <1>0, <3>2, ReleaseConsistent
      <3>4. b.held = alloc.held /\ b.is_not_in_free_group
        BY <1>0, <2>4 DEF Release, AllocatorState
      <3>5. /\ alloc' \in AllocatorState
            /\ alloc'.held = alloc.held \ S /\ alloc'.is_not_in_free_group
            /\ alloc'.free_pages2 = b.free_pages2
            /\ alloc'.free_slots4 = b.free_slots4
            /\ alloc'.page_free_cnt = b.page_free_cnt
            /\ alloc'.partial_slots = b.partial_slots
        <4> HIDE DEF b
        <4> QED
          BY Zenon, <3>1, <3>3, <3>4 DEF AllocatorState
      <3>6. InUse(alloc') = U \ S
        BY <3>2, <3>5 DEF InUse
      <3>7. Consistent(alloc', U \ S)
        BY <3>3, <3>5, ConsistentFields
      <3>8. Consistent(alloc', InUse(alloc'))
        BY <3>6, <3>7, Zenon
      <3> QED
        BY <1>0, <2>1, <3>5, <3>8 DEF IInv, TypeOK
    <2> QED
      BY <2>2, <2>3, <2>4
  <1>4. CASE FreeGroupBegin
    <2>0. <<>> \in Seq(SUBSET Slots)
      OBVIOUS
    <2>1. /\ alloc' \in AllocatorState /\ ~ alloc'.is_not_in_free_group
          /\ alloc'.free_group = <<>> /\ alloc'.held = alloc.held
          /\ alloc'.free_pages2 = alloc.free_pages2
          /\ alloc'.free_slots4 = alloc.free_slots4
          /\ alloc'.page_free_cnt = alloc.page_free_cnt
          /\ alloc'.partial_slots = alloc.partial_slots
          /\ backup' = <<>> /\ alloc.is_not_in_free_group
      BY Zenon, <1>0, <1>4, <2>0 DEF FreeGroupBegin, free_group_begin, AllocatorState
    <2>2. Grouped(alloc') = {}
      BY <2>1 DEF Grouped
    <2>3. InUse(alloc') = U
      BY <2>1, <2>2 DEF InUse
    <2>4. Consistent(alloc', U)
      BY <1>0, <2>1, ConsistentFields
    <2>5. Consistent(alloc', InUse(alloc'))
      BY <2>3, <2>4, Zenon
    <2> QED
      BY <2>1, <2>2, <2>5 DEF IInv, TypeOK
  <1>5. CASE FreeGroupEnd
    <2> DEFINE o == [alloc EXCEPT !.is_not_in_free_group = TRUE]
               G == Grouped(alloc)
               b == Release(o, G)
    <2>1. /\ ~ alloc.is_not_in_free_group /\ backup' = backup /\ backup = <<>>
          /\ alloc' = free_group_end(alloc)
      BY <1>5 DEF FreeGroupEnd, IInv
    <2>2. /\ o \in AllocatorState /\ o.is_not_in_free_group
          /\ o.held = alloc.held
          /\ o.free_pages2 = alloc.free_pages2
          /\ o.free_slots4 = alloc.free_slots4
          /\ o.page_free_cnt = alloc.page_free_cnt
          /\ o.partial_slots = alloc.partial_slots
      BY Zenon, <1>0 DEF AllocatorState
    <2>3. U = alloc.held \cup G /\ G \cap alloc.held = {}
      BY <1>0, <2>1, InUseType DEF IInv
    <2>4. Consistent(o, U)
      <3> HIDE DEF o
      <3> QED
        BY <1>0, <2>2, ConsistentFields
    <2>5. CASE alloc.free_group = <<>>
      <3>1. alloc' = o /\ G = {}
        BY <2>1, <2>5 DEF free_group_end, Grouped
      <3>2. InUse(alloc') = U
        BY <2>2, <2>3, <3>1 DEF InUse
      <3>3. Consistent(alloc', InUse(alloc'))
        BY <2>4, <3>1, <3>2, Zenon
      <3> HIDE DEF o
      <3> QED
        BY <2>1, <2>2, <3>1, <3>3 DEF IInv, TypeOK
    <2>6. CASE alloc.free_group # <<>>
      <3>1. alloc' = b
        BY <2>1, <2>6 DEF free_group_end
      <3>2. b \in AllocatorState /\ Consistent(b, U \ G)
        <4> HIDE DEF o
        <4> QED
          BY SMTT(30), <1>0, <2>2, <2>3, <2>4, ReleaseConsistent
      <3>3. b.is_not_in_free_group /\ b.held = alloc.held
        BY <1>0, <2>2 DEF Release, AllocatorState
      <3>4. InUse(alloc') = U \ G
        BY <2>3, <3>1, <3>3 DEF InUse
      <3>5. Consistent(alloc', InUse(alloc'))
        BY <3>1, <3>2, <3>4, Zenon
      <3> HIDE DEF b
      <3> QED
        BY <2>1, <3>1, <3>2, <3>3, <3>5 DEF IInv, TypeOK
    <2> QED
      BY <2>5, <2>6
  <1>6. CASE BackupState
    <2> DEFINE c == backup_state(alloc)
    <2>1. alloc' = alloc /\ backup' = <<c>> /\ alloc.is_not_in_free_group
      BY <1>6 DEF BackupState
    <2>2. /\ c \in SavedState /\ c.held = alloc.held
          /\ c.free_pages2 = alloc.free_pages2
          /\ c.free_slots4 = alloc.free_slots4
          /\ c.page_free_cnt = alloc.page_free_cnt
          /\ c.partial_slots = alloc.partial_slots
      BY <1>0 DEF backup_state, SavedState, AllocatorState
    <2>3. U = alloc.held
      BY <1>0, <2>1, InUseType
    <2> HIDE DEF c
    <2>4. Consistent(c, U)
      BY <1>0, <2>2, ConsistentFields
    <2>5. backup'[1] = c /\ backup' \in Seq(SavedState)
      BY <2>1, <2>2
    <2>6. Consistent(backup'[1], backup'[1].held)
      BY <2>2, <2>3, <2>4, <2>5, Zenon
    <2>7. backup'[1].held = alloc'.held
      BY <2>1, <2>2, <2>5
    <2> QED
      BY <2>1, <2>5, <2>6, <2>7 DEF IInv, TypeOK
  <1>7. CASE RestoreState
    <2> DEFINE c == backup[1]
    <2>1. backup # <<>> /\ alloc' = restore_state(alloc, c) /\ backup' = <<>>
      BY <1>7 DEF RestoreState
    <2>2. c \in SavedState
      BY <1>0, <2>1
    <2>3. alloc.is_not_in_free_group /\ Consistent(c, c.held)
      BY <2>1 DEF IInv
    <2> HIDE DEF c
    <2>4. /\ alloc' \in AllocatorState /\ alloc'.is_not_in_free_group
          /\ alloc'.held = c.held
          /\ alloc'.free_pages2 = c.free_pages2
          /\ alloc'.free_slots4 = c.free_slots4
          /\ alloc'.page_free_cnt = c.page_free_cnt
          /\ alloc'.partial_slots = c.partial_slots
      BY Zenon, <1>0, <2>1, <2>2, <2>3 DEF restore_state, SavedState, AllocatorState
    <2>5. InUse(alloc') = c.held
      BY <2>4 DEF InUse
    <2>6. Consistent(alloc', c.held)
      BY <2>3, <2>4, ConsistentFields
    <2>7. Consistent(alloc', InUse(alloc'))
      BY <2>5, <2>6, Zenon
    <2> QED
      BY <2>1, <2>4, <2>7 DEF IInv, TypeOK
  <1>8. CASE Clear
    <2>1. alloc' = cleared /\ backup' = <<>>
      BY <1>8 DEF Clear
    <2>2. alloc'.is_not_in_free_group
      BY <2>1 DEF cleared
    <2>3. Consistent(alloc', InUse(alloc'))
      BY <2>1, ClearedConsistent, Zenon
    <2> QED
      BY <2>1, <2>2, <2>3, ClearedConsistent DEF IInv, TypeOK
  <1>9. CASE UNCHANGED vars
    <2>1. alloc' = alloc /\ backup' = backup
      BY <1>9 DEF vars
    <2> QED
      BY <2>1 DEF IInv, TypeOK
  <1> QED
    BY <1>1, <1>2, <1>3, <1>4, <1>5, <1>6, <1>7, <1>8, <1>9 DEF Next

-----------------------------------------------------------------------------
(***************************************************************************)
(* Theorems.                                                               *)
(***************************************************************************)

\* The inductive invariant holds of every reachable state of the allocator,
\* for every page size and every size of the INT2 and INT4 regions.
THEOREM AllocatorInvariant == Spec => []IInv
  BY InitIInv, NextIInv, PTL DEF Spec

\* Type correctness: the free lists, counts and the free group stay inside the
\* usable pages and slots (the dummy page 0 and row 0 never enter them).
THEOREM AllocatorTypeOK == Spec => []TypeOK
  <1>1. IInv => TypeOK
    BY DEF IInv
  <1> QED
    BY <1>1, AllocatorInvariant, PTL

\* available_size() is exact in every reachable state, so the idle leak check
\* never reports an allocator that lost or duplicated slots.
THEOREM AllocatorExactAccounting == Spec => []ExactAccounting
  <1>1. IInv => ExactAccounting
    <2> SUFFICES ASSUME IInv PROVE ExactAccounting
      OBVIOUS
    <2>1. alloc \in AllocatorState /\ Consistent(alloc, InUse(alloc))
      BY DEF IInv, TypeOK
    <2>2. InUse(alloc) \in SUBSET Slots /\ alloc.free_pages2 \in SUBSET Pages
      BY <2>1, InUseType DEF AllocatorState
    <2> QED
      BY <2>1, <2>2, ConsistentExact DEF ExactAccounting
  <1> QED
    BY <1>1, AllocatorInvariant, PTL

\* alloc and alloc_mixed never hand out a slot somebody holds, and free never
\* recycles a page before its last slot came back.
THEOREM AllocatorNoDoubleGrant == Spec => []NoDoubleGrant
  <1>1. IInv => NoDoubleGrant
    <2> SUFFICES ASSUME IInv PROVE NoDoubleGrant
      OBVIOUS
    <2>1. alloc \in AllocatorState /\ Consistent(alloc, InUse(alloc))
      BY DEF IInv, TypeOK
    <2>2. InUse(alloc) \in SUBSET Slots /\ alloc.free_pages2 \in SUBSET Pages
      BY <2>1, InUseType DEF AllocatorState
    <2> QED
      BY <2>1, <2>2, ConsistentSafe DEF NoDoubleGrant
  <1> QED
    BY <1>1, AllocatorInvariant, PTL

\* free recycles a page as soon as its last slot came back, whatever the order.
THEOREM AllocatorNothingStranded == Spec => []NothingStranded
  <1>1. IInv => NothingStranded
    <2> SUFFICES ASSUME IInv PROVE NothingStranded
      OBVIOUS
    <2>1. alloc \in AllocatorState /\ Consistent(alloc, InUse(alloc))
      BY DEF IInv, TypeOK
    <2>2. InUse(alloc) \in SUBSET Slots /\ alloc.free_pages2 \in SUBSET Pages
      BY <2>1, InUseType DEF AllocatorState
    <2> QED
      BY <2>1, <2>2, ConsistentSafe DEF NothingStranded
  <1> QED
    BY <1>1, AllocatorInvariant, PTL

-----------------------------------------------------------------------------
(***************************************************************************)
(* Refinement: the allocator is a SlotPool.                                *)
(***************************************************************************)
LEMMA UseType ==
  ASSUME NEW a \in AllocatorState, Consistent(a, InUse(a))
  PROVE  /\ InUse(a) \in SUBSET Slots /\ IsFiniteSet(InUse(a))
         /\ Cardinality(InUse(a)) \in Nat
         /\ available_size(a) = size - Cardinality(InUse(a))
         /\ size \in Int
  <1>1. InUse(a) \in SUBSET Slots /\ a.free_pages2 \in SUBSET Pages
    BY InUseType DEF AllocatorState
  <1>2. IsFiniteSet(InUse(a)) /\ Cardinality(InUse(a)) \in Nat
    BY <1>1, Regions, FS_Subset, FS_CardinalityType
  <1>3. available_size(a) = size - Cardinality(InUse(a))
    BY <1>1, ConsistentExact
  <1>4. size \in Int
    BY SizeAssumption DEF size
  <1> QED
    BY <1>1, <1>2, <1>3, <1>4

\* A step that only adds slots in use grants them, one that only removes slots
\* returns them.
LEMMA GrowGrants ==
  ASSUME IInv, IInv', InUse(alloc) \subseteq InUse(alloc')
  PROVE  Pool!Grant
  <1> DEFINE U == InUse(alloc)
             V == InUse(alloc')
  <1>1. /\ U \in SUBSET Slots /\ IsFiniteSet(U) /\ Cardinality(U) \in Nat
        /\ available_size(alloc) = size - Cardinality(U) /\ size \in Int
    BY UseType DEF IInv, TypeOK
  <1>2. /\ V \in SUBSET Slots /\ IsFiniteSet(V) /\ Cardinality(V) \in Nat
        /\ available_size(alloc') = size - Cardinality(V)
    BY UseType DEF IInv, TypeOK
  <1> HIDE DEF U, V
  <1>3. Cardinality(V \ U) = Cardinality(V) - Cardinality(U)
    BY <1>2, Removal DEF U, V
  <1>4. available_size(alloc') = available_size(alloc) - Cardinality(V \ U)
    BY <1>1, <1>2, <1>3
  <1>5. V \ U \in SUBSET (Slots \ U) /\ V = U \cup (V \ U)
    BY <1>2 DEF U, V
  <1>6. \E S \in SUBSET (Slots \ U) :
          /\ V = U \cup S
          /\ available_size(alloc') = available_size(alloc) - Cardinality(S)
    BY <1>4, <1>5, Zenon
  <1> QED
    BY <1>6, Zenon DEF Pool!Grant, U, V, Pool!Cardinality, Cardinality

LEMMA ShrinkReturns ==
  ASSUME IInv, IInv', InUse(alloc') \subseteq InUse(alloc)
  PROVE  Pool!Return
  <1> DEFINE U == InUse(alloc)
             V == InUse(alloc')
  <1>1. /\ U \in SUBSET Slots /\ IsFiniteSet(U) /\ Cardinality(U) \in Nat
        /\ available_size(alloc) = size - Cardinality(U) /\ size \in Int
    BY UseType DEF IInv, TypeOK
  <1>2. /\ V \in SUBSET Slots /\ IsFiniteSet(V) /\ Cardinality(V) \in Nat
        /\ available_size(alloc') = size - Cardinality(V)
    BY UseType DEF IInv, TypeOK
  <1> HIDE DEF U, V
  <1>3. Cardinality(U \ V) = Cardinality(U) - Cardinality(V)
    BY <1>1, Removal DEF U, V
  <1>4. available_size(alloc') = available_size(alloc) + Cardinality(U \ V)
    BY <1>1, <1>2, <1>3
  <1>5. U \ V \in SUBSET U /\ V = U \ (U \ V)
    BY DEF U, V
  <1>6. \E S \in SUBSET U :
          /\ V = U \ S
          /\ available_size(alloc') = available_size(alloc) + Cardinality(S)
    BY <1>4, <1>5, Zenon
  <1> QED
    BY <1>6, Zenon DEF Pool!Return, U, V, Pool!Cardinality, Cardinality

LEMMA TakeGrows ==
  ASSUME NEW a \in AllocatorState, NEW P, NEW F
  PROVE  InUse(a) \subseteq InUse(Take(a, P, F))
  <1> DEFINE b == Take(a, P, F)
  <1>1. /\ b.held = a.held \cup SlotsOfPages(P) \cup F
        /\ b.is_not_in_free_group = a.is_not_in_free_group
        /\ b.free_group = a.free_group
    BY DEF Take, AllocatorState
  <1>2. Grouped(b) = Grouped(a)
    BY <1>1 DEF Grouped
  <1> QED
    BY <1>1, <1>2 DEF InUse

\* Every step of the allocator grants slots, returns slots, or changes nothing
\* that the abstract pool shows.
LEMMA StepRefines ==
  IInv /\ IInv' /\ [Next]_vars => [Pool!Grant \/ Pool!Return]_(Pool!poolVars)
  <1> SUFFICES ASSUME IInv, IInv', [Next]_vars
               PROVE  \/ InUse(alloc) \subseteq InUse(alloc')
                      \/ InUse(alloc') \subseteq InUse(alloc)
    BY GrowGrants, ShrinkReturns
  <1>0. alloc \in AllocatorState /\ alloc' \in AllocatorState
    BY DEF IInv, TypeOK
  <1>1. CASE Alloc
    BY <1>0, <1>1, TakeGrows DEF Alloc
  <1>2. CASE AllocMixed
    BY <1>0, <1>2, TakeGrows DEF AllocMixed
  <1>3. CASE Free
    <2>1. PICK S \in SUBSET alloc.held : alloc' = free(alloc, S)
      BY <1>3 DEF Free
    <2>2. CASE S = {}
      BY <2>1, <2>2 DEF free
    <2>3. CASE S # {} /\ ~ alloc.is_not_in_free_group
      <3>1. /\ alloc'.is_not_in_free_group = alloc.is_not_in_free_group
            /\ alloc'.held = alloc.held \ S
            /\ Grouped(alloc') = Grouped(alloc) \cup S
        BY <1>0, <2>1, <2>3, FreeInGroup
      <3> QED
        BY <2>3, <3>1 DEF InUse
    <2>4. CASE S # {} /\ alloc.is_not_in_free_group
      <3>1. alloc'.is_not_in_free_group /\ alloc'.held = alloc.held \ S
        BY Zenon, <1>0, <2>1, <2>4 DEF free, Release, AllocatorState
      <3> QED
        BY <2>4, <3>1 DEF InUse
    <2> QED
      BY <2>2, <2>3, <2>4
  <1>4. CASE FreeGroupBegin
    <2>1. /\ alloc.is_not_in_free_group /\ ~ alloc'.is_not_in_free_group
          /\ alloc'.held = alloc.held
      BY <1>0, <1>4 DEF FreeGroupBegin, free_group_begin, AllocatorState
    <2> QED
      BY <2>1 DEF InUse
  <1>5. CASE FreeGroupEnd
    <2>1. /\ ~ alloc.is_not_in_free_group /\ alloc'.is_not_in_free_group
          /\ alloc'.held = alloc.held
      BY Zenon, <1>0, <1>5 DEF FreeGroupEnd, free_group_end, Release, AllocatorState
    <2> QED
      BY <2>1 DEF InUse
  <1>6. CASE BackupState
    BY <1>6 DEF BackupState
  <1>7. CASE RestoreState
    <2>1. alloc.is_not_in_free_group /\ backup[1].held \subseteq alloc.held
      BY <1>7 DEF RestoreState, IInv
    <2>2. alloc'.is_not_in_free_group /\ alloc'.held = backup[1].held
      BY <1>0, <1>7, <2>1 DEF RestoreState, restore_state, AllocatorState
    <2> QED
      BY <2>1, <2>2 DEF InUse
  <1>8. CASE Clear
    BY <1>8, ClearedConsistent DEF Clear
  <1>9. CASE UNCHANGED vars
    BY <1>9 DEF vars
  <1> QED
    BY <1>1, <1>2, <1>3, <1>4, <1>5, <1>6, <1>7, <1>8, <1>9 DEF Next

\* The allocator implements the abstract pool: a slot has at most one owner,
\* only free slots are granted, and the reported size follows.
THEOREM AllocatorImplementsPool == Spec => ImplementsPool
  <1>1. Init => Pool!PoolInit
    <2> SUFFICES ASSUME Init PROVE Pool!PoolInit
      OBVIOUS
    <2>1. IInv /\ InUse(alloc) = {}
      BY InitIInv, ClearedConsistent DEF Init
    <2>2. Cardinality(InUse(alloc)) = 0
      BY <2>1, FS_EmptySet, Zenon
    <2>3. /\ available_size(alloc) = size - Cardinality(InUse(alloc))
          /\ size \in Int
      BY InitIInv, UseType DEF IInv, TypeOK
    <2>4. available_size(alloc) = size
      BY <2>2, <2>3
    <2> QED
      BY <2>1, <2>4 DEF Pool!PoolInit
  <1> QED
    BY <1>1, StepRefines, AllocatorInvariant, PTL DEF Spec, ImplementsPool, Pool!PoolSpec

=============================================================================
