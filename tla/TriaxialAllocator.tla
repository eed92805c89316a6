------------------------- MODULE TriaxialAllocator -------------------------
(***************************************************************************)
(* The token-slot allocator of TriAxialKV (mem_cache/triaxial_pool.py,     *)
(* class TriaxialAllocator, with the free-group protocol it inherits from  *)
(* mem_cache/allocator.py).  One address space of slots is split in two    *)
(* regions: INT2 slots, handed out as whole pages of PAGE consecutive      *)
(* slots and taken back one by one, and INT4 slots, handed out and taken   *)
(* back one by one.                                                        *)
(*                                                                         *)
(* The allocator is one record, and each method of the class is an         *)
(* operator that maps a record to the next one, so that the modules that   *)
(* model its callers can chain several calls in one step.                  *)
(*                                                                         *)
(* The free lists are sets.  The code keeps them as tensors and serves     *)
(* allocations from the front; pages are interchangeable, and so are INT4  *)
(* slots, so the operators take the pages and slots to serve as arguments  *)
(* and the specification lets them be any free ones.                       *)
(*                                                                         *)
(* held is an auxiliary field: the slots the callers own, that is, were    *)
(* given and have not passed to free().  No operator reads it except to    *)
(* update it.                                                              *)
(***************************************************************************)
EXTENDS Integers, Sequences, FiniteSets

CONSTANTS
  PAGE,       \* slots of an INT2 page (32 in the code)
  NumPages,   \* usable INT2 pages: num_pages2 - 1, page 0 being the dummy
  NumInt4     \* usable INT4 slots: size4 - 1, row 0 being the dummy

ASSUME SizeAssumption ==
  /\ PAGE \in Nat \ {0}
  /\ NumPages \in Nat
  /\ NumInt4 \in Nat

-----------------------------------------------------------------------------
(***************************************************************************)
(* The address space.                                                      *)
(***************************************************************************)
Pages == 1 .. NumPages

offset == (NumPages + 1) * PAGE

PageOf(s) == s \div PAGE

Slots2 == PAGE .. (offset - 1)

PageSlots(p) == {s \in Slots2 : PageOf(s) = p}

Slots4 == (offset + 1) .. (offset + NumInt4)

Slots == Slots2 \cup Slots4

\* max_total_num_tokens, the capacity the scheduler accounts for.
size == NumPages * PAGE + NumInt4

SlotsOfPages(P) == {s \in Slots2 : PageOf(s) \in P}

AllocatorState ==
  [free_pages2          : SUBSET Pages,
   free_slots4          : SUBSET Slots4,
   page_free_cnt        : [Pages -> Nat],
   partial_slots        : Int,
   is_not_in_free_group : BOOLEAN,
   free_group           : Seq(SUBSET Slots),
   held                 : SUBSET Slots]

\* Mutant: clear() starts the INT4 rows at the dummy row 0.
cleared_with_dummy_row ==
  [free_pages2          |-> Pages,
   free_slots4          |-> offset .. (offset + NumInt4 - 1),
   page_free_cnt        |-> [p \in Pages |-> 0],
   partial_slots        |-> 0,
   is_not_in_free_group |-> TRUE,
   free_group           |-> <<>>,
   held                 |-> {}]

cleared ==
  [free_pages2          |-> Pages,
   free_slots4          |-> Slots4,
   page_free_cnt        |-> [p \in Pages |-> 0],
   partial_slots        |-> 0,
   is_not_in_free_group |-> TRUE,
   free_group           |-> <<>>,
   held                 |-> {}]

-----------------------------------------------------------------------------
(***************************************************************************)
(* Accounting.                                                             *)
(***************************************************************************)
available_size_int4(a) == Cardinality(a.free_slots4)

available_size_int2(a) == Cardinality(a.free_pages2) * PAGE

available_size(a) ==
  available_size_int2(a) + available_size_int4(a) + a.partial_slots

\* What the scheduler may admit for prefill when a share num / den of the
\* tokens is expected in INT4: max(1 - int2_fraction, 0.05) in the code.
admission_size(a, num, den) ==
  LET mixed == (available_size_int4(a) * den) \div num
  IN  IF available_size(a) <= mixed THEN available_size(a) ELSE mixed

\* What backup_state saves, with the ownership that goes with it.
SavedState ==
  [free_pages2   : SUBSET Pages,
   free_slots4   : SUBSET Slots4,
   page_free_cnt : [Pages -> Nat],
   partial_slots : Int,
   held          : SUBSET Slots]

backup_state(a) ==
  [free_pages2   |-> a.free_pages2,
   free_slots4   |-> a.free_slots4,
   page_free_cnt |-> a.page_free_cnt,
   partial_slots |-> a.partial_slots,
   held          |-> a.held]

\* The free group is not part of the saved state.
restore_state(a, saved) ==
  [a EXCEPT !.free_pages2   = saved.free_pages2,
            !.free_slots4   = saved.free_slots4,
            !.page_free_cnt = saved.page_free_cnt,
            !.partial_slots = saved.partial_slots,
            !.held          = saved.held]

-----------------------------------------------------------------------------
(***************************************************************************)
(* alloc_mixed.  toks is the flattened batch: for each new token its       *)
(* request and its bitwidth, in batch order.                               *)
(***************************************************************************)
Tokens(Req) == [req : Req, bits : {2, 4}]

Int2Of(toks, r) == {i \in DOMAIN toks : toks[i].bits = 2 /\ toks[i].req = r}

Rank(toks, i) == Cardinality({j \in Int2Of(toks, toks[i].req) : j < i})

\* Mutant: the remainder is cut from the whole batch, not from each request.
Groupable_across(toks) ==
  LET int2 == {i \in DOMAIN toks : toks[i].bits = 2}
  IN  {i \in int2 :
         Cardinality({j \in int2 : j < i}) < (Cardinality(int2) \div PAGE) * PAGE}

\* The INT2 tokens that fill whole pages of their own request.
Groupable(toks) ==
  {i \in DOMAIN toks :
     /\ toks[i].bits = 2
     /\ Rank(toks, i) <
          (Cardinality(Int2Of(toks, toks[i].req)) \div PAGE) * PAGE}

\* k: the position of a groupable token among all of them.
GroupIndex(toks, i) == Cardinality({j \in Groupable(toks) : j < i})

\* The pages an allocation takes: no more than there are.
num_pages(a, toks) ==
  LET want  == Cardinality(Groupable(toks)) \div PAGE
      avail == Cardinality(a.free_pages2)
  IN  IF want > avail THEN avail ELSE want

\* keep2 after the excess groups were demoted to INT4.
keep2(a, toks) ==
  {i \in Groupable(toks) : GroupIndex(toks, i) \div PAGE < num_pages(a, toks)}

n4(a, toks) == Len(toks) - num_pages(a, toks) * PAGE

CanAllocMixed(a, toks) == n4(a, toks) <= available_size_int4(a)

\* Serve an allocation from the free pages P and the free INT4 slots F.
Take(a, P, F) ==
  [a EXCEPT !.free_pages2 = @ \ P,
            !.free_slots4 = @ \ F,
            !.held        = @ \cup SlotsOfPages(P) \cup F]

\* The slot of each token: pages and rows enumerate the pages and the INT4
\* slots that serve the allocation.
Placement(a, toks, pages, rows) ==
  LET kept == keep2(a, toks)
  IN  [i \in DOMAIN toks |->
         IF i \in kept
         THEN (pages[GroupIndex(toks, i) \div PAGE + 1] * PAGE)
                + (GroupIndex(toks, i) % PAGE)
         ELSE rows[Cardinality({j \in DOMAIN toks \ kept : j < i}) + 1]]

-----------------------------------------------------------------------------
(***************************************************************************)
(* free, and the free group that delays it.                                *)
(***************************************************************************)
\* Mutant: a page made whole still counts its slots as partly freed.
Release_keeps_partial(a, S) ==
  LET s4   == {s \in S : s >= offset}
      s2   == {s \in S : s < offset /\ s >= PAGE}
      cnt  == [p \in Pages |->
                 a.page_free_cnt[p] + Cardinality({s \in s2 : PageOf(s) = p})]
      cand == {p \in Pages : \E s \in s2 : PageOf(s) = p}
      full == {p \in cand : cnt[p] >= PAGE}
  IN  [a EXCEPT
         !.free_slots4   = @ \cup s4,
         !.page_free_cnt = [p \in Pages |-> IF p \in full THEN 0 ELSE cnt[p]],
         !.free_pages2   = @ \cup full,
         !.partial_slots = @ + Cardinality(s2)]

\* Mutant: a page goes back as soon as one of its slots is freed.
Release_early(a, S) ==
  LET s4   == {s \in S : s >= offset}
      s2   == {s \in S : s < offset /\ s >= PAGE}
      cnt  == [p \in Pages |->
                 a.page_free_cnt[p] + Cardinality({s \in s2 : PageOf(s) = p})]
      cand == {p \in Pages : \E s \in s2 : PageOf(s) = p}
      full == cand
  IN  [a EXCEPT
         !.free_slots4   = @ \cup s4,
         !.page_free_cnt = [p \in Pages |-> IF p \in full THEN 0 ELSE cnt[p]],
         !.free_pages2   = @ \cup full,
         !.partial_slots = @ + Cardinality(s2) - Cardinality(full) * PAGE]

\* Mutant: an off-by-one in the test for a whole page.
Release_off_by_one(a, S) ==
  LET s4   == {s \in S : s >= offset}
      s2   == {s \in S : s < offset /\ s >= PAGE}
      cnt  == [p \in Pages |->
                 a.page_free_cnt[p] + Cardinality({s \in s2 : PageOf(s) = p})]
      cand == {p \in Pages : \E s \in s2 : PageOf(s) = p}
      full == {p \in cand : cnt[p] > PAGE}
  IN  [a EXCEPT
         !.free_slots4   = @ \cup s4,
         !.page_free_cnt = [p \in Pages |-> IF p \in full THEN 0 ELSE cnt[p]],
         !.free_pages2   = @ \cup full,
         !.partial_slots = @ + Cardinality(s2) - Cardinality(full) * PAGE]

\* The effect of free() outside a group on the slots S.
Release(a, S) ==
  LET s4   == {s \in S : s >= offset}
      s2   == {s \in S : s < offset /\ s >= PAGE}
      cnt  == [p \in Pages |->
                 a.page_free_cnt[p] + Cardinality({s \in s2 : PageOf(s) = p})]
      cand == {p \in Pages : \E s \in s2 : PageOf(s) = p}
      full == {p \in cand : cnt[p] >= PAGE}
  IN  [a EXCEPT
         !.free_slots4   = @ \cup s4,
         !.page_free_cnt = [p \in Pages |-> IF p \in full THEN 0 ELSE cnt[p]],
         !.free_pages2   = @ \cup full,
         !.partial_slots = @ + Cardinality(s2) - Cardinality(full) * PAGE]

free(a, S) ==
  IF S = {} THEN a
  ELSE IF ~ a.is_not_in_free_group
       THEN [a EXCEPT !.free_group = Append(@, S), !.held = @ \ S]
       ELSE [Release(a, S) EXCEPT !.held = @ \ S]

\* Mutant: the list of the previous group is kept.
free_group_begin_stale(a) == [a EXCEPT !.is_not_in_free_group = FALSE]

free_group_begin(a) ==
  [a EXCEPT !.is_not_in_free_group = FALSE, !.free_group = <<>>]

Grouped(a) == UNION {a.free_group[i] : i \in DOMAIN a.free_group}

\* The list is left as it is: the next free_group_begin empties it.
free_group_end(a) ==
  LET open == [a EXCEPT !.is_not_in_free_group = TRUE]
  IN  IF a.free_group = <<>> THEN open ELSE Release(open, Grouped(a))

=============================================================================
