--------------------------- MODULE AllocatorSpec ---------------------------
(***************************************************************************)
(* The allocator alone, under any caller that frees only what it owns and  *)
(* pairs free_group_begin with free_group_end, as process_batch_result_    *)
(* decode does (managers/scheduler_output_processor_mixin.py).             *)
(***************************************************************************)
EXTENDS TriaxialAllocator

CONSTANTS
  Reqs,       \* the requests of a batch
  MaxTokens,  \* bound on the tokens of one allocation
  MaxGroup    \* bound on the calls of free() in one free group

ASSUME InputAssumption == Reqs # {} /\ MaxTokens \in Nat /\ MaxGroup \in Nat

VARIABLES
  alloc,      \* the allocator
  backup      \* the state a backup_state() caller holds, or <<>>

vars == <<alloc, backup>>

Batches == UNION {[1 .. n -> Tokens(Reqs)] : n \in 0 .. MaxTokens}

Init == alloc = cleared /\ backup = <<>>

\* alloc / alloc_decode: n INT4 slots, or None and no change.
Alloc ==
  \E F \in SUBSET alloc.free_slots4 :
    /\ alloc' = Take(alloc, {}, F)
    /\ UNCHANGED backup

AllocMixed ==
  \E toks \in Batches :
    /\ CanAllocMixed(alloc, toks)
    /\ \E P \in SUBSET alloc.free_pages2, F \in SUBSET alloc.free_slots4 :
         /\ Cardinality(P) = num_pages(alloc, toks)
         /\ Cardinality(F) = n4(alloc, toks)
         /\ alloc' = Take(alloc, P, F)
    /\ UNCHANGED backup

\* Speculative callers undo allocations with backup/restore; they free nothing
\* in between.
Free ==
  \E S \in SUBSET alloc.held :
    /\ backup = <<>>
    /\ ~ alloc.is_not_in_free_group => Len(alloc.free_group) < MaxGroup
    /\ alloc' = free(alloc, S)
    /\ UNCHANGED backup

FreeGroupBegin ==
  /\ alloc.is_not_in_free_group
  /\ backup = <<>>
  /\ alloc' = free_group_begin(alloc)
  /\ UNCHANGED backup

FreeGroupEnd ==
  /\ ~ alloc.is_not_in_free_group
  /\ alloc' = free_group_end(alloc)
  /\ UNCHANGED backup

BackupState ==
  /\ backup = <<>>
  /\ alloc.is_not_in_free_group
  /\ backup' = <<backup_state(alloc)>>
  /\ UNCHANGED alloc

RestoreState ==
  /\ backup # <<>>
  /\ alloc' = restore_state(alloc, backup[1])
  /\ backup' = <<>>

\* flush_cache: the tree is reset in the same step, so nobody owns a slot.
Clear ==
  /\ alloc' = cleared
  /\ backup' = <<>>

Next ==
  \/ Alloc
  \/ AllocMixed
  \/ Free
  \/ FreeGroupBegin
  \/ FreeGroupEnd
  \/ BackupState
  \/ RestoreState
  \/ Clear

Spec == Init /\ [][Next]_vars

-----------------------------------------------------------------------------
(***************************************************************************)
(* Properties.                                                             *)
(***************************************************************************)
\* The free lists, counters and free group of the allocator, and the states
\* backup_state saved, have their types; no free list holds a dummy row.
TypeOK ==
  /\ alloc \in AllocatorState
  /\ backup \in Seq(SavedState)

\* Slots that are out of the free lists: with a caller, or freed by one into
\* the open free group and not recycled yet.
InUse(a) == a.held \cup (IF a.is_not_in_free_group THEN {} ELSE Grouped(a))

FreeSlots(a) == a.free_slots4 \cup SlotsOfPages(a.free_pages2)

\* available_size() is exact: whatever was allocated, freed in part, grouped or
\* rolled back, it is the capacity less the slots in use.  The idle leak check
\* (scheduler_runtime_checker_mixin._check_radix_cache_memory) raises when it
\* is not, so slots freed inside a page that is not yet whole must count.
ExactAccounting ==
  available_size(alloc) = size - Cardinality(InUse(alloc))

\* No slot that is in use can be handed out again: no INT4 slot in use is in
\* free_slots4 and no page with a slot in use is in free_pages2, however its
\* other slots were freed (free's page_free_cnt test).
NoDoubleGrant == FreeSlots(alloc) \cap InUse(alloc) = {}

\* Nothing is lost: an INT4 slot nobody uses is free, and a page none of whose
\* slots is in use is back in free_pages2, in whatever order and grouping its
\* slots came back.
NothingStranded ==
  /\ Slots4 \ InUse(alloc) \subseteq alloc.free_slots4
  /\ \A p \in Pages :
       PageSlots(p) \cap InUse(alloc) = {} => p \in alloc.free_pages2

\* Why the above hold: free lists, counts and partial_slots of a (saved)
\* allocator are what the set U of slots in use determines.
Consistent(a, U) ==
  /\ a.free_slots4 = Slots4 \ U
  /\ \A p \in a.free_pages2 :
       a.page_free_cnt[p] = 0 /\ PageSlots(p) \cap U = {}
  /\ \A p \in Pages \ a.free_pages2 :
       /\ a.page_free_cnt[p] = Cardinality(PageSlots(p) \ U)
       /\ a.page_free_cnt[p] < PAGE
  /\ a.partial_slots = Cardinality(SlotsOfPages(Pages \ a.free_pages2) \ U)

\* The inductive invariant.  It also says what backup_state relies on: no
\* free group is open, and slots were only granted, since the state was saved.
IInv ==
  /\ TypeOK
  /\ Consistent(alloc, InUse(alloc))
  /\ ~ alloc.is_not_in_free_group => Grouped(alloc) \cap alloc.held = {}
  /\ backup # <<>> =>
       /\ alloc.is_not_in_free_group
       /\ backup[1].held \subseteq alloc.held
       /\ Consistent(backup[1], backup[1].held)

\* The allocator implements the abstract slot pool: every method call grants
\* slots nobody has, returns slots in use, or changes nothing a caller sees.
Pool == INSTANCE SlotPool WITH
          Slot     <- Slots,
          Capacity <- size,
          owned    <- InUse(alloc),
          reported <- available_size(alloc)

ImplementsPool == Pool!PoolSpec

=============================================================================
