----------------------------- MODULE LoRAMemPool -----------------------------
(***************************************************************************)
(* The GPU slots of LoRA adapters: lora/mem_pool.py, lora/eviction_policy.py*)
(* and the batch checks of lora/lora_manager.py.                           *)
(*                                                                         *)
(* A pool is [slot, order]: slot[b] is the uid in buffer b, Base for the   *)
(* base model (None) or EmptySlot, and order is the eviction policy's      *)
(* ordered dictionary, oldest first.  uid_to_buffer_id is the inverse of   *)
(* slot.  refs is LoRAManager.lora_refs: the loaded adapters, [id, pinned].*)
(***************************************************************************)
EXTENDS Integers, Sequences, SequencesExt, FiniteSets

CONSTANTS
    MaxLoras,   \* max_loras_per_batch
    Policy      \* "lru" or "fifo"

Base == "None"
EmptySlot == "EMPTY_SLOT"

Buffers == 1..MaxLoras
EmptyPool == [slot |-> [b \in Buffers |-> EmptySlot], order |-> <<>>]

InPool(p) == Range(p.slot) \ {EmptySlot}
IsPinned(refs, uid) == \E ref \in refs : ref.id = uid /\ ref.pinned

\* Only what is tracked already is marked.
mark_used_again(order, uid) ==
    IF uid \in Range(order) THEN Append(Remove(order, uid), uid) ELSE order

\* The base model is not tracked; fifo keeps the place of the first use.
mark_used(order, uid) ==
    CASE uid = Base -> order
      [] uid # Base /\ Policy = "lru" -> Append(Remove(order, uid), uid)
      [] uid # Base /\ Policy = "fifo" ->
             IF uid \in Range(order) THEN order ELSE Append(order, uid)

\* Whatever is not pinned may go, needed or not.
Candidates_unpinned(p, cur, refs) == {uid \in Range(p.slot) : ~IsPinned(refs, uid)}

\* Pinned adapters go like the others.
Candidates_pinned(p, cur, refs) == {uid \in Range(p.slot) : uid \notin Range(cur)}

Candidates(p, cur, refs) ==
    {uid \in Range(p.slot) : uid \notin Range(cur) /\ ~IsPinned(refs, uid)}

\* Adapters go before the base model, the oldest one first.
select_victim(order, candidates) ==
    LET tracked == SelectSeq(order, LAMBDA uid : uid \in candidates)
    IN  IF candidates = {Base} THEN Base ELSE Head(tracked)

\* get_available_buffer_slot for uid, and the load into it; raised when no
\* slot can be had.
Place(acc, cur, refs, uid) ==
    LET free == {b \in Buffers : acc.p.slot[b] = EmptySlot}
        candidates == Candidates(acc.p, cur, refs)
        victim == select_victim(acc.p.order, candidates)
        Into(b) == [acc EXCEPT !.p.slot[b] = uid]
    IN  CASE uid \in InPool(acc.p) \/ acc.raised -> acc
          [] OTHER -> IF free # {} THEN Into(CHOOSE b \in free : \A c \in free : b <= c)
                      ELSE IF candidates = {} THEN [acc EXCEPT !.raised = TRUE]
                      ELSE [Into(CHOOSE b \in Buffers : acc.p.slot[b] = victim)
                               EXCEPT !.p.order = Remove(@, victim)]

\* cur is one order of the batch's uids; each order is possible.
prepare_lora_batch(p, cur, refs) ==
    LET marked == [p EXCEPT !.order = FoldLeft(mark_used, @, cur)]
    IN  FoldLeft(LAMBDA acc, uid : Place(acc, cur, refs, uid),
                 [p |-> marked, raised |-> FALSE], cur)

------------------------------------------------------------------------------
\* A batch is checked by its size alone.
validate_lora_batch_size(uids, refs) == Cardinality(uids) <= MaxLoras

\* Pinned adapters keep their slots whether the batch uses them or not.
validate_lora_batch(uids, refs) ==
    LET pinned == {ref.id : ref \in {r \in refs : r.pinned}}
    IN  /\ Cardinality(uids) <= MaxLoras
        /\ Cardinality(uids \ pinned) <= MaxLoras - Cardinality(pinned)

==============================================================================
