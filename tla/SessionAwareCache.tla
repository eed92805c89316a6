-------------------------- MODULE SessionAwareCache --------------------------
(***************************************************************************)
(* mem_cache/session_aware_cache.py around mem_cache/chunk_cache.py (the   *)
(* prefix cache with --disable-radix-cache), with ReqToTokenPool of        *)
(* mem_cache/memory_pool.py and release_kv_cache of mem_cache/common.py.   *)
(* Between the turns of a streaming session its KV stays allocated, held   *)
(* by a SessionSlot.                                                       *)
(*                                                                         *)
(* mem is [free_slots, table, free, kv, slots]: the free rows of           *)
(* req_to_token, its rows (sequences of locations), the free locations,    *)
(* the token whose KV a location holds, and the session slots.  A request  *)
(* is [ids, out, idx, committed, allocated, session, ...].                 *)
(***************************************************************************)
EXTENDS Integers, Sequences, SequencesExt, FiniteSets, FiniteSetsExt

CONSTANTS
    NumRows,   \* size of ReqToTokenPool
    NumKV      \* locations of the KV pool

None == "None"
NoRow == 0

NewMem ==
    [free_slots |-> [i \in 1..NumRows |-> i],
     table |-> [i \in 1..NumRows |-> <<>>],
     free |-> 1..NumKV,
     kv |-> [l \in 1..NumKV |-> <<>>],
     slots |-> <<>>]   \* a function from session ids to slots

fill_ids(req) == req.ids \o req.out

HasSlot(mem, s) == s \in DOMAIN mem.slots

\* SessionSlot.restore_to_req; the slot keeps what it holds, because a request
\* may be matched again before it runs.
restore_to_req(slot, req) ==
    [req EXCEPT !.idx = slot.idx, !.committed = slot.committed, !.allocated = slot.allocated]

\* match_prefix of init_next_round_input: the request, with the length of the
\* prefix it reuses.  The key is one shorter than fill_ids, and the slot's
\* prefix is at least one shorter than the key.
match_prefix(mem, req) ==
    IF req.session # None /\ HasSlot(mem, req.session)
    THEN LET r == restore_to_req(mem.slots[req.session], req)
         IN [r EXCEPT !.prefix = Min({r.committed, Max({Len(fill_ids(r)) - 2, 0})})]
    ELSE [req EXCEPT !.prefix = 0]

------------------------------------------------------------------------------
\* ReqToTokenPool.alloc: a request that has a row keeps it.
alloc_row(mem, req) == IF req.idx # NoRow THEN req.idx ELSE Head(mem.free_slots)
RowsAfter(mem, req) == IF req.idx # NoRow THEN mem.free_slots ELSE Tail(mem.free_slots)

\* The n locations the allocator gives next, in order.
NextFree(mem, n) ==
    [i \in 1..n |-> CHOOSE l \in mem.free : Cardinality({k \in mem.free : k < l}) = i - 1]

CanExtend(mem, req) ==
    /\ req.idx # NoRow \/ mem.free_slots # <<>>
    /\ Cardinality(mem.free) >= Len(fill_ids(req)) - req.prefix

\* alloc_for_extend and the forward pass: locations for everything after the
\* prefix, written to the row and filled.
ExtendMem(mem, req) ==
    LET n == Len(fill_ids(req))
        locs == NextFree(mem, n - req.prefix)
        row == SubSeq(mem.table[alloc_row(mem, req)], 1, req.prefix) \o locs
    IN [mem EXCEPT !.free_slots = RowsAfter(mem, req),
                   !.table[alloc_row(mem, req)] = row,
                   !.free = @ \ ToSet(locs),
                   !.kv = [l \in DOMAIN @ |->
                              IF l \in ToSet(locs)
                              THEN LET p == CHOOSE i \in DOMAIN row : row[i] = l
                                   IN SubSeq(fill_ids(req), 1, p)
                              ELSE @[l]]]

ExtendReq(mem, req) ==
    [req EXCEPT !.idx = alloc_row(mem, req),
                !.committed = Len(fill_ids(req)), !.allocated = Len(fill_ids(req))]

\* alloc_for_decode and the forward pass: one more location, for the token
\* sampled last.
DecodeMem(mem, req) ==
    LET l == Min(mem.free)
        row == SubSeq(mem.table[req.idx], 1, req.committed)
    IN [mem EXCEPT !.table[req.idx] = Append(row, l),
                   !.free = @ \ {l},
                   !.kv[l] = SubSeq(fill_ids(req), 1, req.committed + 1)]

DecodeReq(req) == [req EXCEPT !.committed = @ + 1, !.allocated = @ + 1]

------------------------------------------------------------------------------
Held(mem, idx, n) == {mem.table[idx][i] : i \in 1..Min({n, Len(mem.table[idx])})}

\* SessionSlot.save_from_req.
SavedSlot(req) == [idx |-> req.idx, committed |-> req.committed, allocated |-> req.allocated]

\* The KV handed to the slot is freed as well.
release_kv_cache_frees(mem, req) ==
    [mem EXCEPT !.slots = IF req.session = None THEN @
                          ELSE [s \in DOMAIN @ \cup {req.session} |->
                                   IF s = req.session THEN SavedSlot(req) ELSE @[s]],
                !.free = @ \cup Held(mem, req.idx, req.committed),
                !.free_slots = Append(@, req.idx)]

\* release_kv_cache: a request of a streaming session hands its KV to the
\* session's slot; another one's KV is freed by ChunkCache.cache_finished_req,
\* and its row by ReqToTokenPool.free.
release_kv_cache(mem, req) ==
    IF req.session # None
    THEN [mem EXCEPT !.slots = [s \in DOMAIN @ \cup {req.session} |->
                                   IF s = req.session THEN SavedSlot(req) ELSE @[s]]]
    ELSE [mem EXCEPT !.free = @ \cup Held(mem, req.idx, req.committed),
                     !.free_slots = Append(@, req.idx)]

\* The slot's row is forgotten.
release_session_row(mem, s) ==
    IF ~HasSlot(mem, s) THEN mem
    ELSE [mem EXCEPT !.slots = [q \in DOMAIN @ \ {s} |-> @[q]],
                     !.free = @ \cup Held(mem, mem.slots[s].idx, mem.slots[s].allocated)]

release_session(mem, s) ==
    IF ~HasSlot(mem, s) THEN mem
    ELSE [mem EXCEPT !.slots = [q \in DOMAIN @ \ {s} |-> @[q]],
                     !.free = @ \cup Held(mem, mem.slots[s].idx, mem.slots[s].allocated),
                     !.free_slots = Append(@, mem.slots[s].idx)]

===============================================================================
