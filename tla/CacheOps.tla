------------------------------ MODULE CacheOps ------------------------------
(***************************************************************************)
(* The KV cache as the scheduler sees it: allocator, prefix tree and       *)
(* req_to_token rows together, with the calls of mem_cache/common.py and   *)
(* the cache_*_req methods of mem_cache/radix_cache.py.                    *)
(*                                                                         *)
(* The cache is one record m.  A call that may evict is an operator whose  *)
(* value is the set of caches it may leave behind (see RadixCache on       *)
(* eviction strategies); the other calls map m to the next cache.          *)
(*                                                                         *)
(* Full[r] is the prompt of request r followed by the tokens the model     *)
(* will sample for it, so that origin_input_ids + output_ids, fill_ids and *)
(* the keys derived from them are prefixes of Full[r] and only their       *)
(* lengths are state.                                                      *)
(*                                                                         *)
(* Free slots of a region are interchangeable: allocations take the least  *)
(* ones.                                                                   *)
(***************************************************************************)
EXTENDS TriaxialAllocator, RadixCache

CONSTANTS
  Reqs,       \* the requests
  Full,       \* [Reqs -> token sequences]: prompt and continuation
  PromptLen,  \* [Reqs -> Nat]: len(origin_input_ids)
  Bits,       \* [Reqs -> sequences over {2, 4}]: triaxial_bits of the prompt
  NumRows     \* size of req_to_token_pool

ASSUME RequestAssumption ==
  \A r \in Reqs : /\ PromptLen[r] \in 1 .. Len(Full[r])
                  /\ Len(Bits[r]) = PromptLen[r]

Key(r, n) == SubSeq(Full[r], 1, n)

\* A request that holds nothing.  kv_allocated_len moves with
\* kv_committed_len when there is no speculative decoding.
NewReq ==
  [output_len          |-> 0,
   fill_len            |-> 0,
   prefix_indices      |-> <<>>,
   last_node           |-> Root,
   cache_protected_len |-> 0,
   req_pool_idx        |-> 0,
   req_to_token        |-> <<>>,
   kv_committed_len    |-> 0,
   kv_committed_freed  |-> FALSE]

\* kv is what the slots hold: the token prefix whose last token's keys and
\* values were written there.  No call reads it.
InitCache ==
  [alloc      |-> cleared,
   tree       |-> reset,
   free_slots |-> 1 .. NumRows,
   req        |-> [r \in Reqs |-> NewReq],
   kv         |-> [s \in Slots |-> <<>>],
   error      |-> "none"]

Range1(s, i, j) == ToSet(SubSeq(s, i, j))

\* The n least elements of S, in order.
Least(S, n) ==
  [i \in 1 .. n |-> CHOOSE x \in S : Cardinality({y \in S : y < x}) = i - 1]

-----------------------------------------------------------------------------
(***************************************************************************)
(* Eviction.                                                               *)
(***************************************************************************)
evict(m, num_tokens) ==
  {[m EXCEPT !.alloc = free(@, ValuesOf(m.tree, E)),
             !.tree  = _delete_leaf(@, E)] : E \in evictions(m.tree, num_tokens)}

evict_from_tree_cache(m, num_tokens) ==
  IF \/ available_size(m.alloc) < num_tokens
     \/ available_size_int4(m.alloc) < num_tokens
  THEN evict(m, num_tokens)
  ELSE {m}

-----------------------------------------------------------------------------
(***************************************************************************)
(* Prefill.                                                                *)
(***************************************************************************)
\* Req.init_next_round_input with the tree: at most one token less than the
\* input is matched.
init_next_round_input(m, r) ==
  LET n   == PromptLen[r] + m.req[r].output_len
      key == Key(r, n - 1)
      idx == Indices(m.tree, key)
  IN  [m EXCEPT !.tree = match_prefix(@, key),
                !.req[r].fill_len            = n,
                !.req[r].prefix_indices      = idx,
                !.req[r].last_node           = MatchNode(m.tree, key),
                !.req[r].cache_protected_len = Len(idx)]

\* ReqToTokenPool.alloc: a request that has a row keeps it.
alloc_req_slots(m, batch) ==
  LET new  == SelectSeq(batch, LAMBDA r : m.req[r].req_pool_idx = 0)
      rows == Least(m.free_slots, Len(new))
      idx  == [r \in Reqs |-> IF \E i \in DOMAIN new : new[i] = r
                              THEN rows[CHOOSE i \in DOMAIN new : new[i] = r]
                              ELSE m.req[r].req_pool_idx]
  IN  IF Len(new) > Cardinality(m.free_slots)
      THEN [m EXCEPT !.error = "req pool"]
      ELSE [m EXCEPT !.free_slots = @ \ ToSet(rows),
                     !.req = [r \in Reqs |-> [@[r] EXCEPT !.req_pool_idx = idx[r]]]]

PrefixLen(m, r) == Len(m.req[r].prefix_indices)

ExtendLen(m, r) == m.req[r].fill_len - PrefixLen(m, r)

\* The new tokens of the batch, in order: bits past the prompt are INT4.
ExtendTokens(m, batch) ==
  FlattenSeq([b \in DOMAIN batch |->
    LET r == batch[b]
    IN  [i \in 1 .. ExtendLen(m, r) |->
           [req  |-> r,
            pos  |-> PrefixLen(m, r) + i,
            bits |-> IF PrefixLen(m, r) + i <= PromptLen[r]
                     THEN Bits[r][PrefixLen(m, r) + i] ELSE 4]]])

\* The forward pass over the tokens toks writes their slots.
Written(kv, toks, slots) ==
  [s \in DOMAIN kv |->
     IF \E i \in DOMAIN toks : slots[i] = s
     THEN LET i == CHOOSE j \in DOMAIN toks : slots[j] = s
          IN  Key(toks[i].req, toks[i].pos)
     ELSE kv[s]]

\* A successful alloc_mixed, the rows written, and the forward pass.
ExtendInto(m, batch) ==
  LET toks  == ExtendTokens(m, batch)
      pages == Least(m.alloc.free_pages2, num_pages(m.alloc, toks))
      rows  == Least(m.alloc.free_slots4, n4(m.alloc, toks))
      slots == Placement(m.alloc, toks, pages, rows)
      own(r) == SelectSeq([i \in DOMAIN toks |-> i], LAMBDA i : toks[i].req = r)
  IN  [m EXCEPT
         !.alloc = Take(@, ToSet(pages), ToSet(rows)),
         !.kv    = Written(@, toks, slots),
         !.req   = [r \in Reqs |->
           IF r \in ToSet(batch)
           THEN [@[r] EXCEPT
                   !.req_to_token = m.req[r].prefix_indices
                     \o [i \in 1 .. ExtendLen(m, r) |-> slots[own(r)[i]]],
                   !.kv_committed_len = m.req[r].fill_len]
           ELSE @[r]]]

\* alloc_token_slots_triaxial: evict, allocate, on failure evict and retry
\* once, then raise.
alloc_token_slots_triaxial(m, batch) ==
  LET toks      == ExtendTokens(m, batch)
      attempt(c) == IF CanAllocMixed(c.alloc, toks) THEN {ExtendInto(c, batch)} ELSE {}
      retry(c)  == UNION {IF CanAllocMixed(d.alloc, toks) THEN {ExtendInto(d, batch)}
                          ELSE {[d EXCEPT !.error = "prefill oom"]} :
                            d \in evict(c, Len(toks))}
  IN  UNION {IF attempt(c) # {} THEN attempt(c) ELSE retry(c) :
               c \in evict_from_tree_cache(m, Len(toks))}

alloc_for_extend(m, batch) ==
  LET c == alloc_req_slots(m, batch)
  IN  IF c.error # "none" THEN {c} ELSE alloc_token_slots_triaxial(c, batch)

-----------------------------------------------------------------------------
(***************************************************************************)
(* Decode.                                                                 *)
(***************************************************************************)
\* alloc_for_decode and the forward pass: one INT4 slot for each request.
DecodeInto(m, batch) ==
  LET rows == Least(m.alloc.free_slots4, Len(batch))
      toks == [b \in DOMAIN batch |->
                 [req |-> batch[b], pos |-> m.req[batch[b]].kv_committed_len + 1]]
  IN  [m EXCEPT
         !.alloc = Take(@, {}, ToSet(rows)),
         !.kv    = Written(@, toks, rows),
         !.req   = [r \in Reqs |->
           IF r \in ToSet(batch)
           THEN [@[r] EXCEPT
                   !.req_to_token =
                     Append(@, rows[CHOOSE b \in DOMAIN batch : batch[b] = r]),
                   !.kv_committed_len = @ + 1]
           ELSE @[r]]]

alloc_for_decode(m, batch) ==
  {IF Len(batch) <= available_size_int4(c.alloc) THEN DecodeInto(c, batch)
   ELSE [c EXCEPT !.error = "decode oom"] :
     c \in evict_from_tree_cache(m, Len(batch))}

-----------------------------------------------------------------------------
(***************************************************************************)
(* Handing a request's slots to the tree, or back.                         *)
(***************************************************************************)
\* Mutant: the slots the tree already owns are freed with the others.
PastCached_all(q, n) == Range1(q.req_to_token, 1, n)

\* Mutant: nothing is freed.
PastCached_none(q, n) == {}

\* kv_indices[req.cache_protected_len : n].
PastCached(q, n) == Range1(q.req_to_token, q.cache_protected_len + 1, n)

\* The row of q with the tree's slots idx written over its head.
CachedRow(q, idx) ==
  SubSeq(q.req_to_token, 1, q.cache_protected_len)
    \o SubSeq(idx, q.cache_protected_len + 1, Len(idx))
    \o SubSeq(q.req_to_token, Len(idx) + 1, Len(q.req_to_token))

\* The request goes on: its prefix is in the tree from now on, duplicates of
\* what the tree had are freed, and its row takes the tree's slots.
cache_unfinished_req(m, r) ==
  LET q   == m.req[r]
      key == Key(r, q.fill_len)
      adopt(t, idx, node) ==
        [m EXCEPT
           !.alloc = free(@, PastCached(q, MatchLen(m.tree, key))),
           !.tree  = inc_lock_ref(dec_lock_ref(t, q.last_node), node),
           !.req[r].req_to_token        = CachedRow(q, idx),
           !.req[r].cache_protected_len = Len(idx),
           !.req[r].prefix_indices      = idx,
           !.req[r].last_node           = node]
      rematch(t) == adopt(t, Indices(t, key), MatchNode(t, key))
  IN  rematch(insert(m.tree, key, SubSeq(q.req_to_token, 1, q.fill_len)))

\* cache_finished_req: insert and free the duplicates, or free what the tree
\* does not have; unlock.
cache_finished_req(m, r, is_insert) ==
  LET q   == m.req[r]
      n   == Min({q.kv_committed_len, PromptLen[r] + q.output_len})
      key == Key(r, n)
      t   == IF is_insert THEN insert(m.tree, key, SubSeq(q.req_to_token, 1, n))
                          ELSE m.tree
      to  == IF is_insert THEN MatchLen(m.tree, key) ELSE n
  IN  [m EXCEPT
         !.alloc = free(@, PastCached(q, to)),
         !.tree  = dec_lock_ref(t, q.last_node),
         !.req[r].kv_committed_freed = TRUE]

release_kv_cache(m, r, is_insert) ==
  IF m.req[r].kv_committed_freed THEN [m EXCEPT !.error = "released twice"]
  ELSE LET c == cache_finished_req(m, r, is_insert)
       IN  [c EXCEPT !.free_slots = @ \cup {m.req[r].req_pool_idx},
                     !.req[r].req_pool_idx = 0]

\* Req.reset_for_retract: output_ids stay.
reset_for_retract(m, r) ==
  [m EXCEPT !.req[r] = [NewReq EXCEPT !.output_len = m.req[r].output_len,
                                      !.fill_len   = m.req[r].fill_len,
                                      !.cache_protected_len = m.req[r].cache_protected_len]]

\* ScheduleBatch.release_req: slots back without insertion, then evict for
\* the requests that stay.
release_req(m, r, num_tokens) ==
  {reset_for_retract(c, r) :
     c \in evict_from_tree_cache(release_kv_cache(m, r, FALSE), num_tokens)}

\* What the next step can still read of m.  The next match sets the fields of
\* a queued request, nothing reads those of a finished one, and what a free
\* slot holds is lost.
Settled(m) ==
  [m EXCEPT
     !.kv  = [s \in Slots |-> IF s \in m.alloc.held THEN @[s] ELSE <<>>],
     !.req = [r \in Reqs |->
                IF @[r].req_pool_idx # 0 THEN @[r]
                ELSE [NewReq EXCEPT
                        !.output_len         = m.req[r].output_len,
                        !.kv_committed_freed = m.req[r].kv_committed_freed]]]

=============================================================================
