------------------------------ MODULE CacheSpec ------------------------------
(***************************************************************************)
(* The KV cache under any scheduling policy: requests are matched,         *)
(* prefilled whole or in chunks, alone or two to a batch, decoded,         *)
(* finished, retracted and submitted again in every order the scheduler's  *)
(* protocol allows, with up to two forward passes of a request launched    *)
(* and not yet processed, as the overlapped event loop has.                *)
(*                                                                         *)
(* The admission budget and the choice of victims are in module Scheduler. *)
(* A raise in an allocation ends the process, so only allocations that     *)
(* succeed are steps here.                                                 *)
(***************************************************************************)
EXTENDS CacheOps

VARIABLES
  m,         \* the cache
  phase,     \* what each request is doing
  inflight   \* forward passes launched for it whose result is not processed

vars == <<m, phase, inflight>>

\* new: not submitted.  waiting: queued after a retraction.  chunk: part of
\* its prompt was launched.  stashed: that part is in the tree.  prefill: the
\* whole prompt was launched.  decode: its first token was processed.
Phases == {"new", "waiting", "chunk", "stashed", "prefill", "decode", "done"}

Init ==
  /\ m = InitCache
  /\ phase = [r \in Reqs |-> "new"]
  /\ inflight = [r \in Reqs |-> 0]

Queued(r) == phase[r] \in {"new", "waiting"} /\ inflight[r] = 0

Running == {"chunk", "stashed", "prefill", "decode"}

\* The step to cache c with phases ph.
Becomes(c, ph) == phase' = ph /\ m' = Settled(c)

MaxNew(r) == Len(Full[r]) - PromptLen[r]

\* The budget refuses a request after its prefix was matched.
MatchOnly(r) ==
  /\ Queued(r)
  /\ Becomes(init_next_round_input(m, r), phase)
  /\ UNCHANGED inflight

\* PrefillAdder for one request: match and lock, or go on with the next chunk.
Admitted(c, r) ==
  IF phase[r] = "stashed"
  THEN [c EXCEPT !.req[r].fill_len = PromptLen[r] + c.req[r].output_len]
  ELSE LET d == init_next_round_input(c, r)
       IN  [d EXCEPT !.tree = inc_lock_ref(@, d.req[r].last_node)]

\* One pass more, or less, for the requests of R.
Launch(R) == inflight' = [r \in Reqs |-> inflight[r] + IF r \in R THEN 1 ELSE 0]

Processed(R) == inflight' = [r \in Reqs |-> inflight[r] - IF r \in R THEN 1 ELSE 0]

\* get_new_batch_prefill and prepare_for_extend: a batch that starts with the
\* chunked request, if there is one, and whose last request may be cut after
\* cut of its tokens.
Prefill(batch, cut) ==
  LET R    == ToSet(batch)
      last == batch[Len(batch)]
      c    == FoldLeft(Admitted, m, batch)
      n    == ExtendLen(c, last)
      d    == IF cut < n
              THEN [c EXCEPT !.req[last].fill_len = PrefixLen(c, last) + cut] ELSE c
  IN  /\ \A r \in R : \/ Queued(r)
                      \/ phase[r] = "stashed" /\ inflight[r] <= 1 /\ r = batch[1]
      /\ cut <= n
      /\ \A r \in Reqs \ R : phase[r] \notin {"chunk", "stashed"}
      /\ \E e \in alloc_for_extend(d, batch) :
           /\ e.error = "none"
           /\ Becomes(e, [r \in Reqs |-> IF r \notin R THEN phase[r]
                                          ELSE IF r = last /\ cut < n THEN "chunk"
                                          ELSE "prefill"])
      /\ Launch(R)

\* Scheduler.stash_chunked_request.
Stash(r) ==
  /\ phase[r] = "chunk"
  /\ inflight[r] <= 1
  /\ Becomes(cache_unfinished_req(m, r), [phase EXCEPT ![r] = "stashed"])
  /\ UNCHANGED inflight

\* The whole prompt was launched, the result of the chunk before is still out.
ChunkPending(r) ==
  /\ phase[r] = "prefill"
  /\ inflight[r] = 2
  /\ m.req[r].kv_committed_len = m.req[r].fill_len

\* The result of a chunk that is not the last: nothing to do for the cache.
ProcessChunk(r) ==
  /\ (phase[r] \in {"chunk", "stashed"} /\ inflight[r] >= 1) \/ ChunkPending(r)
  /\ Processed({r})
  /\ UNCHANGED <<m, phase>>

\* A sampled token of r is processed: if it is r's last one, r is released.
Sampled(c, r, stop) ==
  LET d == [c EXCEPT !.req[r].output_len = @ + 1]
  IN  IF stop THEN release_kv_cache(d, r, TRUE)
      ELSE IF phase[r] = "prefill" THEN cache_unfinished_req(d, r)
      ELSE d

MustStop(r) == m.req[r].output_len + 1 = MaxNew(r)

\* process_batch_result_prefill for r.
ProcessPrefill(r, stop) ==
  /\ phase[r] = "prefill"
  /\ inflight[r] >= 1
  /\ ~ChunkPending(r)
  /\ MustStop(r) => stop
  /\ Becomes(Sampled(m, r, stop),
             [phase EXCEPT ![r] = IF stop THEN "done" ELSE "decode"])
  /\ Processed({r})

\* update_running_batch and prepare_for_decode.
Decode(batch) ==
  /\ \A r \in ToSet(batch) : \/ phase[r] = "prefill" /\ inflight[r] = 1
                             \/ phase[r] = "decode" /\ inflight[r] <= 1
  /\ \E c \in alloc_for_decode(m, batch) : c.error = "none" /\ Becomes(c, phase)
  /\ Launch(ToSet(batch))

\* process_batch_result_decode: the requests of Stop finish, their slots are
\* freed as one group.
ProcessDecode(batch, Stop) ==
  /\ \A r \in ToSet(batch) : phase[r] = "decode" /\ inflight[r] >= 1
  /\ \A r \in ToSet(batch) : MustStop(r) => r \in Stop
  /\ LET c == [m EXCEPT !.alloc = free_group_begin(@)]
         d == FoldLeft(LAMBDA x, r : Sampled(x, r, r \in Stop), c, batch)
     IN  Becomes([d EXCEPT !.alloc = free_group_end(@)],
                 [r \in Reqs |-> IF r \in Stop THEN "done" ELSE phase[r]])
  /\ Processed(ToSet(batch))

\* A result of a finished or retracted request is skipped.
SkipResult(r) ==
  /\ phase[r] \in {"done", "waiting"}
  /\ inflight[r] >= 1
  /\ Processed({r})
  /\ UNCHANGED <<m, phase>>

\* retract_decode and retract_all.
Retract(r, num_tokens) ==
  /\ phase[r] \in Running
  /\ inflight[r] <= 1
  /\ \E c \in release_req(m, r, num_tokens) :
       Becomes(c, [phase EXCEPT ![r] = "waiting"])
  /\ UNCHANGED inflight

\* A client sends the same prompt again.
Resubmit(r) ==
  /\ phase[r] = "done"
  /\ inflight[r] = 0
  /\ Becomes([m EXCEPT !.req[r] = NewReq], [phase EXCEPT ![r] = "new"])
  /\ UNCHANGED inflight

\* Scheduler.flush_cache on an idle server.
Flush ==
  /\ \A r \in Reqs : phase[r] \in {"new", "done"} /\ inflight[r] = 0
  /\ Becomes([InitCache EXCEPT !.req = m.req], phase)
  /\ UNCHANGED inflight

Batches == {<<r>> : r \in Reqs} \cup {<<p[1], p[2]>> : p \in {q \in Reqs \X Reqs : q[1] # q[2]}}

Cuts == 1 .. Max({Len(Full[r]) : r \in Reqs})

Next ==
  \/ \E r \in Reqs : MatchOnly(r)
  \/ \E b \in Batches, cut \in Cuts : Prefill(b, cut)
  \/ \E r \in Reqs : Stash(r)
  \/ \E r \in Reqs : ProcessChunk(r)
  \/ \E r \in Reqs, stop \in BOOLEAN : ProcessPrefill(r, stop)
  \/ \E R \in (SUBSET Reqs) \ {{}} : Decode(SetToSeq(R))
  \/ \E b \in Batches : \E Stop \in SUBSET ToSet(b) : ProcessDecode(b, Stop)
  \/ \E r \in Reqs : SkipResult(r)
  \/ \E r \in Reqs, n \in {0, 2} : Retract(r, n)
  \/ \E r \in Reqs : Resubmit(r)
  \/ Flush

Spec == Init /\ [][Next]_vars

-----------------------------------------------------------------------------
(***************************************************************************)
(* Properties.                                                             *)
(***************************************************************************)
Active == {r \in Reqs : phase[r] \in Running}

\* The slots of r that are not the tree's: _get_batch_uncached_size counts
\* them.
Uncached(r) ==
  Range1(m.req[r].req_to_token, m.req[r].cache_protected_len + 1,
         m.req[r].kv_committed_len)

Lengths(S) ==
  MapThenSumSet(LAMBDA r : m.req[r].kv_committed_len - m.req[r].cache_protected_len, S)

\* The state has its type: phases and pass counts are in range, tree nodes
\* and rows name slots.
TypeOK ==
  /\ m.alloc \in AllocatorState
  /\ phase \in [Reqs -> Phases]
  /\ inflight \in [Reqs -> 0 .. 2]
  /\ m.tree.evictable_leaves \subseteq Nodes(m.tree)
  /\ \A p \in Nodes(m.tree) : m.tree.nodes[p].value \in Seq(Slots)
  /\ \A r \in Reqs : m.req[r].req_to_token \in Seq(Slots)
  /\ m.error = "none"

\* Every slot the allocator has handed out has exactly one owner: one node of
\* the tree or one running request past its cached prefix.  Inserts free the
\* duplicates and only them (cache_finished_req, cache_unfinished_req).
SlotOwnership ==
  /\ m.alloc.held = ValuesOf(m.tree, Nodes(m.tree)) \cup UNION {Uncached(r) : r \in Active}
  /\ Cardinality(m.alloc.held) = TokensIn(m.tree, Nodes(m.tree)) + Lengths(Active)

\* The scheduler's own memory check passes between any two steps, busy or
\* idle: available + evictable + protected + uncached = size
\* (self_check_during_busy, _check_radix_cache_memory), and so does the check
\* of the request rows.
LeakCheck ==
  /\ available_size(m.alloc) + m.tree.evictable_size + m.tree.protected_size
       + Lengths(Active) = size
  /\ Cardinality(m.free_slots) + Cardinality(Active) = NumRows

\* A running request attends to its own tokens: entry i of its req_to_token
\* row names a slot holding its i-th token under its own history, whoever
\* wrote the slot, and the cached part is what the tree would return now.
RowsReadBack ==
  \A r \in Active :
    LET q == m.req[r]
    IN  /\ \A i \in 1 .. q.kv_committed_len : m.kv[q.req_to_token[i]] = Key(r, i)
        /\ SubSeq(q.req_to_token, 1, q.cache_protected_len)
             = Indices(m.tree, Key(r, q.cache_protected_len))

\* What the tree would hand to a later request is what it says: the slot of
\* the i-th token of a node's key holds that token under that history.
TreeReadBack ==
  \A p \in Nodes(m.tree) :
    LET idx == Indices(m.tree, p)
    IN  /\ Len(idx) = Len(p)
        /\ \A i \in 1 .. Len(p) : m.kv[idx[i]] = SubSeq(p, 1, i)

\* Both: nothing that can be attended to, now or later, is someone else's.
ReadBack == RowsReadBack /\ TreeReadBack

\* A node is locked once for each running request whose cached prefix runs
\* through it: no lock is leaked, so memory can be reclaimed, and none is
\* missing, so nothing in use is evicted.
LocksExact ==
  \A p \in Nodes(m.tree) :
    m.tree.nodes[p].lock_ref
      = Cardinality({r \in Active : IsPrefix(p, m.req[r].last_node)})

\* The two counters the admission budget reads are the tokens of the unlocked
\* and of the locked nodes, through splits, inserts, locks and evictions.
SizesExact ==
  LET locked == {p \in Nodes(m.tree) : m.tree.nodes[p].lock_ref > 0}
  IN  /\ m.tree.protected_size = TokensIn(m.tree, locked)
      /\ m.tree.evictable_size = TokensIn(m.tree, Nodes(m.tree) \ locked)

\* evict(n) keeps the promise the budget relies on: for any n up to
\* evictable_size, whichever leaf the strategy pops next, it frees at least n
\* tokens and removes no locked node.
EvictSuffices ==
  \A n \in 1 .. m.tree.evictable_size :
    \A E \in evictions(m.tree, n) :
      /\ TokensIn(m.tree, E) >= n
      /\ \A p \in E : m.tree.nodes[p].lock_ref = 0

=============================================================================
