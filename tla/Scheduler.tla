------------------------------ MODULE Scheduler ------------------------------
(***************************************************************************)
(* The scheduler process: the event loop of managers/scheduler.py, normal  *)
(* or overlapped, with the admission budget of schedule_policy.py, chunked *)
(* prefill, decode with retraction, and result processing, over the cache  *)
(* of module CacheOps.                                                     *)
(*                                                                         *)
(* Its state is one record s; a stage of get_next_batch_to_run maps it to  *)
(* the set of states it may leave, because evictions may pick any leaf.    *)
(* One pass of the loop is two steps, Schedule (choose, prepare and launch *)
(* a batch) and Process (apply a result), between which nothing else runs; *)
(* messages are handled between passes.                                    *)
(*                                                                         *)
(* The queue is served in order (policy fcfs); priorities, LoRA, sessions, *)
(* disaggregation, grammar and speculation are off, as TriAxialKV requires *)
(* or by default.  CLIP_MAX_NEW_TOKENS exceeds every max_new_tokens here.  *)
(***************************************************************************)
EXTENDS CacheOps

CONSTANTS
  Loops,             \* the values of enable_overlap that are looked at
  MaxRunning,        \* max_running_requests
  InputReserve,      \* what max_req_input_len leaves of max_req_len (5)
  ChunkSize,         \* chunked_prefill_size
  MaxPrefillTokens,  \* max_prefill_tokens
  RetractSteps,      \* SGLANG_RETRACT_DECODE_STEPS
  ShareNum,          \* 1 - int2_fraction as ShareNum / ShareDen
  ShareDen,
  MayStop,           \* requests that may stop before max_new_tokens
  MayAbort,          \* requests a client may abort
  MayPause           \* whether generation may be paused

ASSUME SchedulerAssumption ==
  /\ Loops \subseteq BOOLEAN /\ MayPause \in BOOLEAN
  /\ ChunkSize > 0 /\ MaxRunning > 0 /\ NumRows >= MaxRunning
  /\ 0 < ShareNum /\ ShareNum <= ShareDen
  \* TriaxialKVPool splits size by int2_fraction, in whole pages.
  /\ NumPages = ((size * (ShareDen - ShareNum)) \div ShareDen) \div PAGE
  \* validate_input_length and init_req_max_new_tokens, max_req_len = size - 1.
  /\ \A r \in Reqs : /\ PromptLen[r] < size - 1 - InputReserve
                     /\ Len(Full[r]) <= size - 2

None == "none"

NoBatch == [mode |-> None, reqs |-> <<>>]

VARIABLES s, pc

vars == <<s, pc>>

\* oom_evictable is a history field: what was still evictable when the last
\* running request was given up as not fitting.
Init ==
  /\ \E overlap \in Loops :
     s = [enable_overlap |-> overlap,
          m             |-> InitCache,
          arrived       |-> {},
          waiting_queue |-> <<>>,
          running_batch |-> <<>>,
          batch_is_full |-> FALSE,
          chunked_req   |-> None,
          cur_batch     |-> NoBatch,
          last_batch    |-> NoBatch,
          result_queue  |-> <<>>,
          is_chunked    |-> [r \in Reqs |-> 0],
          is_retracted  |-> {},
          to_finish     |-> {},
          finished      |-> {},
          aborted       |-> {},
          paused        |-> FALSE,
          oom_evictable |-> 0]
  /\ pc = "recv"

max_new_tokens(r) == Len(Full[r]) - PromptLen[r]

\* The requests of a batch that is kept as last_batch: a decode batch is
\* running_batch itself.
BatchReqs(x, batch) == IF batch.mode = "decode" THEN x.running_batch ELSE batch.reqs

-----------------------------------------------------------------------------
(***************************************************************************)
(* The last prefill batch joins the running batch.                         *)
(***************************************************************************)
filter_batch(x, reqs, exclude) ==
  SelectSeq(reqs, LAMBDA r : r \notin x.finished \cup exclude)

stash_chunked_request(x) ==
  IF x.chunked_req = None THEN x
  ELSE [x EXCEPT !.m = cache_unfinished_req(@, x.chunked_req)]

\* Mutant: the chunked request joins the running batch with the others.
KeptOfLast_chunk(x) == filter_batch(x, x.last_batch.reqs, {})

\* What stays of the last prefill batch.
KeptOfLast(x) == filter_batch(x, x.last_batch.reqs, {x.chunked_req})

\* A batch that takes the place of an empty running batch brings its own
\* batch_is_full, which is False.
merge_last_batch(x) ==
  LET kept == KeptOfLast(x)
  IN  IF x.last_batch.mode # "extend" THEN x
      ELSE [x EXCEPT
              !.last_batch.reqs = kept,
              !.running_batch   = @ \o kept,
              !.batch_is_full   = /\ @
                                  /\ Len(kept) = Len(x.last_batch.reqs)
                                  /\ kept = <<>> \/ x.running_batch # <<>>]

-----------------------------------------------------------------------------
(***************************************************************************)
(* PrefillAdder.                                                           *)
(***************************************************************************)
\* What is left of the budget.
rem_tokens(a, reserved) ==
  admission_size(a.m.alloc, ShareNum, ShareDen) + a.m.tree.evictable_size - reserved

_update_prefill_budget(a, extend_input_len, new_tokens) ==
  [a EXCEPT !.rem_total_token_offset = @ + extend_input_len + new_tokens + 1,
            !.cur_rem_token_offset   = @ + extend_input_len + 1,
            !.rem_input_tokens       = @ - extend_input_len,
            !.rem_chunk_tokens       = @ - extend_input_len]

budget_state(a) ==
  IF \/ rem_tokens(a, a.rem_total_token_offset) <= 0
     \/ rem_tokens(a, a.cur_rem_token_offset) <= 0
  THEN "NO_TOKEN"
  ELSE IF a.rem_input_tokens <= 0 \/ a.rem_chunk_tokens <= 0 THEN "OTHER"
  ELSE "CONTINUE"

\* Put r on can_run_list, cut to n of its tokens.  The scheduler asserts that
\* only one request is chunked.
Run(a, r, n) ==
  LET cut == n < ExtendLen(a.m, r)
  IN  _update_prefill_budget(
        [a EXCEPT !.m.req[r].fill_len = PrefixLen(a.m, r) + n,
                  !.m.error           = IF cut /\ a.chunked_req # None
                                        THEN "two chunked requests" ELSE @,
                  !.can_run_list      = Append(@, r),
                  !.chunked_req       = IF cut THEN r ELSE @],
        n, IF cut THEN 0 ELSE max_new_tokens(r))

\* The chunked request always runs, whatever the budget says.
add_chunked_req(a) ==
  LET r   == a.chunked_req
      b   == [a EXCEPT !.m.req[r].fill_len = PromptLen[r] + a.m.req[r].output_len,
                       !.chunked_req = None]
      rem == Min({b.rem_chunk_tokens, rem_tokens(b, b.rem_total_token_offset)})
      n   == IF rem <= 0 THEN b.rem_chunk_tokens ELSE rem
  IN  IF r = None THEN a ELSE Run(b, r, Min({n, ExtendLen(b.m, r)}))

\* The result of an attempt to add a request.
Result(a, res) ==
  [a EXCEPT !.batch_is_full = @ \/ res = "NO_TOKEN", !.stop = res # "CONTINUE"]

\* Mutant: the lock of a request that is refused is kept.
Unlocked_never(a, r) == a

\* _lock_node gives its lock back.
Unlocked(a, r) == [a EXCEPT !.m.tree = dec_lock_ref(@, a.m.req[r].last_node)]

\* Mutant: the budget is not checked again.
FitsLocked_unchecked(b, total) == TRUE

\* The check under the lock.
FitsLocked(b, total) == total < rem_tokens(b, b.rem_total_token_offset)

\* add_one_req after the match: the budget is checked before and after the
\* lock takes the matched prefix out of the evictable tokens.
add_one_req(a, r) ==
  LET extend == ExtendLen(a.m, r)
      total  == extend + Max({max_new_tokens(r) - a.m.req[r].output_len, 0})
      b      == [a EXCEPT !.m.tree = inc_lock_ref(@, a.m.req[r].last_node)]
      c      == Run(b, r, Min({extend, a.rem_chunk_tokens}))
  IN  CASE total >= rem_tokens(a, a.rem_total_token_offset) -> Result(a, "NO_TOKEN")
        [] OTHER ->
      CASE extend >= a.rem_input_tokens /\ a.can_run_list # <<>> -> Result(a, "OTHER")
        [] OTHER ->
      CASE ~FitsLocked(b, total)   -> Result(Unlocked(b, r), "NO_TOKEN")
        [] OTHER ->
      CASE a.rem_chunk_tokens <= 0 -> Result(Unlocked(b, r), "OTHER")
        [] OTHER -> Result(c, budget_state(c))

\* len(can_run_list) >= get_num_allocatable_reqs(running_bs).
NoRow(a) == Len(a.can_run_list) >= MaxRunning - a.running_bs

\* One round of the loop over the waiting queue.
TryAdd(a, r) ==
  IF a.stop THEN a
  ELSE IF NoRow(a)
  THEN [a EXCEPT !.batch_is_full = TRUE, !.stop = TRUE]
  ELSE IF a.batch_is_full THEN [a EXCEPT !.stop = TRUE]
  ELSE add_one_req([a EXCEPT !.m = init_next_round_input(@, r)], r)

\* reserved stands for the running requests' remaining tokens times
\* new_token_ratio.
PrefillAdder(x, reserved) ==
  [m                      |-> x.m,
   running_bs             |-> Len(x.running_batch),
   batch_is_full          |-> x.batch_is_full,
   chunked_req            |-> x.chunked_req,
   can_run_list           |-> <<>>,
   rem_total_token_offset |-> reserved,
   cur_rem_token_offset   |-> 0,
   rem_input_tokens       |-> MaxPrefillTokens,
   rem_chunk_tokens       |-> ChunkSize,
   stop                   |-> FALSE]

\* new_token_ratio moves between its minimum and 1 with every decode and
\* retraction: any share of the remaining tokens may be reserved.
Reserved(x) ==
  0 .. FoldLeft(LAMBDA n, r : n + max_new_tokens(r) - x.m.req[r].output_len,
                0, x.running_batch)

\* Mutant: the chunk that is launched is not counted.
ChunksOut_uncounted(x, r) == x.is_chunked

\* chunked_req.is_chunked += 1.
ChunksOut(x, r) == [q \in Reqs |-> x.is_chunked[q] + IF q = r THEN 1 ELSE 0]

\* prepare_for_extend of the requests that were added.
prepare_for_extend(x, a) ==
  {[x EXCEPT
      !.m             = c,
      !.batch_is_full = a.batch_is_full,
      !.waiting_queue = SelectSeq(@, LAMBDA r : r \notin ToSet(a.can_run_list)),
      !.chunked_req   = a.chunked_req,
      !.is_chunked    = ChunksOut(x, a.chunked_req),
      !.is_retracted  = @ \ ToSet(a.can_run_list),
      !.cur_batch     = [mode |-> "extend", reqs |-> a.can_run_list]] :
     c \in alloc_for_extend(a.m, a.can_run_list)}

AllocatableReqs(x) == MaxRunning - Len(x.running_batch)

\* _get_new_batch_prefill_raw; no batch leaves cur_batch empty.
get_new_batch_prefill(x) ==
  IF (x.batch_is_full \/ x.waiting_queue = <<>>) /\ x.chunked_req = None THEN {x}
  ELSE IF AllocatableReqs(x) <= 0 /\ x.chunked_req # None
  THEN {[x EXCEPT !.batch_is_full = TRUE]}
  ELSE LET launch(a) ==
             IF a.can_run_list = <<>>
             THEN {[x EXCEPT !.m = a.m, !.batch_is_full = a.batch_is_full]}
             ELSE prepare_for_extend(x, a)
       IN  UNION {launch(FoldLeft(TryAdd, add_chunked_req(PrefillAdder(x, n)),
                                  x.waiting_queue)) : n \in Reserved(x)}

-----------------------------------------------------------------------------
(***************************************************************************)
(* Decode.                                                                 *)
(***************************************************************************)
\* Mutant: any free slot counts.
check_decode_mem_total(m, n) ==
  {[m |-> c, fits |-> available_size(c.alloc) >= n] :
     c \in evict_from_tree_cache(m, n)}

\* check_decode_mem evicts, then asks for one INT4 slot for each request; the
\* value is the set of caches it may leave, with its answer.
check_decode_mem(m, n) ==
  {[m |-> c, fits |-> available_size_int4(c.alloc) >= n] :
     c \in evict_from_tree_cache(m, n)}

\* The batch in the order retract_decode keeps it, the next victim last: most
\* output first, then shortest prompt, then as it was.
ByOutput(m, reqs) ==
  LET before(i, j) ==
        LET p == m.req[reqs[i]].output_len
            q == m.req[reqs[j]].output_len
            k == PromptLen[reqs[i]]
            l == PromptLen[reqs[j]]
        IN  p > q \/ (p = q /\ (k < l \/ (k = l /\ i < j)))
      order == SortSeq([i \in DOMAIN reqs |-> i], before)
  IN  [i \in DOMAIN reqs |-> reqs[order[i]]]

\* Release r from the running batch, for n requests that stay.
Retracted(x, r, n) ==
  {[x EXCEPT !.m             = c,
             !.running_batch = SelectSeq(@, LAMBDA q : q # r),
             !.is_chunked[r] = 0,
             !.is_retracted  = @ \cup {r}] : c \in release_req(x.m, r, n * RetractSteps)}

\* One more request is retracted and the memory checked again, unless the
\* rest fits or only one request is left.
RetractRound(w) ==
  IF w.fits \/ Len(w.x.running_batch) = 1 THEN {w}
  ELSE LET r == Last(w.x.running_batch)
           n == Len(w.x.running_batch) - 1
       IN  UNION {{[x    |-> [y EXCEPT !.m = c.m, !.waiting_queue = Append(@, r)],
                    fits |-> c.fits] : c \in check_decode_mem(y.m, n)} :
                    y \in Retracted(w.x, r, n)}

\* The last request does not fit either: it is released and aborted.
AbortLast(x) ==
  LET r == x.running_batch[1]
  IN  {[y EXCEPT !.aborted = @ \cup {r}, !.oom_evictable = x.m.tree.evictable_size] :
         y \in Retracted(x, r, 0)}

\* retract_decode.  The memory is checked before each retraction but the
\* first, and once more when one request is left.
retract_decode(x) ==
  LET rounds == FoldLeft(LAMBDA W, i : UNION {RetractRound(w) : w \in W},
                         {[x    |-> [x EXCEPT !.running_batch = ByOutput(x.m, @)],
                           fits |-> FALSE]},
                         x.running_batch)
  IN  UNION {IF Len(w.x.running_batch) > 1 THEN {w.x}
             ELSE UNION {LET y == [w.x EXCEPT !.m = c.m]
                         IN  IF c.fits THEN {y} ELSE AbortLast(y) :
                           c \in check_decode_mem(w.x.m, 1)} : w \in rounds}

prepare_for_decode(x) ==
  {[x EXCEPT !.m = c, !.cur_batch = [mode |-> "decode", reqs |-> x.running_batch]] :
     c \in alloc_for_decode(x.m, x.running_batch)}

\* Mutant: the flag is kept although requests left the batch.
StillFull_always(x, n) == x.batch_is_full

\* batch_is_full is cleared when the batch got smaller than n.
StillFull(x, n) == x.batch_is_full /\ Len(x.running_batch) = n

update_running_batch(x) ==
  LET y == [x EXCEPT !.running_batch = filter_batch(x, @, {})]
      n == Len(y.running_batch)
      settle(z) == [z EXCEPT !.batch_is_full = StillFull(z, Len(x.running_batch))]
      go(z) == IF z.running_batch = <<>> THEN {z} ELSE prepare_for_decode(z)
  IN  IF n = 0 THEN {settle(y)}
      ELSE UNION {LET z == [y EXCEPT !.m = c.m]
                  IN  UNION {go(settle(v)) : v \in IF c.fits THEN {z} ELSE retract_decode(z)} :
                    c \in check_decode_mem(y.m, n)}

\* Prefill first if possible, else decode.
get_next_batch_to_run(x) ==
  LET y == merge_last_batch(stash_chunked_request([x EXCEPT !.cur_batch = NoBatch]))
  IN  UNION {IF z.cur_batch.mode = None /\ z.m.error = "none" /\ z.running_batch # <<>>
             THEN update_running_batch(z) ELSE {z} : z \in get_new_batch_prefill(y)}

-----------------------------------------------------------------------------
(***************************************************************************)
(* Results.                                                                *)
(***************************************************************************)
\* A token of r is appended and check_finished applied; Stop are the requests
\* whose token is a stop token.
Sampled(x, r, Stop) ==
  LET y == [x EXCEPT !.m.req[r].output_len = @ + 1]
  IN  IF \/ r \in x.to_finish \cup Stop
         \/ y.m.req[r].output_len >= max_new_tokens(r)
      THEN [y EXCEPT !.finished = @ \cup {r}, !.to_finish = @ \ {r},
                     !.m = release_kv_cache(@, r, TRUE)]
      ELSE y

process_batch_result_prefill(x, batch, Stop) ==
  LET sampled(y, r) == LET z == Sampled(y, r, Stop)
                       IN  IF r \in z.finished THEN z
                           ELSE [z EXCEPT !.m = cache_unfinished_req(@, r)]
      one(y, r) == IF r \in y.finished \cup y.is_retracted THEN y
                   ELSE IF y.is_chunked[r] > 0 THEN [y EXCEPT !.is_chunked[r] = @ - 1]
                   ELSE sampled(y, r)
  IN  FoldLeft(one, x, batch.reqs)

\* The slots of the requests that finish are freed as one group.
process_batch_result_decode(x, batch, Stop) ==
  LET one(y, r) == IF y.enable_overlap /\ r \in y.finished \cup y.is_retracted THEN y
                   ELSE Sampled(y, r, Stop)
      begun == [x EXCEPT !.m.alloc = free_group_begin(@)]
  IN  [FoldLeft(one, begun, batch.reqs) EXCEPT !.m.alloc = free_group_end(@)]

\* result_queue.popleft().
Popped(x) == [x EXCEPT !.result_queue = Tail(@)]

process_batch_result(x, Stop) ==
  LET batch == Head(x.result_queue)
      y     == Popped(x)
  IN  IF batch.mode = "decode" THEN process_batch_result_decode(y, batch, Stop)
      ELSE process_batch_result_prefill(y, batch, Stop)

-----------------------------------------------------------------------------
(***************************************************************************)
(* The event loop.                                                         *)
(***************************************************************************)
Becomes(x) == s' = [x EXCEPT !.m = Settled(@)]

\* A request arrives.
AddRequest(r) ==
  /\ pc = "recv"
  /\ r \notin s.arrived
  /\ s' = [s EXCEPT !.arrived = @ \cup {r}, !.waiting_queue = Append(@, r)]
  /\ UNCHANGED pc

\* abort_request: out of the queue, or finished by its next result.
AbortRequest(r) ==
  LET running == ToSet(s.running_batch) \cup ToSet(BatchReqs(s, s.cur_batch))
  IN  /\ pc = "recv"
      /\ r \in MayAbort
      /\ \/ /\ r \in ToSet(s.waiting_queue)
            /\ s' = [s EXCEPT !.waiting_queue = SelectSeq(@, LAMBDA q : q # r),
                              !.aborted = @ \cup {r}]
         \/ /\ r \in running \ (s.finished \cup s.to_finish)
            /\ s' = [s EXCEPT !.to_finish = @ \cup {r}]
      /\ UNCHANGED pc

\* One pass up to the launch of the chosen batch.
Schedule ==
  /\ pc = "recv"
  /\ ~s.paused
  /\ \E x \in get_next_batch_to_run(s) :
       /\ Becomes([x EXCEPT !.result_queue =
                      IF x.cur_batch = NoBatch THEN @ ELSE Append(@, x.cur_batch)])
       /\ pc' = IF x.m.error = "none" THEN "launched" ELSE "dead"

\* The rest of the pass: the result of the batch before in the overlapped
\* loop, of this one in the normal loop.
Process(Stop) ==
  LET due == IF s.enable_overlap THEN s.last_batch # NoBatch ELSE s.cur_batch # NoBatch
      ends(x) == /\ Becomes([x EXCEPT !.last_batch = x.cur_batch])
                 /\ pc' = IF x.m.error = "none" THEN "recv" ELSE "dead"
  IN  /\ pc = "launched"
      /\ ends(IF due THEN process_batch_result(s, Stop) ELSE s)

\* pause_generation in place.
PauseInPlace ==
  /\ MayPause /\ pc = "recv" /\ ~s.paused
  /\ s' = [s EXCEPT !.paused = TRUE]
  /\ UNCHANGED pc

\* retract_all: every request of the batch is released and queued.
retract_all(x) ==
  LET reqs == x.running_batch
      step(X, i) == UNION {Retracted(y, reqs[i], Len(reqs) - i + 1) : y \in X}
  IN  {[y EXCEPT !.waiting_queue = @ \o reqs] :
         y \in FoldLeft(step, {x}, [i \in DOMAIN reqs |-> i])}

\* pause_generation with mode retract: the result that is out is processed,
\* the last prefill batch joins the running batch, chunked request included,
\* and all of it is retracted.
PauseRetract(Stop) ==
  LET merged(x) ==
        [x EXCEPT !.paused     = TRUE,
                  !.last_batch = NoBatch,
                  !.cur_batch  = NoBatch,
                  !.running_batch =
                    IF x.last_batch.mode = "extend"
                    THEN @ \o filter_batch(x, x.last_batch.reqs, {}) ELSE @]
      retracts(y) ==
        IF y.running_batch = <<>> THEN Becomes(y)
        ELSE \E v \in retract_all([y EXCEPT !.running_batch = filter_batch(y, @, {})]) :
               Becomes([v EXCEPT !.batch_is_full = FALSE, !.chunked_req = None])
  IN  /\ MayPause /\ pc = "recv"
      /\ retracts(merged(IF s.enable_overlap /\ s.last_batch # NoBatch
                         THEN process_batch_result(s, Stop) ELSE s))
      /\ UNCHANGED pc

ContinueGeneration ==
  /\ pc = "recv" /\ s.paused
  /\ s' = [s EXCEPT !.paused = FALSE]
  /\ UNCHANGED pc

\* is_fully_idle.
Idle(x) ==
  /\ x.running_batch = <<>> /\ x.waiting_queue = <<>> /\ x.chunked_req = None
  /\ BatchReqs(x, x.last_batch) = <<>> /\ BatchReqs(x, x.cur_batch) = <<>>
  /\ x.enable_overlap => x.result_queue = <<>>

FlushCache ==
  /\ pc = "recv" /\ Idle(s)
  /\ s' = [s EXCEPT !.m = [InitCache EXCEPT !.req = s.m.req],
                    !.cur_batch = NoBatch, !.last_batch = NoBatch]
  /\ UNCHANGED pc

Stops == SUBSET MayStop

Next ==
  \/ \E r \in Reqs : AddRequest(r)
  \/ \E r \in Reqs : AbortRequest(r)
  \/ Schedule
  \/ \E Stop \in Stops : Process(Stop)
  \/ PauseInPlace
  \/ \E Stop \in Stops : PauseRetract(Stop)
  \/ ContinueGeneration
  \/ FlushCache

\* What Schedule and Process do to pc; no other step does, and both are always
\* possible at their place in the loop, so that fairness of these is fairness
\* of them.
Launches == pc = "recv" /\ ~s.paused /\ pc' \in {"launched", "dead"}

EndsPass == pc = "launched" /\ pc' \in {"recv", "dead"}

\* The loop never stops.
Fairness == WF_pc(Launches) /\ WF_pc(EndsPass)

Spec == Init /\ [][Next]_vars

FairSpec == Spec /\ Fairness

-----------------------------------------------------------------------------
(***************************************************************************)
(* Properties.                                                             *)
(***************************************************************************)
\* The scheduler's fields have their types.
TypeOK ==
  /\ pc \in {"recv", "launched", "dead"}
  /\ s.m.alloc \in AllocatorState
  /\ s.chunked_req \in Reqs \cup {None}
  /\ s.is_chunked \in [Reqs -> 0 .. 2]
  /\ ToSet(s.waiting_queue) \cup ToSet(s.running_batch) \subseteq s.arrived
  /\ Len(s.result_queue) <= 2
  /\ pc = "dead" <=> s.m.error # "none"

\* The only raise the loop can die from is the prefill allocation's: decode
\* always gets the slots check_decode_mem found, the admitted requests always
\* get rows, no request is released twice, and only one is chunked.
NoRaise == s.m.error \in {"none", "prefill oom"}

Uncached(r) ==
  IF s.m.req[r].kv_committed_freed THEN 0
  ELSE s.m.req[r].kv_committed_len - s.m.req[r].cache_protected_len

UncachedSize(reqs) == FoldLeft(LAMBDA n, r : n + Uncached(r), 0, reqs)

\* self_check_during_busy never fails at the end of a pass: the last batch,
\* and the running batch if that was a prefill, name every request that holds
\* slots outside the tree.
BusyCheck ==
  pc = "recv" /\ s.last_batch # NoBatch =>
    available_size(s.m.alloc) + s.m.tree.evictable_size + s.m.tree.protected_size
      + UncachedSize(BatchReqs(s, s.last_batch))
      + (IF s.last_batch.mode = "extend" THEN UncachedSize(s.running_batch) ELSE 0)
    = size

\* An idle server has everything back: no lock, row or slot is kept for a
\* request that finished, was aborted, or was retracted and then aborted.
IdleCheck ==
  pc = "recv" /\ Idle(s) =>
    /\ s.m.tree.protected_size = 0
    /\ available_size(s.m.alloc) + s.m.tree.evictable_size = size
    /\ s.m.free_slots = 1 .. NumRows

\* Between passes every live request is in exactly one place, the queue, the
\* running batch or the prefill batch that is about to join it, and holds a
\* row exactly when it is not queued.
OnePlace ==
  pc = "recv" =>
    \A r \in s.arrived \ s.finished :
      LET batches == s.running_batch
                       \o (IF s.last_batch.mode = "extend" THEN s.last_batch.reqs ELSE <<>>)
          queued  == Len(SelectSeq(s.waiting_queue, LAMBDA q : q = r))
          placed  == Len(SelectSeq(batches, LAMBDA q : q = r))
      IN  /\ queued + placed = IF r \in s.aborted THEN 0 ELSE 1
          /\ (s.m.req[r].req_pool_idx # 0) <=> (placed = 1)

\* The four above and the types together, for runs that ask the same of
\* another instance.
Sound == TypeOK /\ NoRaise /\ BusyCheck /\ IdleCheck /\ OnePlace

\* When a request is being chunked there is room for it: the comment in
\* _get_new_batch_prefill_raw says num_allocatable_reqs is then positive, and
\* the early return would drop the chunk.
RoomForChunk ==
  pc = "recv" /\ s.chunked_req # None => AllocatableReqs(merge_last_batch(s)) > 0

\* A token is sampled only from the whole input: however chunks, retractions
\* and late results interleave, no result of a chunk is taken for a token
\* (is_chunked in process_batch_result_prefill).
TokenFromWholeInput ==
  [][\A r \in Reqs :
       s'.m.req[r].output_len > s.m.req[r].output_len =>
         s.m.req[r].kv_committed_len >= PromptLen[r] + s.m.req[r].output_len]_vars

\* The budget keeps the promise made for admission_size: no request is
\* admitted that the INT4 region cannot take, so prefill does not raise.
NoPrefillOOM == s.m.error # "prefill oom"

\* The last running request is aborted for lack of memory only when nothing
\* is left to evict.
AbortOnlyWhenFull == s.oom_evictable = 0

\* batch_is_full is only an optimization: when nothing is running and it makes
\* the scheduler skip the prefill check, that check would have found nothing.
FullIsOptimization ==
  /\ pc = "recv" /\ s.batch_is_full /\ s.chunked_req = None
  /\ s.running_batch = <<>> /\ s.last_batch = NoBatch
  => \A x \in get_new_batch_prefill([s EXCEPT !.batch_is_full = FALSE]) :
       x.cur_batch.mode # "extend"

\* Every request is served, or aborted by its client.
Served ==
  \A r \in Reqs : r \in s.arrived ~> r \in s.finished \cup s.aborted

=============================================================================
