------------------------------ MODULE FutureMap ------------------------------
(***************************************************************************)
(* FutureMap of managers/overlap_utils.py.  With the overlap schedule the  *)
(* next batch is launched before the tokens of the last one are known.     *)
(* The scheduler writes the number of a future slot in a request's place;  *)
(* the forward stream stores sampled tokens in the slots, and resolves the *)
(* slots when the request runs again.  Slots come from a ring.             *)
(***************************************************************************)
EXTENDS Integers, Sequences

CONSTANTS
    MaxRunning,   \* max_running_requests
    MaxChunks     \* ceil(context_len / chunked_prefill_size), 0 without chunking

FutureMapAssumption == MaxRunning \in Nat \ {0} /\ MaxChunks \in Nat

\* No room is kept for chunks of prefill.
future_limit_unchunked == MaxRunning * 3

future_limit == MaxRunning * (3 + MaxChunks)

future_buffer_len == future_limit + 2 * MaxRunning

\* The counter does not wrap before the end of the buffer.
Advance_late(ct, bs) == (ct + bs) % future_buffer_len

Advance(ct, bs) == (ct + bs) % future_limit

\* The slots of a batch of bs requests, in the order of the batch.
alloc_future_indices(ct, bs) == [i \in 1..bs |-> ct + i]

\* store_to_map: sampled tokens go to the batch's slots.
store_to_map(buf, indices, tokens) ==
    [s \in DOMAIN buf |->
        IF \E i \in DOMAIN indices : indices[i] = s
        THEN tokens[CHOOSE i \in DOMAIN indices : indices[i] = s]
        ELSE buf[s]]

resolve_future(buf, indices) == [i \in DOMAIN indices |-> buf[indices[i]]]

===============================================================================
