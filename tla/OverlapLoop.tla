------------------------------ MODULE OverlapLoop ------------------------------
(***************************************************************************)
(* The batches that event_loop_overlap of managers/scheduler.py launches,  *)
(* as far as FutureMap sees them: one step is one iteration of the loop,   *)
(* get_next_batch_to_run and run_batch.  The forward stream runs batches   *)
(* in the order of their launch.                                           *)
(*                                                                         *)
(* running is the running batch, a sequence of [req, slot]; last the batch *)
(* of the last iteration when it was a prefill; chunked the request whose  *)
(* prefill goes on, with the number of chunks it may still have.  A token  *)
(* is named by its request; stale tokens of a request are erased.          *)
(***************************************************************************)
EXTENDS FutureMap, FiniteSets, SequencesExt

CONSTANTS
    Reqs,     \* names of requests; a name is used again when its request ends
    Pieces,   \* bound: batches one prefill is cut into
    None

\* A full chunk has chunked_prefill_size tokens.  The first piece can be
\* smaller, when it shares the budget of its batch, and so can one more, when
\* memory runs short.
PiecesAssumption ==
    Pieces \in Nat /\ Pieces <= (IF MaxChunks = 0 THEN 1 ELSE MaxChunks + 2)

VARIABLES future_ct, token_ids_buf, running, last, chunked, resolved

vars == <<future_ct, token_ids_buf, running, last, chunked, resolved>>

ReqsOf(batch) == {batch[i].req : i \in DOMAIN batch}
SlotsOf(batch) == [i \in DOMAIN batch |-> batch[i].slot]

\* resolved: the last decode batch, and the tokens it read.
Init ==
    /\ future_ct = 0
    /\ token_ids_buf = [s \in 0..future_buffer_len - 1 |-> None]
    /\ running = <<>>
    /\ last = <<>>
    /\ chunked = [req |-> None, left |-> 0]
    /\ resolved = [batch |-> <<>>, tokens |-> <<>>]

\* The last prefill batch joins the running batch, without the request that
\* is in the middle of its prefill.  Requests of it that have finished are
\* still in: their result is processed after the next launch.
Merged == running \o SelectSeq(last, LAMBDA e : e.req # chunked.req)

\* Launch reqs: alloc_future_indices; the forward stream stores a token for
\* each.
Launch(reqs) ==
    LET slots == alloc_future_indices(future_ct, Len(reqs))
        fresh == [s \in DOMAIN token_ids_buf |->
                    IF token_ids_buf[s] \in ToSet(reqs) THEN None ELSE token_ids_buf[s]]
    IN /\ future_ct' = Advance(future_ct, Len(reqs))
       /\ token_ids_buf' = store_to_map(fresh, slots, reqs)

Launched(reqs) ==
    LET slots == alloc_future_indices(future_ct, Len(reqs))
    IN [i \in DOMAIN reqs |-> [req |-> reqs[i], slot |-> slots[i]]]

Queues(reqs) == UNION {SetToSeqs(some) : some \in SUBSET reqs}

\* Prefill: the chunked request first, then new requests as long as the
\* running batch has room.  The last request may be cut; the chunked request
\* is the last one unless this batch completes it.
Prefill ==
    /\ \E new \in Queues(Reqs \ (ReqsOf(Merged) \cup {chunked.req})), goesOn \in BOOLEAN :
          LET first == IF chunked.req = None THEN <<>> ELSE <<chunked.req>>
              reqs == first \o new
              cut == reqs[Len(reqs)]
              left == IF cut = chunked.req THEN chunked.left - 1 ELSE Pieces - 1
          IN /\ reqs # <<>>
             /\ Len(reqs) + Len(Merged) <= MaxRunning
             /\ goesOn => left > 0
             /\ Launch(reqs)
             /\ last' = Launched(reqs)
             /\ chunked' = IF goesOn THEN [req |-> cut, left |-> left]
                           ELSE [req |-> None, left |-> 0]
    /\ running' = Merged
    /\ resolved' = [batch |-> <<>>, tokens |-> <<>>]

\* No prefill is possible or wanted: requests that have finished leave, and
\* the others decode, reading their last tokens from the slots.
Decode ==
    /\ chunked.req = None
    /\ Merged # <<>>
    /\ \E finished \in SUBSET ReqsOf(Merged) :
          LET batch == SelectSeq(Merged, LAMBDA e : e.req \notin finished)
              reqs == [i \in DOMAIN batch |-> batch[i].req]
          IN /\ resolved' = [batch |-> reqs, tokens |-> resolve_future(token_ids_buf, SlotsOf(batch))]
             /\ Launch(reqs)
             /\ running' = Launched(reqs)
    /\ last' = <<>>
    /\ UNCHANGED chunked

Next == Prefill \/ Decode

Spec == Init /\ [][Next]_vars

------------------------------------------------------------------------------
\* "A running decode batch's result will be resolved after all prefill chunks
\* are done": a request that decodes reads the token it sampled last, however
\* many prefill batches and chunks ran in between.
OwnTokens == resolved.tokens = resolved.batch

\* "Adding 2 * max_running_requests to future_limit ensures the buffer is
\* sufficiently large": no launch stores past the end of the buffer.
InBuffer == \A i \in DOMAIN last : last[i].slot < future_buffer_len

===============================================================================
