---------------------------- MODULE GrammarManager ----------------------------
(***************************************************************************)
(* constrained/grammar_manager.py on every rank of a tensor-parallel       *)
(* group, and the cache of constrained/base_grammar_backend.py.  Each rank *)
(* compiles a request's grammar in a thread pool of its own, at its own    *)
(* speed; the ranks must hand the same requests to their schedulers in the *)
(* same iterations.                                                        *)
(*                                                                         *)
(* rank[k] is [queue, cache, grammar, wait_ct, waiting]: grammar_queue, the*)
(* backend's cache (key -> "valid", "invalid" or None), the requests'      *)
(* grammar ("future", "valid", or None once set_finish_with_abort cleared  *)
(* it), grammar_wait_ct, and the requests given to the waiting queue.      *)
(* Ranks receive the same requests in an iteration, and meet in            *)
(* all_gather_object, so one action is one step of all ranks.              *)
(***************************************************************************)
EXTENDS Integers, Sequences, SequencesExt, FiniteSets, FiniteSetsExt

CONSTANTS
    Ranks,
    Key,          \* Key[r]: the grammar of request r
    Invalid,      \* keys that do not compile
    MaxPolls      \* SGLANG_GRAMMAR_MAX_POLL_ITERATIONS

Reqs == DOMAIN Key
Keys == {Key[r] : r \in Reqs}
None == "None"

GrammarAssumption ==
    /\ Ranks # {} /\ IsFiniteSet(Ranks) /\ IsFiniteSet(Reqs)
    /\ MaxPolls \in Nat \ {0}
    /\ Invalid \subseteq Keys

VARIABLES rank, compiled, received, blocked

vars == <<rank, compiled, received, blocked>>

\* compiled[k]: the requests whose future is done on rank k.  blocked: a rank
\* called result() on a future that was not done.
Init ==
    /\ rank = [k \in Ranks |->
                  [queue |-> <<>>, cache |-> [key \in Keys |-> None],
                   grammar |-> [r \in Reqs |-> None], wait_ct |-> [r \in Reqs |-> 0],
                   waiting |-> <<>>]]
    /\ compiled = [k \in Ranks |-> {}]
    /\ received = {}
    /\ blocked = FALSE

\* A thread of rank k's pool finishes; a pathological grammar may never.
Compiled(k, r) ==
    /\ rank[k].grammar[r] = "future" /\ r \notin compiled[k]
    /\ compiled' = [compiled EXCEPT ![k] = @ \cup {r}]
    /\ UNCHANGED <<rank, received, blocked>>

------------------------------------------------------------------------------
\* A hit copies the cached object; an invalid one aborts the request at once.
process_req_with_grammar(st, r) ==
    CASE st.cache[Key[r]] = None ->
            [st EXCEPT !.grammar[r] = "future", !.queue = Append(@, r)]
      [] st.cache[Key[r]] = "invalid" -> [st EXCEPT !.waiting = Append(@, r)]
      [] OTHER -> [st EXCEPT !.grammar[r] = "valid", !.waiting = Append(@, r)]

Receive(r) ==
    /\ r \notin received
    /\ received' = received \cup {r}
    /\ rank' = [k \in Ranks |-> process_req_with_grammar(rank[k], r)]
    /\ UNCHANGED <<compiled, blocked>>

\* AbortReq for one request or for all: a queued one loses its grammar.
abort_requests(st, hit) ==
    [st EXCEPT !.grammar = [r \in Reqs |-> IF r \in hit /\ Contains(st.queue, r) THEN None ELSE @[r]]]

Abort(hit) ==
    /\ rank' = [k \in Ranks |-> abort_requests(rank[k], hit)]
    /\ UNCHANGED <<compiled, received, blocked>>

\* flush_cache on an idle scheduler.
clear ==
    /\ \A k \in Ranks : rank[k].queue = <<>>
    /\ rank' = [k \in Ranks |-> [rank[k] EXCEPT !.cache = [key \in Keys |-> None]]]
    /\ UNCHANGED <<compiled, received, blocked>>

------------------------------------------------------------------------------
\* The local part of get_ready_grammar_requests: indices ready on this rank,
\* and those that have been polled too often.
ready_idxs(k) ==
    {i \in DOMAIN rank[k].queue :
        \/ rank[k].grammar[rank[k].queue[i]] = None
        \/ rank[k].queue[i] \in compiled[k]}

\* Bound: the count stops at MaxPolls; no condition tells larger ones apart.
Polled(k) ==
    [rank[k] EXCEPT !.wait_ct =
        [r \in Reqs |->
            IF \E i \in DOMAIN rank[k].queue \ ready_idxs(k) : rank[k].queue[i] = r
            THEN Min({@[r] + 1, MaxPolls}) ELSE @[r]]]

failed_idxs(k) ==
    {i \in DOMAIN rank[k].queue \ ready_idxs(k) : Polled(k).wait_ct[rank[k].queue[i]] >= MaxPolls}

\* What is ready somewhere is taken for ready.
synced_ready_union(k) == UNION {ready_idxs(q) : q \in Ranks}

\* Each rank goes by itself.
synced_ready_local(k) == ready_idxs(k)

synced_ready(k) == {i \in ready_idxs(k) : \A q \in Ranks : i \in ready_idxs(q)}

\* A request fails when it timed out on every rank.
synced_failed_all(k) == {i \in failed_idxs(k) : \A q \in Ranks : i \in failed_idxs(q)}

synced_failed(k) == UNION {failed_idxs(q) : q \in Ranks}

\* A ready request takes its result, unless it was aborted, and the cache
\* keeps a copy.
Take(st, i) ==
    LET r == st.queue[i]
        result == IF Key[r] \in Invalid THEN "invalid" ELSE "valid"
    IN IF st.grammar[r] = None THEN [st EXCEPT !.waiting = Append(@, r)]
       ELSE [st EXCEPT !.waiting = Append(@, r),
                       !.cache[Key[r]] = result,
                       !.grammar[r] = IF result = "invalid" THEN None ELSE result]

\* A failed request is aborted, and its key counts as invalid from now on.
Fail(st, i) ==
    LET r == st.queue[i]
    IN [st EXCEPT !.waiting = Append(@, r), !.cache[Key[r]] = "invalid", !.grammar[r] = None]

InOrder(idxs) == SetToSortSeq(idxs, <)

Remaining(queue, gone) ==
    LET kept == InOrder(DOMAIN queue \ gone) IN [j \in DOMAIN kept |-> queue[kept[j]]]

Synced(k) ==
    LET taken == FoldLeft(Take, Polled(k), InOrder(synced_ready(k)))
        failed == FoldLeft(Fail, taken, InOrder(synced_failed(k)))
    IN [failed EXCEPT !.queue = Remaining(@, synced_ready(k) \cup synced_failed(k))]

\* A rank whose queue is empty skips the collective, and the others wait for it.
get_ready_grammar_requests ==
    /\ \A k \in Ranks : rank[k].queue # <<>>
    /\ rank' = [k \in Ranks |-> Synced(k)]
    /\ blocked' = (blocked \/ \E k \in Ranks : \E i \in synced_ready(k) : i \notin ready_idxs(k))
    /\ UNCHANGED <<compiled, received>>

Next ==
    \/ \E k \in Ranks, r \in Reqs : Compiled(k, r)
    \/ \E r \in Reqs : Receive(r) \/ Abort({r})
    \/ Abort(Reqs)
    \/ clear
    \/ get_ready_grammar_requests

Spec == Init /\ [][Next]_vars

\* Schedulers iterate; no thread need ever finish.
Fairness == WF_vars(get_ready_grammar_requests)

LiveSpec == Spec /\ Fairness

------------------------------------------------------------------------------
\* All ranks hold the same queue, cache and waiting list between iterations,
\* though they compile at different speeds: they form the same batches, and
\* none waits for a rank that skips the all_gather_object.
RanksAgree ==
    \A k, q \in Ranks :
        /\ rank[k].queue = rank[q].queue
        /\ rank[k].cache = rank[q].cache
        /\ rank[k].waiting = rank[q].waiting
        /\ rank[k].grammar = rank[q].grammar

\* The scheduler's thread never waits for a compilation: result() is called
\* on futures that are done.
NeverBlocks == ~blocked

\* A request received is given to the waiting queue once, with its grammar, or
\* without one when it was aborted or its key counts as invalid.
OnceEach ==
    \A k \in Ranks, r \in received :
        Cardinality({i \in DOMAIN rank[k].queue : rank[k].queue[i] = r})
          + Cardinality({i \in DOMAIN rank[k].waiting : rank[k].waiting[i] = r}) = 1

\* A grammar that hangs on some rank does not keep its request for ever.
Leaves(r) == r \in received ~> \A k \in Ranks : Contains(rank[k].waiting, r)

===============================================================================
