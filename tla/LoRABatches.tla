----------------------------- MODULE LoRABatches -----------------------------
(***************************************************************************)
(* How the scheduler chooses batches under the limit of LoRA slots, with   *)
(* and without overlapped loading (lora/lora_overlap_loader.py), and what  *)
(* the memory pool does for each batch.                                    *)
(*                                                                         *)
(* What add_one_req answers is left open: the request is added, added with *)
(* a truncated input (it becomes chunked_req) or refused; Scheduler models *)
(* the budget behind the answer.                                           *)
(***************************************************************************)
EXTENDS LoRAMemPool

CONSTANTS
    Uses,         \* request -> uid of its adapter, or Base
    Adapters,     \* adapters that may be loaded: [id, pinned]
    Overlap,      \* enable_lora_overlap_loading
    Chunking,     \* may a prompt be split into chunks?
    MayAbort,     \* may a waiting request be aborted?
    Fair          \* are passes told apart, for LiveSpec?

Reqs == DOMAIN Uses

LoRABatchesAssumption ==
    /\ MaxLoras \in Nat \ {0}
    /\ Policy \in {"lru", "fifo"}
    /\ {Overlap, Chunking, MayAbort, Fair} \subseteq BOOLEAN
    /\ \A r \in Reqs : Uses[r] = Base \/ \E ref \in Adapters : ref.id = Uses[r]

VARIABLES
    pool,     \* LoRAMemoryPool
    refs,     \* LoRAManager.lora_refs
    gone,     \* adapters unloaded; an id is never used again
    waiting,  \* waiting_queue
    running,  \* requests of running_batch
    chunked,  \* chunked_req, as a set of at most one request
    loading,  \* lora_to_overlap_load_event: loads whose event is kept
    batch,    \* requests of the batch that ran last
    done,
    raised,   \* the exception that ended the scheduler, if any
    turn      \* parity of the passes, and was the last one a full one?

vars == <<pool, refs, gone, waiting, running, chunked, loading, batch, done, raised, turn>>

UidsOf(S) == {Uses[r] : r \in S}

Init ==
    /\ pool = prepare_lora_batch(EmptyPool, <<Base>>, {}).p
    /\ refs = {}
    /\ gone = {}
    /\ waiting = <<>>
    /\ running = {}
    /\ chunked = {}
    /\ loading = {}
    /\ batch = {}
    /\ done = {}
    /\ raised = "no"
    /\ turn = [odd |-> FALSE, full |-> FALSE]

Alive == raised = "no"

------------------------------------------------------------------------------
\* Adapters come and go; the registry keeps an adapter that requests use.

LoadAdapter(ref) ==
    /\ Alive
    /\ ref \notin refs \cup gone
    /\ ref.pinned => Cardinality({r \in refs : r.pinned}) < MaxLoras - 1
    /\ refs' = refs \cup {ref}
    /\ UNCHANGED <<pool, gone, waiting, running, chunked, loading, batch, done, raised, turn>>

UnloadAdapter(ref) ==
    /\ Alive
    /\ ref \in refs
    /\ ref.id \notin UidsOf(Range(waiting) \cup running \cup chunked)
    /\ refs' = refs \ {ref}
    /\ gone' = gone \cup {ref}
    /\ UNCHANGED <<pool, waiting, running, chunked, loading, batch, done, raised, turn>>

Arrive(r) ==
    /\ Alive
    /\ r \notin Range(waiting) \cup running \cup chunked \cup done
    /\ Uses[r] = Base \/ \E ref \in refs : ref.id = Uses[r]
    /\ waiting' = Append(waiting, r)
    /\ UNCHANGED <<pool, refs, gone, running, chunked, loading, batch, done, raised, turn>>

\* A running request reaches its end.
Finish(r) ==
    /\ Alive
    /\ r \in running
    /\ running' = running \ {r}
    /\ done' = done \cup {r}
    /\ UNCHANGED <<pool, refs, gone, waiting, chunked, loading, batch, raised, turn>>

\* abort_request of a request that waits.
Abort(r) ==
    /\ Alive
    /\ MayAbort
    /\ r \in Range(waiting)
    /\ waiting' = Remove(waiting, r)
    /\ done' = done \cup {r}
    /\ UNCHANGED <<pool, refs, gone, running, chunked, loading, batch, raised, turn>>

------------------------------------------------------------------------------
\* One pass over the waiting queue.  s carries the pool, the events, the
\* adapters counted so far (running_loras), the requests added, and the
\* request that was truncated.

\* validate_lora_batch looks every adapter up once something is pinned.
Unknown(uids) ==
    /\ \E ref \in refs : ref.pinned
    /\ \E uid \in uids \ {Base} : \A ref \in refs : ref.id # uid

\* The load is made as if nothing else were in use.
Started_alone(s, uid) ==
    LET fetched == prepare_lora_batch(s.pool, <<uid>>, refs)
    IN  IF fetched.raised THEN s
        ELSE [s EXCEPT !.pool = fetched.p, !.loading = @ \cup {uid}]

\* _try_start_overlap_load: with room, fetch uid next to the others.
Started(s, uid) ==
    LET uids == {uid} \cup s.loras \cup s.loading
        fetched == prepare_lora_batch(s.pool, SetToSeq(uids), refs)
    IN  CASE ~validate_lora_batch(uids, refs) ->
                 [s EXCEPT !.raised = IF Cardinality(uids) <= MaxLoras /\ Unknown(uids)
                                      THEN "AssertionError" ELSE @]
          [] OTHER -> [s EXCEPT !.pool = fetched.p, !.loading = @ \cup {uid},
                                !.raised = IF Unknown(uids) THEN "AssertionError"
                                           ELSE IF fetched.raised THEN "ValueError" ELSE @]

\* The event of a load is kept when it is over.
Tried_kept(s, r, ready) ==
    LET uid == Uses[r]
    IN  IF uid \in s.loras \/ uid \in s.loading
        THEN [s EXCEPT !.try = uid \in s.loras \/ uid \in ready]
        ELSE [Started(s, uid) EXCEPT !.try = FALSE]

\* May the request be tried?  An overlapped load is started, pending, or over
\* (ready: the events that have completed).
Tried(s, r, ready) ==
    LET uid == Uses[r]
    IN  CASE uid \in s.loras -> [s EXCEPT !.try = TRUE]
          [] uid \notin s.loras /\ ~Overlap ->
                 [s EXCEPT !.try = validate_lora_batch({uid} \cup s.loras, refs)]
          [] uid \notin s.loras /\ Overlap ->
                 IF uid \notin s.loading THEN [Started(s, uid) EXCEPT !.try = FALSE]
                 ELSE [s EXCEPT !.try = uid \in ready,
                                !.loading = IF uid \in ready THEN @ \ {uid} ELSE @]

\* The answer of add_one_req; running_loras grows whatever the answer is.
Added(s, r, answer) ==
    [s EXCEPT !.loras = @ \cup {Uses[r]},
              !.added = IF answer = "refuse" THEN @ ELSE @ \cup {r},
              !.truncated = IF answer = "chunk" THEN {r} ELSE @,
              !.stop = answer # "continue"]

Visit(s, r, answer, ready) ==
    IF s.stop \/ s.raised # "no" THEN s
    ELSE LET t == Tried(s, r, ready) IN IF t.try THEN Added(t, r, answer) ELSE t

\* Only the pass's own requests are counted.
running_loras_new == {}

\* The adapters of the requests that are running.
running_loras == UidsOf(running)

\* The queue is visited only when the chunked request, if any, got its last
\* chunk: a truncated one leaves no budget.
PrefillPass(answers, ready, lastChunk) ==
    LET start == [pool |-> pool, loading |-> loading, loras |-> running_loras,
                  added |-> chunked, truncated |-> {}, raised |-> "no",
                  try |-> FALSE, stop |-> chunked # {} /\ ~lastChunk]
        end == FoldLeft(LAMBDA s, i : Visit(s, waiting[i], answers[i], ready),
                        start, [i \in 1..Len(waiting) |-> i])
    IN  [end EXCEPT !.truncated = IF chunked # {} /\ ~lastChunk THEN chunked ELSE @]

\* ForwardBatch.init_new for the batch: fetch its adapters, then look their
\* buffers up.
Forward(B, cur, p) ==
    LET fetched == prepare_lora_batch(p, cur, refs)
    IN  IF Overlap
        THEN [p |-> p, raised |-> IF UidsOf(B) \subseteq InPool(p) THEN "no" ELSE "KeyError"]
        ELSE [p |-> fetched.p,
              raised |-> IF Cardinality(UidsOf(B)) > MaxLoras THEN "AssertionError"
                         ELSE IF fetched.raised THEN "ValueError" ELSE "no"]

\* The answers of add_one_req along the queue: the loop ends at the first
\* that is not "continue".
Answers ==
    {[i \in 1..Len(waiting) |-> IF i = at THEN last ELSE "continue"] :
        at \in 0..Len(waiting), last \in {"refuse"} \cup (IF Chunking THEN {"chunk"} ELSE {})}

\* Every load is complete and nothing is refused.
Full(answers, ready, lastChunk) ==
    ready = loading /\ lastChunk /\ \A i \in DOMAIN answers : answers[i] = "continue"

\* get_next_batch_to_run and run_batch: prefill what the pass added, else
\* decode what is running.
Step(answers, ready, lastChunk) ==
    \E pass \in {PrefillPass(answers, ready, lastChunk)} :
    LET B == IF pass.added # {} THEN pass.added ELSE running
    IN  \E cur \in IF Overlap THEN {<<>>} ELSE SetToSeqs(UidsOf(B)) :
        \E forward \in {Forward(B, cur, pass.pool)} :
           /\ pool' = forward.p
           /\ raised' = IF pass.raised # "no" THEN pass.raised ELSE forward.raised
           /\ loading' = pass.loading
           /\ batch' = B
           /\ chunked' = pass.truncated
           /\ running' = running \cup (pass.added \ pass.truncated)
           /\ waiting' = SelectSeq(waiting, LAMBDA q : q \notin pass.added)
           /\ turn' = IF Fair THEN [odd |-> ~turn.odd, full |-> Full(answers, ready, lastChunk)]
                      ELSE turn
           /\ UNCHANGED <<refs, gone, done>>

Busy == waiting # <<>> \/ running # {} \/ chunked # {}

Pass ==
    /\ Alive
    /\ Busy
    /\ \E answers \in Answers, ready \in SUBSET loading,
          lastChunk \in (IF chunked = {} THEN {TRUE} ELSE BOOLEAN) :
          Step(answers, ready, lastChunk)

Next ==
    \/ \E ref \in Adapters : LoadAdapter(ref) \/ UnloadAdapter(ref)
    \/ \E r \in Reqs : Arrive(r) \/ Finish(r) \/ Abort(r)
    \/ Pass

Spec == Init /\ [][Next]_vars

\* The scheduler's loop goes on for as long as there is work (turn changes with
\* every pass, so a pass is enabled exactly then), and decoding ends.  From some
\* point on the KV pool has room and a load is over by the next pass: what keeps
\* a request waiting then is the adapters.
FullPasses ==
    /\ WF_turn(Alive /\ Busy /\ turn' \in [odd : {~turn.odd}, full : BOOLEAN])
    /\ <>[][turn'.full]_turn

Fairness == FullPasses /\ \A r \in Reqs : WF_vars(Finish(r))

LiveSpec == Spec /\ Fairness

------------------------------------------------------------------------------
\* A batch never has more adapters than there are slots: the assertion of
\* fetch_new_loras, which the check per request is there for.
BatchFits == raised # "AssertionError"

\* The check per request also means that a slot can be had for every adapter
\* of the batch, pinned adapters and the base model included: no "No
\* available buffer slots found", no missing buffer.
SlotForEach == raised \notin {"ValueError", "KeyError"}

\* While a batch runs, every request of it finds its own adapter in a slot,
\* and no adapter is in two (prepare_lora_batch fills slot after slot).
BatchResident ==
    Alive => /\ UidsOf(batch \ done) \subseteq InPool(pool)
             /\ \A b, c \in Buffers :
                   pool.slot[b] = pool.slot[c] /\ pool.slot[b] # EmptySlot => b = c

\* With overlapped loading a load writes its slot while the last batch is still
\* on the GPU: no step takes the slot of an adapter that the batch uses.
KeepsInFlight == UidsOf(batch \ done) \subseteq InPool(pool')

\* Every adapter in a slot is one the eviction policy knows, or a full pool
\* would find no victim (mark_used, remove).
Evictable == InPool(pool) \ {Base} \subseteq Range(pool.order)

\* "Try to load it if there's capacity in the memory pool": every request that
\* waits is admitted, whatever the other adapters do (try_overlap_load_lora).
WaitersRun == \A r \in Reqs : r \in Range(waiting) ~> r \notin Range(waiting)

\* A pinned adapter keeps its slot for as long as it is loaded.
KeepsPinned ==
    \A ref \in refs \cap refs' :
        ref.pinned /\ ref.id \in InPool(pool) => ref.id \in InPool(pool')

==============================================================================
