# TriAxialKV: specification of the KV cache, its scheduler and the front end

TLA+ models, TLC runs and TLAPS proofs for this SGLang fork. The core decides
which KV-cache slot belongs to whom: the tagger, the mixed INT2/INT4 slot
allocator, the pool, the prefix tree, the bookkeeping of requests, and the
scheduler loop. Around it are the concurrent parts a request passes through: the
tokenizer process with its aborts, pauses and weight updates, LoRA adapters,
grammars, sessions, and the agreements between ranks. Paths below are relative
to `src/python/sglang/srt/`.

## 1. The system

| Part | State | Operations | Talks to |
|---|---|---|---|
| `TriaxialAllocator` (`mem_cache/triaxial_pool.py`, free groups in `mem_cache/allocator.py`) | `free_pages2`, `free_slots4`, `page_free_cnt`, `partial_slots`, the open free group | `alloc`, `alloc_decode`, `alloc_mixed`, `free`, `free_group_begin/end`, `backup_state`, `restore_state`, `clear`, the four size queries | common.py, radix tree, scheduler |
| `TriaxialKVPool` (same file) | quantized buffers, a cached grouping of the last `loc` | `set_kv_buffer`, `_grouping`, dequantized reads | attention backend |
| `RadixCache` (`mem_cache/radix_cache.py`) | nodes with key, slots and lock count; evictable leaves; evictable and protected size | `match_prefix`, `insert`, `inc/dec_lock_ref`, `evict`, `cache_(un)finished_req`, `reset` | allocator, requests |
| Batch allocation (`mem_cache/common.py`, `ReqToTokenPool`) | free rows, `req_to_token` | `alloc_for_extend`, `alloc_for_decode`, `evict_from_tree_cache`, `release_kv_cache` | all of the above |
| Requests and batches (`managers/schedule_batch.py`) | lengths, prefix, `last_node`, row, `is_chunked`, `is_retracted`, `to_finish` | `init_next_round_input`, `prepare_for_extend/decode`, `retract_decode`, `retract_all`, `filter_batch` | scheduler |
| `PrefillAdder` (`managers/schedule_policy.py`) | two token budgets, input and chunk budgets | `add_chunked_req`, `add_one_req` | allocator sizes, tree locks |
| Scheduler (`managers/scheduler.py`, result processing in `scheduler_output_processor_mixin.py`) | queue, running batch, `batch_is_full`, chunked request, current and last batch, result queue | the event loop, normal or overlapped; abort, pause, continue, flush | everything |
| Runtime checks (`managers/scheduler_runtime_checker_mixin.py`) | none | busy and idle memory checks, row check | allocator, tree |
| Tagger (`managers/triaxial_tagger.py`) | special token ids, policy | `tag`: a bitwidth for every prompt token | request creation |
| Attention backends and kernels (`layers/attention/`) | scratch buffers | quantize, dequantize, attend | pool |
| Reader-writer lock (`utils/aio_rwlock.py`) | two counters, a flag | acquire and release, cancellation | tokenizer, LoRA registry |
| `TokenizerManager` (`managers/tokenizer_manager.py`) | `rid_to_state`, pause flag, update lock | requests, aborts, pauses, weight updates, output handling | scheduler, detokenizer, clients |
| `_Communicator` (`managers/tokenizer_communicator_mixin.py`) | call in flight, queue of callers | queueing calls, watching calls | all schedulers |
| LoRA registry (`lora/lora_registry.py`) | adapters by name, usage counters | register, acquire, release, unload | tokenizer, scheduler |
| LoRA memory pool (`lora/mem_pool.py`, `lora_manager.py`, `lora_overlap_loader.py`) | adapter slots, load events | validate, prepare, evict, overlapped load | scheduler |
| `PrefillDelayer` (`managers/prefill_delayer.py`) | delay count per rank | negotiate in every pass | scheduler of each rank |
| `FutureMap` (`managers/overlap_utils.py`) | ring of tokens not yet sampled | allocate, store, resolve | overlapped loop |
| `GrammarManager` (`constrained/grammar_manager.py`) | queue, compiled cache | queue, poll, agree, abort | scheduler of each rank, thread pool |
| Streaming sessions (`managers/session_controller.py`, `mem_cache/session_aware_cache.py`) | the session's row and lengths | open, turn, close, reap | scheduler, row pool |

`PROJECT.json` lists these and the other parts of SGLang, with the reason for
each that is not modelled.

**What makes it hard.** An INT2 page is granted whole and comes back token by
token, from several requests and from the tree. The tree splits nodes under the
feet of requests that hold locks on them. Two requests may compute the same
prefix at once, and one of the copies must be freed. In the overlapped loop a
result is applied after the next batch was launched, so a request can finish, be
retracted or be chunked again while a forward pass of it is still out. Decode
needs INT4 slots and prefill may need either kind, while eviction and the budget
count tokens.

In the front end every `await` is a place where another coroutine runs. A
request's outputs come through the detokenizer while an abort comes directly, so
messages overtake each other. Locks are left by exceptions and cancellation.
Ranks that compute the same decision from their own clocks and threads must come
to the same result, or their collective calls no longer match.

**What should hold.** A slot has one owner. Sizes are exact, because SGLang
raises when they are not. A request attends to its own tokens. Nothing locked is
evicted, and no lock is leaked. Every request is in one place of the scheduler.
A token is sampled only from a complete input. Memory shortage retracts
requests instead of raising. Every accepted request is served. Attention reads
the tokens of its own request. An abort finds the state it is for, and every
request is answered. Weights change only when nothing runs. An adapter in use is
loaded. All ranks decide alike. A session's memory is released once.

## 2. Modules

    TriaxialAllocator   RadixCache
        |       \         /
    AllocatorSpec CacheOps ------------.
     |      |        |                  \
    SlotPool |     CacheSpec          Scheduler
     (abstract)      |                 |       \
    AllocatorProofs  MCCache      MCScheduler  MCFindings
    MCAllocator

    TriaxialAllocator -- KVPool -- KVForward        --.
    Tagger -- Conversation                            |
    RWLock -- RWLockProofs                            |
    TokenizerManager        Communicator              |
    LoRARegistry -- LoRAUpdates -- MCAdapters         |-- MCComponents
    LoRAMemPool -- LoRABatches                        |      |
    PrefillDelayer          GrammarManager            |   MCComponentsLive
    FutureMap -- OverlapLoop                          |
    SessionAwareCache -- StreamingSessions          --'

- **TriaxialAllocator**: the allocator as a record, one operator per method.
  Free lists are sets, as pages are interchangeable and so are INT4 slots.
  `Release` is the part of `free` outside a group. `Groupable`, `keep2`, `n4`
  and `Placement` are the stages of `alloc_mixed`. `held` is a history field:
  the slots callers own.
- **AllocatorSpec**: the state machine over any sequence of calls. Callers
  free only slots they hold, and roll back (`RestoreState`) only when nothing
  was freed since the backup. The one caller of `restore_state` in SGLang, the
  EAGLE worker, does so; TriAxialKV refuses speculative decoding today.
- **SlotPool**: the abstract allocator: grant slots nobody owns, take slots
  back, report the exact free size. `AllocatorSpec` implements it with
  `owned <- InUse(alloc)`.
- **RadixCache**: the tree. A node is named by the tokens from the root to its
  end, so a split keeps the name of the lower node, as the code keeps the
  object. `evictions(t, n)` is the set of results one `evict` call may have
  when any leaf can be next; it covers every eviction strategy.
- **CacheOps**: allocator, tree and rows together, and the calls of `common.py`
  and `cache_*_req` on them. A call that may evict yields a set of results.
  `kv` is a history field: the token prefix whose keys and values were last
  written to a slot.
- **CacheSpec**: requests that use the cache in any order the scheduler could
  choose, with up to two forward passes of a request out. No policy.
- **Scheduler**: the policy. One pass of the loop is `Schedule` (choose and
  launch) and `Process` (apply a result); `AddRequest`, `AbortRequest`,
  `PauseInPlace`, `PauseRetract`, `ContinueGeneration` and `FlushCache` happen
  between passes. `enable_overlap` selects the loop, once, at the start.

- **Tagger**: the three passes of `tag`, the policy table and `bits`, as
  operators on a sequence of token kinds. **Conversation** writes prompts piece
  by piece, as a chat template does, and keeps what each token was meant to be.
- **KVPool**: the buffers of one layer as functions from slot to token, the
  grouping of a write, the scratch rows and index arrays of an extend batch.
  **KVForward** launches extend and decode batches over the allocator of
  `TriaxialAllocator`, lets the stream run them layer by layer, and frees slots
  while a batch that uses them is out.
- **RWLock**: one task per step, from the lock's point of view: `out`, `asleep`
  in the condition, `woken`, `in`.
- **TokenizerManager**: coroutines by program counter, the three channels
  (`toSched`, `fromDetok`, `direct`) as queues, and a scheduler reduced to what
  it does to one request.
- **Communicator**: callers, the event in flight and the answers of `FanOut`
  schedulers.
- **LoRARegistry** and **LoRAUpdates**: the registry as a record; requests,
  load and unload calls and the scheduler that interleave at its `await`s. A
  sub-request ends (`Ends`) in one of four ways: with its last output; with an
  output that carries the 503 of the running timeout; with a plain `AbortReq`
  from the waiting queue; with an `AbortReq` that carries a 503 or 500. The
  task of `_handle_batch_output` releases the first two, `_wait_one_response`,
  if a client still waits there, the second and the fourth, and nobody the
  third. So a sub-request is released once, twice or never (`Releases`); the
  history variables `lost` and `under` keep who was never and who was twice,
  and `under` also who was counted after the adapter was drained.
- **LoRAMemPool** and **LoRABatches**: adapter slots and eviction; the loop that
  fills a batch within them, with loading in the forward stream or overlapped.
- **PrefillDelayer**: all ranks in one pass (the all-gather makes it one step).
- **FutureMap** and **OverlapLoop**: the ring, and every order of prefill, chunk
  and decode batches the loop can launch. The history in it is the owner of
  each stored token.
- **GrammarManager**: a queue and a cache per rank; compilations end, or fail to
  end, independently on each rank; the exchange of ready and failed sets.
- **SessionAwareCache** and **StreamingSessions**: rows, token slots and the
  session's slot; turns, refusals, closes and retractions.
- **MCComponents** and **MCComponentsLive** hold small instances of the modules
  of this second group. They share no state, so one behaviour exercises one of
  them: the variable `part`, chosen at the start, names it, and the others stay
  in their initial states. A step of the composition is a step of that module's
  `Next`. Some modules have two instances with different constants.

A request's tokens are the constant `Full[r]`, prompt and continuation, and only
lengths are state. The model's sampled tokens are thus fixed, but `MayStop`
lets a request stop at any of them. `Bits[r]` is the tagger's result, arbitrary.

Abstractions to know about:

- A forward pass writes its slots when it is launched. GPU streams execute
  passes in launch order, so no later pass sees the difference.
- `new_token_ratio` is not kept; any amount from nothing to all of the running
  requests' remaining tokens may be reserved (`Reserved`).
- `Settled` resets fields of queued and finished requests that are written
  before they are read again, and forgets the contents of free slots. It keeps
  the state space small and changes no behaviour.
- Timeouts of waiting and running requests have the effect of `AbortRequest` in
  `Scheduler`; `TokenizerManager` has the waiting timeout as an action.
- `KVForward` orders the stream: batches run in launch order, one layer a step.
  Requests do not share slots there; sharing is the subject of `CacheSpec`.
- In `TokenizerManager` an abort's status is part of the message (`503` for a
  waiting timeout, plain otherwise); text and metadata of outputs are left out,
  and a request pauses, updates or is aborted at most once.
- `StreamingSessions` has one allocation unit per token and the inner cache is
  `ChunkCache`, which keeps no prefix. A session's row and lengths are what the
  code keeps; logprobs and multimodal features are left out.

## 3. Runs

| Run | Instance | Shows |
|---|---|---|
| `allocator` | pages of 2, 2 pages, 1 INT4 slot, batches of up to 3 tokens, groups of up to 2 frees | accounting, no double grant, nothing stranded, the inductive invariant, refinement of `SlotPool` |
| `cache` | 2 requests that share a prefix, 1 page of 2, 3 INT4 slots | ownership, leak check, read-back, exact locks and sizes, eviction |
| `scheduler` (82,000 states) | both loops, 3 requests, 1 page, 5 INT4 slots, 2 running, chunks of 2, aborts and pauses | nothing raises (`NoRaise`, `NoPrefillOOM`), busy and idle checks, one place per request, room for the chunk, tokens only from complete inputs; no deadlock |
| `pressure` | 2 requests, 3 pages, 5 INT4 slots | `Sound`: retraction down to the last request and its abort leak nothing |
| `liveness` | 3 requests, 1 page, 6 INT4 slots | `Served` |
| `components` | one instance per `part`, below | the safety properties of the second group of modules |
| `components_live` | the same parts with fairness, below | what must come to an end there |
| `prefill_oom`, `abort_evictable`, `stale_full`, `starvation`, `lost_release` | see section 5 | a statement of the repository that the code does not keep |

The parts of `components`, with the distinct states of each. The properties
named are those of the component's module; `MCComponents` gathers them into one
property per component (`TaggerRight`, `KVIntact`, `AdaptersKept`,
`SlotsSuffice`, `RequestsSound`, `CallsSound`, `DelayersAgree`, `RingSuffices`,
`GrammarsAgree`, `SessionsKept`), and mutants of the code break each.

| `part` | Instance | Shows |
|---|---|---|
| `tags` (3,800) | prompts of up to 6 pieces, the built-in policies | every token is tagged as it was meant (`TagsMeanMessages`); a longer prompt never asks for more bits than its cached prefix was stored with (`BitsDrop`) |
| `policies` (850) | all lists of up to 3 rules out of 4 | the first rule that matches wins (`FirstRuleWins`) |
| `kv` (24,000) | requests of 4 and 3 tokens, 2 pages of 2, 4 INT4 slots, 2 layers, 2 batches out, decode padded to 2 | attention reads exactly its request's tokens (`AttendsOwnTokens`); INT2 pages are whole and of one request (`PagesOfOneRequest`) |
| `lock` (400) | 3 readers, 2 writers, cancellation | exact counters (`IInv`), from which `Exclusive` follows (section 4), and `WritersFirst` |
| `adapters` (33,000) | adapters a, b loaded, c to come, at most 2 loaded, 2 requests for a and one for too many, a load and an unload; requests fail and end in every way | an adapter in use is loaded unless a user of it was released twice (`InUseLoaded`); a counter is off by the releases that are missing or too many and by nothing else (`CountersExact`) |
| `lists` (105,000) | the same with 2 requests for a list of 2 adapters each | `InUseLoaded`, but for a list whose adapter was drained between its look-ups and its increments; `CountersExact`; registry and backend agree between updates (`RegistryMatchesBackend`) |
| `slots` (11,000) | 2 slots, 3 adapters (one pinned) and the base model, 4 requests, aborts | `BatchFits`, `SlotForEach`, `BatchResident`, `Evictable`, `KeepsPinned` |
| `loads` (2,800) | the same with overlapped loading, 3 requests | `SlotForEach`; loads keep off the running batch (`KeepsInFlight`) |
| `requests` (153,000) | 2 requests, one streaming; retraction, an abort pause, a weight update | an abort finds its entry (`AbortHasState`), a request ends with its end (`EndsWithEnd`), one version of the weights per answer (`OneVersion`), updates run alone (`SyncsAlone`) |
| `clients` (155,000) | the same with clients that leave, retract and in-place pauses, no update | `AbortHasState` |
| `calls` (2,600) | 4 callers, 2 schedulers | one call in flight (`OneInFlight`), its own answers (`OwnAnswers`), no stray answer (`AnswerExpected`) |
| `delayer` (3,000) | 2 ranks, a limit of 3 passes, 3 arrivals, watermark | ranks agree (`RanksAgree`), the mixed state is bounded (`BoundedWhenMixed`) |
| `ring` (3,500) | 2 running, 4 chunks, prompts of up to 6 pieces | a request reads its own last token (`OwnTokens`), stores stay in the buffer (`InBuffer`) |
| `grammars` (18,000) | 2 ranks, shared, invalid and slow grammars | queues agree (`RanksAgree`), no blocking wait (`NeverBlocks`), one way out (`OnceEach`) |
| `sessions` (132,000) | 2 sessions, 3 requests, 2 rows; clients wait for each answer | rows have one owner (`RowsOwned`), `ContextIntact`, `NothingLeaks` |
| `retracted` (208,000) | 1 session, turns of 1 and 2 tokens, refused turns and retraction | `RowsOwned`, and `ContextIntact` until a turn is refused |

`components_live` (41,000 states) checks `WriterGetsIn` for
the lock without cancellation, `UnloadReturns` for two requests beside a
load and an unload (an unload comes to an end unless releases of its adapter are
missing or too many; requests fail and end in every way), `WaitersRun` for two adapters and the base model that wait
for two slots, `Answered` with an abort, timeouts and an abort pause,
`CallsEnd`, `Prefilled` with DP attention, and `Leaves` for a grammar that may
compile on one rank only. Where callers, ranks or requests are alike the
property is stated for one of them.

**Bounds.** A page of two slots is the smallest that can be freed in part. One
or two pages and a handful of INT4 slots make every shortage happen: INT2
demotion, failing allocation, eviction, retraction, abort. Two requests with a
common prefix are what splitting, duplicate insertion and shared locks need; the
third request of the scheduler runs waits while two run. Chunks of two tokens
cut three-token prompts. `InputReserve` is 1 instead of 5, in proportion. The
pool sizes satisfy the split `TriaxialKVPool.__init__` makes
(`SchedulerAssumption`), and every request is one the server accepts.

For the other modules: six pieces are three turns, or two spans of one
message, or a span or an image after an earlier turn. Two batches out are what the overlapped loop allows. Two
writers and a reader show every order of the lock's queue; two requests let one
hold the update lock while the other is aborted. Three adapters for two slots
force an eviction, a pinned one the refusal. Two ranks can disagree. Four
chunks and two running requests make the ring wrap more than once. All of
`components` has 856,000 distinct states.

**Deadlock** is checked where the system must not stop. `pressure` and the runs
of section 5 turn it off, because there the process can die from the prefill
raise; `NoRaise` says this is the only raise, and `NoPrefillOOM` in `scheduler`,
where the prompts have no more INT4 tokens than the configured share, that the
budget, checked again under the lock, keeps it from happening. In `components` a part may stop
when its requests are used up; `components_live` says what must have happened
before.

**Fairness.** `FairSpec` asks only that the loop keeps going: from `recv` it
launches unless paused, and from `launched` it ends the pass. The loop is a
`while True` that never waits for anything but its own forward pass. Nothing is
assumed of clients, evictions or sampling. Fairness is stated on the change of
`pc`, which only `Schedule` and `Process` make.

For the other modules (in a part that is not exercised nothing has been started,
and no fair action is enabled):

- `RWLock`, `Communicator`, `LoRAUpdates`, `TokenizerManager`: a coroutine that
  can run does run, because the event loop serves its ready queue in order. A
  scheduler answers what it receives, and a request that runs ends (it has a
  length limit). Clients are not assumed to do anything.
- `LoRABatches`: the loop makes passes as long as there is work. From some time
  on every pass visits the whole queue; the loop may break off a pass early for
  lack of memory, which is the subject of `Scheduler`, not of this run.
- `PrefillDelayer`: passes go on, and every rank's running requests finish
  again and again.
- `GrammarManager`: the queue is polled in every pass. Nothing is assumed of
  compilations, which may never end.

`Served` holds when each request fits the budget an idle server has with the
least favourable tree; `starvation` shows what happens beyond that.

Every property has a mutant: a plausible change of the mapped code (a page
recycled one slot early, an unlocked upper half of a split, a decode check of
the total size, a lock not given back...) under which TLC refutes it.

## 4. Proofs

`AllocatorProofs` proves, for every `PAGE > 0` and all numbers of pages and INT4
slots, the type invariant, `ExactAccounting`, `NoDoubleGrant`,
`NothingStranded`, and that `AllocatorSpec` implements `SlotPool`. The only
assumption on sizes is `SizeAssumption`.

None of these is inductive alone. Recycling a page reads `page_free_cnt`, which
none of them mentions. `Consistent(a, U)` says that free lists, counters and
`partial_slots` are determined by the set `U` of slots in use: a page outside
`free_pages2` has exactly as many freed slots as its counter says and fewer
than `PAGE`. `IInv` asserts it for the current state with `U = InUse(alloc)`
and for a saved state with the slots held then. It adds that a group holds no
slot a caller owns, and that slots were only granted since a backup.

The argument:

1. Arithmetic of pages: slots of different pages differ, a page has `PAGE`
   slots, and `k` pages have `k * PAGE` (`PageDivision`, `PageUnique`,
   `SlotOfPage`, `PagesCardinality`).
2. `TakeConsistent` and `ReleaseConsistent`: an allocation and a release lead
   from `Consistent(a, U)` to `Consistent` for `U` with the slots added or
   removed. Release is the long one, as pages may complete.
3. `NextIInv`: one step per action on top of those lemmas.
4. `ConsistentExact` and `ConsistentSafe` give the safety properties.
5. `StepRefines`: each step adds free slots to `InUse`, removes some, or leaves
   it alone, and `ExactAccounting` gives the reported size.

`RWLockProofs` proves, for all finite disjoint sets of readers and writers and
with cancellation, that the lock's counters are exact (`IInv`), that a writer
inside is alone (`Exclusive`), and that no step lets a reader in past a waiting
writer (`WritersFirst`). `Exclusive` is not inductive: `acquire_writer` tests
the counters, not the tasks. `CountsExact` ties `readers` and `waiting_writers`
to the numbers of tasks inside and waiting and `writer_active` to a writer
inside. `ReaderPreserves`, `WriterPreserves` and `CancelPreserves` take one
kind of step each; `NotifyKeeps` says that a notification moves nobody in or
out. The assumption is `RWLockAssumption`.

Only model-checked: everything about the tree, the cache, the scheduler and the
other modules, and liveness. Liveness under fairness and `ENABLED` are outside TLAPS's reach here,
as is induction over recursive data.

## 5. Disagreements found

1. **Prefill can still run out of INT4 slots** (`prefill_oom`).
   `TRIAXIAL_README.md:286-290` gives `admission_size()` as the remedy against
   admitting requests the INT4 region cannot take. It scales free INT4 slots by
   the configured average share, so a prompt tagged mostly INT4 is admitted and
   `alloc_token_slots_triaxial` raises in the scheduler process.
2. **The last request is aborted with INT4 tokens still evictable**
   (`abort_evictable`). `managers/schedule_batch.py:1996` says that "Even the
   last remaining request cannot fit in memory." `check_decode_mem` evicts as
   many tokens as it needs slots; if they are INT2 tokens, no INT4 slot appears
   and evictable INT4 tokens stay in the tree.
3. **`batch_is_full` is more than an optimization** (`stale_full`).
   `managers/schedule_batch.py:1323-1325` calls it one. A request refused on an
   empty server sets it, and it is cleared only when a batch shrinks. After that
   request is aborted, later requests that fit are not tried. Flushing the
   cache does not clear it.
4. **An accepted request can wait forever** (`starvation`). The server accepts
   requests up to `max_req_len`. The budget counts an evictable INT4 token once
   and a free INT4 slot `1 / (1 - int2_fraction)` times, so on an idle server
   with cached tokens it may stay below an accepted request, and nothing evicts.

5. **A request aborted in the waiting queue keeps its adapter**
   (`lost_release`). `lora/lora_registry.py:80` calls the counters "Counters for
   ongoing requests". The scheduler answers the abort with an `AbortReq` without
   status (`managers/scheduler.py:3203`), `_handle_abort_req` does not release,
   and `_wait_one_response` does so only for 500 and 503. The counter stays up,
   and an unload of the adapter waits for ever with `lora_update_lock` held.

`PROJECT.json` quotes the statement each of them contradicts.

The instances of the second group of modules leave out what is listed here;
with the constant named, TLC refutes the property named.

- **An unclosed span swallows the end of its message** (`Conversation`,
  `MayTruncate`, `EndIsScaffold`). The comment at
  `managers/triaxial_tagger.py:217` counts `<|im_end|>` and the newline after it
  as scaffolding; `_mark_span` gives them the span's tag.
- **A cancelled writer leaves readers asleep** (`RWLock`, `MayCancel`,
  `NobodyForgotten`). `utils/aio_rwlock.py:70` lowers the count of waiting
  writers and notifies nobody.
- **A list of adapters is acquired in two steps** (`LoRAUpdates`, `Paths` with
  lists), and an unload in between sees unused adapters
  (`lora/lora_registry.py:145`). `InUseLoaded` excepts such a list; without the
  exception TLC refutes it.
- **A running timeout releases the adapter twice** (`LoRAUpdates`, `Endings`
  with `"timeout"`): the output is released at `managers/tokenizer_manager.py:1684`
  and, as its status is 503, again at line 1230. The counter falls below the
  number of users; an unload then goes ahead under another request
  (`InUseLoaded` without its exception) or waits for ever at minus one
  (`UnloadReturns` without its). The abort of the last request that is out of
  memory (`managers/schedule_batch.py:2003`) is released once: it leaves the
  batch and is reported by an `AbortReq` (`managers/scheduler.py:2617`).
- **A request that fails to tokenize keeps its adapter** (`LoRAUpdates`,
  `MayFail`), and so does one that is refused with 503 or 500 when its client
  has gone (`Endings` with `"refused"`). As in 5, the unload waits for ever;
  `UnloadReturns` excepts it.
- **The load event of an aborted request stays** (`LoRABatches`, `Overlap` and
  `MayAbort`, `WaitersRun`), and its slot counts as taken.
- **The chunked request's adapter is not counted** (`LoRABatches`, `Chunking`,
  `BatchFits`; `managers/scheduler.py:2430`): the batch exceeds the slots and
  the assertion at `lora/lora_manager.py:282` fails.
- **Aborted requests keep their entry** (`TokenizerManager`, `Aborts`,
  `EntriesDeleted`). The table at `managers/tokenizer_manager.py:2571-2582` says
  that `_handle_abort_req` deletes it.
- **A weight update can run beside a request** whose client has gone
  (`TokenizerManager`, `MayDisconnect` and `Updates`, `SyncsAlone`): the lock is
  released before the scheduler has seen the abort.
- **A retract pause cannot flush** (`TokenizerManager`, `FlushCache`,
  `RetractedFlush`), although `managers/io_struct.py:1204` says it can:
  retracted requests wait, and `flush_cache` wants an empty queue.
- **An abort that overtakes an output is undone** (`TokenizerManager`,
  `MayRetract` and `Aborts`, `Answered`; `managers/tokenizer_manager.py:1647`),
  and the request is never answered.
- **A new call slips in before a queued one** (`Communicator`, `TurnIsFree`):
  the assertion at `managers/tokenizer_communicator_mixin.py:114` fails for the
  queued caller.
- **The prefill delay has no limit in a nearly full batch** (`PrefillDelayer`,
  four `Arrivals`, `DelayBounded`), and **without DP attention no end** (`DpAttention = FALSE`,
  `QueueEmpties`), against "Maximum forward passes to delay prefill."
- **Streaming sessions lose or double-free memory** (`StreamingSessions`,
  `NothingLeaks`) when a session is closed during a turn (`MayClose`), a turn is
  sent before the last is answered (`MayOverlap`), a turn is refused
  (`MayReject`), a turn has one token in the overlapped loop (`NewLens` with 1),
  or a session request is retracted (`MayRetract`).

Also met: `TRIAXIAL_README.md` states another default for the
INT2 fraction than `server_args.py`. The comment at `managers/scheduler.py:2377`
says that the row check is ignored while a request is chunked, whereas the code
makes it only then; `RoomForChunk` shows that it never fires.

## 6. Not modelled

- GPU numerics: quantization, rounding, attention kernels, CUDA graph capture.
  `KVPool` models which token is read from where, not its bytes.
- Most of the repository by lines is neither concurrent nor stateful in a way a
  model checker adds to: model definitions, layers, kernels and their
  configuration, multimodal preprocessing, benchmarks, tests, entry-point
  schemas and parsers. The modules here map about 6,600 lines, the control code
  of the parts named above; that is a small share of the whole tree, and is
  expected to stay one.
- Off by default or refused with TriAxialKV, and large enough to need projects
  of their own: hierarchical cache, prefill/decode disaggregation, speculative
  decoding, SWA and mamba caches, diffusion models, pipeline parallelism,
  priority scheduling, `ignore_eos` admission.
- Parallel sampling in `LoRAUpdates`: `_handle_batch_request` then sends one
  more request per prompt, for the common prefix, which is released like the
  others without having been counted.
- Sessions that are not streaming; they hold no memory between turns. The
  watching mode of `_Communicator`, in which callers share one answer.
- Detokenizer and multi-tokenizer workers (they relay in order), the data
  parallel controller (a heuristic that no property depends on), the gateway.

## 7. Plan

Done: the core of section 2 with proofs and refinement for the allocator and the
lock; the front end, adapters, grammars, delayer, ring and sessions checked.

1. The hierarchical cache: write-through and load-back acknowledgements against
   eviction and splits.
2. Disaggregation: bootstrap, transfer and failure of a request on both sides.
3. Scheduler: `ignore_eos` admission, queue limit, priority preemption.
4. An abstract cache (each slot with one owner, each request with its tokens)
   that `CacheSpec` implements, and `Scheduler` shown to follow `CacheSpec`.
5. Proofs: exact sizes and locks of the tree, slot ownership, one call in flight
   in `Communicator`, disjoint intervals of the ring.
