---------------------------- MODULE MCComponents ----------------------------
(***************************************************************************)
(* Small instances of the components that do not share state, checked side *)
(* by side.  part names the component a behaviour is about; the others     *)
(* stay in their initial states.  Two instances of one component use the   *)
(* same variables.  RWLock is extended, the others are instantiated.       *)
(***************************************************************************)
EXTENDS RWLock, Sequences, SequencesExt

VARIABLES
  part,
  ids, meaning, role, span, policy, pieces,                   \* Conversation
  alloc, row, kv_done, stream, kv_pool, cached,               \* KVForward
  g, cache, queue, channel, backend, lora_pc, todo, target,   \* LoRAUpdates
  lora_ids, ongoing, releases, lost, under, nextid,
  pool, refs, unloaded, waiting, running, chunked, loading,   \* LoRABatches
  batch, done, raised, turn,
  tok_pc, state, rid_to_state, gone, later, toAbort, pause,   \* TokenizerManager
  updater, toSched, fromDetok, direct, sched,
  comm, call_pc, waitsFor, fired, got, inbox, answers,        \* Communicator
  delayer, max_prefill_bs, rank_waiting, rank_running,        \* PrefillDelayer
  arrived, streak,
  future_ct, token_ids_buf, decoding, last, chunk, resolved,  \* OverlapLoop
  rank, compiled, received, blocked,                          \* GrammarManager
  mem, session, req                                           \* StreamingSessions

convVars == <<ids, meaning, role, span, policy, pieces>>
kvVars == <<alloc, row, kv_done, stream, kv_pool, cached>>
loraVars == <<g, cache, queue, channel, backend, lora_pc, todo, target, lora_ids, ongoing, releases, lost, under, nextid>>
slotVars == <<pool, refs, unloaded, waiting, running, chunked, loading, batch, done, raised, turn>>
tokVars == <<tok_pc, state, rid_to_state, gone, later, toAbort, pause, updater, toSched, fromDetok, direct, sched>>
comVars == <<comm, call_pc, waitsFor, fired, got, inbox, answers>>
delVars == <<delayer, max_prefill_bs, rank_waiting, rank_running, arrived, streak>>
ringVars == <<future_ct, token_ids_buf, decoding, last, chunk, resolved>>
gramVars == <<rank, compiled, received, blocked>>
sessVars == <<mem, session, req>>

-----------------------------------------------------------------------------
\* Prompts under the built-in policies, and every short list of rules that
\* overlap on some axes.
Tg == INSTANCE Tagger

SomeRules ==
  {Tg!Rule(Tg!AnyT, Tg!AnyM, {"user", "obs"}, 2),
   Tg!Rule({"current"}, Tg!AnyM, Tg!AnyS, 4),
   Tg!Rule({"current", "m1"}, {"image"}, Tg!AnyS, 2),
   Tg!Rule(Tg!AnyT, Tg!AnyM, Tg!AnyS, 4)}

Conv == INSTANCE Conversation WITH
  Policies <- {Tg!default_policy, Tg!current_int4}, MaxPieces <- 6, MayTruncate <- FALSE

Pol == INSTANCE Conversation WITH
  Policies <- {[Tg!Uniform(b) EXCEPT !.rules = r] : b \in {2, 4}, r \in BoundedSeq(SomeRules, 3)},
  MaxPieces <- 1, MayTruncate <- FALSE

\* Two requests with a page each; the first has an INT4 token in between.
KV == INSTANCE KVForward WITH
  PAGE <- 2, NumPages <- 2, NumInt4 <- 4, Layers <- 2, Reqs <- {"r1", "r2"},
  Bits <- [r \in {"r1", "r2"} |-> IF r = "r1" THEN <<2, 4, 2>> ELSE <<2, 2>>],
  MaxLen <- [r \in {"r1", "r2"} |-> IF r = "r1" THEN 4 ELSE 3],
  MaxChunk <- 3, GraphBS <- 2, MaxOut <- 2,
  done <- kv_done, pool <- kv_pool

\* Two adapters fit; a third is loaded on top of them and one is unloaded while
\* requests come in, for one adapter (and one for too many) or, in Lists, for
\* two.  They end in every way.
AdminCalls ==
  "x1" :> [op |-> "load", name |-> "c"] @@ "x2" :> [op |-> "unload", name |-> "a"]

LoRA == INSTANCE LoRAUpdates WITH
  Paths <- "r1" :> <<"a">> @@ "r2" :> <<"a">> @@ "r3" :> <<"a", "b", "c">>,
  Calls <- AdminCalls, InitNames <- <<"a", "b">>, Pinned <- {"c"},
  MaxLoaded <- 2, MaxPinned <- 1, Endings <- {"output", "timeout", "abort", "refused"},
  MayFail <- TRUE, pc <- lora_pc, ids <- lora_ids

Lists == INSTANCE LoRAUpdates WITH
  Paths <- "r1" :> <<"a", "b">> @@ "r2" :> <<"c", "a">>,
  Calls <- AdminCalls, InitNames <- <<"a", "b">>, Pinned <- {"c"},
  MaxLoaded <- 2, MaxPinned <- 1, Endings <- {"output", "timeout", "abort", "refused"},
  MayFail <- TRUE, pc <- lora_pc, ids <- lora_ids

\* Two slots for three adapters, one of them pinned, and the base model.
ABC == {[id |-> "a", pinned |-> FALSE], [id |-> "b", pinned |-> FALSE],
        [id |-> "c", pinned |-> TRUE]}

Slots == INSTANCE LoRABatches WITH
  MaxLoras <- 2, Policy <- "lru", Adapters <- ABC,
  Uses <- "r1" :> "a" @@ "r2" :> "b" @@ "r3" :> "None" @@ "r4" :> "c",
  Overlap <- FALSE, Chunking <- FALSE, MayAbort <- TRUE, Fair <- FALSE, gone <- unloaded

Loads == INSTANCE LoRABatches WITH
  MaxLoras <- 2, Policy <- "lru", Adapters <- ABC,
  Uses <- "r1" :> "a" @@ "r2" :> "b" @@ "r3" :> "c",
  Overlap <- TRUE, Chunking <- FALSE, MayAbort <- FALSE, Fair <- FALSE, gone <- unloaded

\* Two requests, one streaming; in Gone their clients may go away.
Tok == INSTANCE TokenizerManager WITH
  Rids <- {"r1", "r2"}, Streams <- {"r2"}, MaxParts <- 1, PauseModes <- {"abort"},
  Updates <- TRUE, FlushCache <- FALSE, MayDisconnect <- FALSE, MayRetract <- TRUE,
  MayTimeout <- FALSE, Aborts <- {}, pc <- tok_pc

Gone == INSTANCE TokenizerManager WITH
  Rids <- {"r1", "r2"}, Streams <- {"r2"}, MaxParts <- 1, PauseModes <- {"retract", "in_place"},
  Updates <- FALSE, FlushCache <- FALSE, MayDisconnect <- TRUE, MayRetract <- FALSE,
  MayTimeout <- FALSE, Aborts <- {}, pc <- tok_pc

\* Four callers and two schedulers.
Com == INSTANCE Communicator WITH
  Callers <- {"a", "b", "c", "d"}, FanOut <- 2, pc <- call_pc

\* Two ranks.
Del == INSTANCE PrefillDelayer WITH
  Ranks <- {1, 2}, DpAttention <- TRUE, DpSize <- 2, MaxRunning <- 3, MaxDelayPasses <- 3,
  Watermark <- TRUE, Arrivals <- 3, waiting <- rank_waiting, running <- rank_running

\* Two requests run, and prompts have up to six pieces.
Ring == INSTANCE OverlapLoop WITH
  MaxRunning <- 2, MaxChunks <- 4, Reqs <- {"a", "b"}, Pieces <- 6, None <- "None",
  running <- decoding, chunked <- chunk

\* Two requests share a grammar, the third one does not compile.
Gram == INSTANCE GrammarManager WITH
  Ranks <- {1, 2}, Key <- "a" :> "good" @@ "b" :> "good" @@ "c" :> "bad", Invalid <- {"bad"},
  MaxPolls <- 1

\* Two sessions whose clients wait for answers; in Retracted one session, with
\* refused turns and retraction.
Sess == INSTANCE StreamingSessions WITH
  NumRows <- 2, NumKV <- 14, Sessions <- {"s", "t"}, Reqs <- 1..3, NewLens <- {2}, MaxOut <- 2,
  Overlap <- TRUE, MayOverlap <- FALSE, MayClose <- FALSE, MayRetract <- FALSE, MayReject <- FALSE

Retracted == INSTANCE StreamingSessions WITH
  NumRows <- 2, NumKV <- 20, Sessions <- {"s"}, Reqs <- 1..3, NewLens <- {1, 2}, MaxOut <- 2,
  Overlap <- TRUE, MayOverlap <- FALSE, MayClose <- FALSE, MayRetract <- TRUE, MayReject <- TRUE

ASSUME InstanceAssumptions ==
  /\ Conv!ConversationAssumption /\ Pol!ConversationAssumption
  /\ KV!SizeAssumption /\ KV!KVForwardAssumption
  /\ LoRA!LoRAUpdatesAssumption /\ Lists!LoRAUpdatesAssumption
  /\ Slots!LoRABatchesAssumption /\ Loads!LoRABatchesAssumption
  /\ Tok!TokenizerAssumption /\ Gone!TokenizerAssumption
  /\ Com!CommunicatorAssumption /\ Del!DelayerAssumption
  /\ Ring!FutureMapAssumption /\ Ring!PiecesAssumption /\ Gram!GrammarAssumption

-----------------------------------------------------------------------------
Parts ==
  {"tags", "policies", "kv", "lock", "adapters", "lists", "slots", "loads", "requests", "clients",
   "calls", "delayer", "ring", "grammars", "sessions", "retracted"}

MCInit ==
  /\ part \in Parts
  /\ IF part = "policies" THEN Pol!Init
     ELSE Conv!Init /\ (part # "tags" => policy = Tg!default_policy)
  /\ KV!Init
  /\ Init
  /\ IF part = "lists" THEN Lists!Init ELSE LoRA!Init
  /\ Slots!Init
  /\ IF part = "clients" THEN Gone!Init ELSE Tok!Init
  /\ Com!Init
  /\ Del!Init
  /\ Ring!Init
  /\ Gram!Init
  /\ IF part = "retracted" THEN Retracted!Init ELSE Sess!Init

\* A component moves when the behaviour is about it.
Tags == IF part = "tags" THEN Conv!Next ELSE IF part = "policies" THEN Pol!Next
        ELSE UNCHANGED convVars
Forward == IF part = "kv" THEN KV!Next ELSE UNCHANGED kvVars
Lock == IF part = "lock" THEN Next ELSE UNCHANGED vars
Adapters == IF part = "adapters" THEN LoRA!Next ELSE IF part = "lists" THEN Lists!Next
            ELSE UNCHANGED loraVars
AdapterSlots == IF part = "slots" THEN Slots!Next ELSE IF part = "loads" THEN Loads!Next
                ELSE UNCHANGED slotVars
Requests == IF part = "requests" THEN Tok!Next ELSE IF part = "clients" THEN Gone!Next
            ELSE UNCHANGED tokVars
CallsStep == IF part = "calls" THEN Com!Next ELSE UNCHANGED comVars
Delayer == IF part = "delayer" THEN Del!Next ELSE UNCHANGED delVars
Futures == IF part = "ring" THEN Ring!Next ELSE UNCHANGED ringVars
Grammars == IF part = "grammars" THEN Gram!Next ELSE UNCHANGED gramVars
SessionsStep == IF part = "sessions" THEN Sess!Next ELSE IF part = "retracted" THEN Retracted!Next
                ELSE UNCHANGED sessVars

MCNext ==
  /\ UNCHANGED part
  /\ Tags /\ Forward /\ Lock /\ Adapters /\ AdapterSlots /\ Requests
  /\ CallsStep /\ Delayer /\ Futures /\ Grammars /\ SessionsStep

allvars ==
  <<part, convVars, kvVars, vars, loraVars, slotVars, tokVars, comVars, delVars,
    ringVars, gramVars, sessVars>>

MCSpec == MCInit /\ [][MCNext]_allvars

-----------------------------------------------------------------------------
\* One property for each component; their parts are stated and explained in
\* the components' modules.  RWLock's are checked under their own names.

\* Every token is tagged as it was meant, the policy table holds the first rule
\* that matches, and no token asks for more bits later than it was stored with
\* (tag, TriaxialPolicy, bits).
TaggerRight ==
  /\ [](part = "tags" => Conv!TagsMeanMessages)
  /\ [](part = "policies" => Pol!FirstRuleWins)
  /\ [][part = "tags" => Conv!BitsDrop]_convVars

\* Attention reads the tokens of its request, all and in order, and INT2 pages
\* are written whole, by one request, in order (forward_extend, forward_decode,
\* _grouping).
KVIntact == part = "kv" => KV!AttendsOwnTokens /\ KV!PagesOfOneRequest

\* What the scheduler works on is loaded there, an adapter's counter is the
\* number of its users, up to the releases that are missing or too many, and
\* between updates the registry and the scheduler agree (_unload_lora_adapter_locked, acquire, release, load_lora_adapter).
AdaptersKept ==
  /\ part = "adapters" => LoRA!InUseLoaded /\ LoRA!CountersExact
  /\ part = "lists" => Lists!InUseLoaded /\ Lists!CountersExact /\ Lists!RegistryMatchesBackend

\* A batch has no more adapters than slots, a slot is found for each of them
\* and they are in their slots while it runs; pinned adapters keep their slots,
\* and a load takes none of the batch that runs (fetch_new_loras,
\* prepare_lora_batch, get_available_buffer_slot, _try_start_overlap_load).
SlotsSuffice ==
  /\ [](part = "slots" =>
          Slots!BatchFits /\ Slots!SlotForEach /\ Slots!BatchResident /\ Slots!Evictable)
  /\ [](part = "loads" => Loads!SlotForEach)
  /\ [][part = "slots" => Slots!KeepsPinned]_slotVars
  /\ [][part = "loads" => Loads!KeepsInFlight]_slotVars

\* An abort message finds the entry it is for, a request that ends has received
\* its end, its outputs come from one version of the weights, and weights
\* change only when the scheduler has no request (_handle_abort_req,
\* _wait_one_response, update_weights_from_disk, model_update_lock).
RequestsSound ==
  /\ [](part = "requests" => Tok!AbortHasState /\ Tok!EndsWithEnd /\ Tok!OneVersion)
  /\ [](part = "clients" => Gone!AbortHasState)
  /\ [][part = "requests" => Tok!SyncsAlone]_tokVars

\* One call is in flight at a time, a caller gets the answers to its own
\* message, and an answer always belongs to a conversation (queueing_call,
\* handle_recv).
CallsSound == part = "calls" => Com!OneInFlight /\ Com!OwnAnswers /\ Com!AnswerExpected

\* Ranks agree about every pass, and a mixed state delays no longer than the
\* limit (_negotiate_should_allow_prefill, max_delay_passes).
DelayersAgree ==
  /\ [](part = "delayer" => Del!RanksAgree)
  /\ [][part = "delayer" => Del!BoundedWhenMixed]_delVars

\* A request reads back the token it sampled last, and no store leaves the
\* ring's buffer (resolve_future, store_to_map).
RingSuffices == part = "ring" => Ring!OwnTokens /\ Ring!InBuffer

\* Ranks keep the same grammar queues, none waits for a compilation, and a
\* request takes one way out of the queue (get_ready_grammar_requests).
GrammarsAgree == part = "grammars" => Gram!RanksAgree /\ Gram!NeverBlocks /\ Gram!OnceEach

\* A row has one owner; a session's request attends to its own context, through
\* retraction and short turns; and with clients that wait for answers an idle
\* scheduler has lost no row and no location (SessionSlot,
\* release_kv_cache, match_prefix, check_memory).
SessionsKept ==
  /\ part = "sessions" => Sess!RowsOwned /\ Sess!ContextIntact /\ Sess!NothingLeaks
  /\ part = "retracted" => Retracted!RowsOwned /\ Retracted!ContextIntactUnrefused

=============================================================================
