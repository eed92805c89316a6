-------------------------- MODULE MCComponentsLive --------------------------
(***************************************************************************)
(* What the components of MCComponents bring to an end, under the fairness *)
(* each of them states.  In a component that the behaviour is not about no *)
(* fair action is enabled: nothing has been started there.                 *)
(***************************************************************************)
EXTENDS MCComponents

\* Two requests for an adapter each, while one adapter is loaded and one is
\* unloaded.
LoRALive == INSTANCE LoRAUpdates WITH
  Paths <- "r1" :> <<"a">> @@ "r2" :> <<"b">>,
  Calls <- AdminCalls, InitNames <- <<"a", "b">>, Pinned <- {"c"},
  MaxLoaded <- 2, MaxPinned <- 1, Endings <- {"output", "timeout", "abort", "refused"},
  MayFail <- TRUE, pc <- lora_pc, ids <- lora_ids

\* Two adapters and the base model wait for two slots.
LoadsLive == INSTANCE LoRABatches WITH
  MaxLoras <- 2, Policy <- "lru", Adapters <- {ref \in ABC : ~ref.pinned},
  Uses <- "r1" :> "a" @@ "r2" :> "b" @@ "r3" :> "None",
  Overlap <- TRUE, Chunking <- FALSE, MayAbort <- FALSE, Fair <- TRUE, gone <- unloaded

\* Aborts, timeouts and a pause.
TokLive == INSTANCE TokenizerManager WITH
  Rids <- {"r1", "r2"}, Streams <- {"r2"}, MaxParts <- 1, PauseModes <- {"abort"},
  Updates <- FALSE, FlushCache <- FALSE, MayDisconnect <- FALSE, MayRetract <- FALSE,
  MayTimeout <- TRUE, Aborts <- {"r1"}, pc <- tok_pc

\* Without the watermark, which would let a rank prefill by itself.
DelLive == INSTANCE PrefillDelayer WITH
  Ranks <- {1, 2}, DpAttention <- TRUE, DpSize <- 2, MaxRunning <- 2, MaxDelayPasses <- 3,
  Watermark <- FALSE, Arrivals <- 3, waiting <- rank_waiting, running <- rank_running

\* One request, whose grammar may be compiled on one rank only.
GramLive == INSTANCE GrammarManager WITH
  Ranks <- {1, 2}, Key <- "a" :> "good", Invalid <- {}, MaxPolls <- 3

ASSUME LiveInstanceAssumptions ==
  /\ LoRALive!LoRAUpdatesAssumption /\ LoadsLive!LoRABatchesAssumption
  /\ TokLive!TokenizerAssumption /\ DelLive!DelayerAssumption /\ GramLive!GrammarAssumption

-----------------------------------------------------------------------------
LiveParts == {"lock", "adapters", "loads", "requests", "calls", "delayer", "grammars"}

LiveInit ==
  /\ part \in LiveParts
  /\ Conv!Init /\ policy = Tg!default_policy
  /\ KV!Init /\ Ring!Init /\ Sess!Init
  /\ Init
  /\ LoRALive!Init
  /\ LoadsLive!Init
  /\ TokLive!Init
  /\ Com!Init
  /\ DelLive!Init
  /\ GramLive!Init

LiveNext ==
  /\ UNCHANGED <<part, convVars, kvVars, ringVars, sessVars>>
  /\ Lock
  /\ IF part = "adapters" THEN LoRALive!Next ELSE UNCHANGED loraVars
  /\ IF part = "loads" THEN LoadsLive!Next ELSE UNCHANGED slotVars
  /\ IF part = "requests" THEN TokLive!Next ELSE UNCHANGED tokVars
  /\ CallsStep
  /\ IF part = "delayer" THEN DelLive!Next ELSE UNCHANGED delVars
  /\ IF part = "grammars" THEN GramLive!Next ELSE UNCHANGED gramVars

LiveSpec ==
  /\ LiveInit /\ [][LiveNext]_allvars
  /\ Fairness
  /\ LoRALive!Fairness
  /\ LoadsLive!Fairness
  /\ TokLive!Fairness
  /\ Com!Fairness
  /\ DelLive!Fairness
  /\ GramLive!Fairness

-----------------------------------------------------------------------------
\* An unload is not kept waiting for ever (wait_for_unload).
UnloadReturns == LoRALive!UnloadReturns

\* A request whose adapter is not in a slot is admitted
\* (try_overlap_load_lora).
WaitersRun == LoadsLive!WaitersRun

\* Every request is answered, through timeouts, aborts and a pause
\* (generate_request).
Answered == TokLive!Answered

\* Every call of a communicator ends (queueing_call); the callers are alike.
CallsEnd == Com!CallEnds("a")

\* A waiting request is prefilled, whatever the ranks negotiate
\* (_negotiate_should_allow_prefill); the ranks are alike.
Prefilled == DelLive!QueueEmpties(1)

\* A grammar that never compiles does not keep its request (grammar_queue).
Leaves == GramLive!Leaves("a")

=============================================================================
