---------------------------- MODULE PrefillDelayer ----------------------------
(***************************************************************************)
(* managers/prefill_delayer.py: before a scheduler admits a prefill, the   *)
(* data-parallel ranks agree whether to run decode for longer instead.     *)
(*                                                                         *)
(* Every rank holds delayer[r] = [count, skip]: how many passes in a row   *)
(* were refused (0: _curr_state is None) and skip_first_delayer.  Ranks    *)
(* meet in an all_gather once per pass, so one action is one pass of all   *)
(* of them.  waiting and running are the numbers of requests; the prefill  *)
(* budget, memory and chunked prefill are left out.                        *)
(***************************************************************************)
EXTENDS Integers, FiniteSets, FiniteSetsExt

CONSTANTS
    Ranks,           \* the ranks that meet in the all_gather
    DpAttention,     \* enable_dp_attention
    DpSize,          \* dp_size
    MaxRunning,      \* max_running_requests of one rank
    MaxDelayPasses,  \* prefill_delayer_max_delay_passes
    Watermark,       \* token_usage_low_watermark is set
    Arrivals         \* bound: requests that arrive at each rank

DelayerAssumption ==
    /\ Ranks # {} /\ IsFiniteSet(Ranks)
    /\ DpSize \in Nat \ {0} /\ MaxRunning \in Nat \ {0} /\ MaxDelayPasses \in Nat \ {0}

\* Bound: counts stop here.  No condition tells larger counts apart.
CountCap == MaxDelayPasses + 2
Bump(count) == Min({count + 1, CountCap})

VARIABLES delayer, max_prefill_bs, waiting, running, arrived, streak

vars == <<delayer, max_prefill_bs, waiting, running, arrived, streak>>

\* streak is a history variable: the passes in a row that refused a prefill.
Init ==
    /\ delayer = [r \in Ranks |-> [count |-> 0, skip |-> TRUE]]
    /\ max_prefill_bs = [r \in Ranks |-> 0]
    /\ waiting = [r \in Ranks |-> 0]
    /\ running = [r \in Ranks |-> 0]
    /\ arrived = [r \in Ranks |-> 0]
    /\ streak = 0

Arrive(r) ==
    /\ arrived[r] < Arrivals
    /\ arrived' = [arrived EXCEPT ![r] = @ + 1]
    /\ waiting' = [waiting EXCEPT ![r] = @ + 1]
    /\ UNCHANGED <<delayer, max_prefill_bs, running, streak>>

------------------------------------------------------------------------------
\* The scheduler reaches add_one_req, and with it the negotiation: a request
\* waits and the running batch is not full.
Prefillable(r) == waiting[r] > 0 /\ running[r] < MaxRunning

\* What rank r puts into the all_gather.  A rank that does not reach
\* add_one_req is asked in finalize, without the arguments.
Info(r, usage_low) ==
    [prefillable |-> Prefillable(r),
     force_allow |-> Prefillable(r) /\ Watermark /\ usage_low[r],
     running_batch |-> IF Prefillable(r) THEN running[r] ELSE 0,
     max_prefill_bs |-> IF Prefillable(r) THEN max_prefill_bs[r] ELSE 0]

Gathered(usage_low) == [r \in Ranks |-> Info(r, usage_low)]

\* Each rank looks at itself only.
prefillable_status_local(info, r) == IF info[r].prefillable THEN "all" ELSE "none"

prefillable_status(info, r) ==
    IF \A q \in Ranks : info[q].prefillable THEN "all"
    ELSE IF \A q \in Ranks : ~info[q].prefillable THEN "none"
    ELSE "mixed"

\* The limit of one rank is divided among the ranks.
Capacity_divided(info, r) == (MaxRunning + DpSize - 1) \div DpSize

\* max_running_requests as the delayer sees it: only a rank that reached
\* add_one_req passes it on.
Capacity(info, r) ==
    LET m == IF info[r].prefillable THEN MaxRunning ELSE 0
    IN IF DpAttention THEN m ELSE (m + DpSize - 1) \div DpSize

\* Running requests leave less room than the largest prefill so far.
Crowded(info, r) ==
    Capacity(info, r) - Max({info[q].running_batch : q \in Ranks})
        < Max({info[q].max_prefill_bs : q \in Ranks})

Allow(st) == [st EXCEPT !.count = 0]
Delay(st) == [st EXCEPT !.count = Bump(@)]

\* The timeout is one pass late.
TimedOut_late(st) == st.count >= MaxDelayPasses

TimedOut(st) == st.count >= MaxDelayPasses - 1

\* The next state of rank r; the pass is refused iff its count is not 0.
negotiate(info, r) ==
    LET st == delayer[r]
        status == prefillable_status(info, r)
    IN CASE status = "none" -> Allow(st)
         [] status = "mixed" ->
               IF (\E q \in Ranks : info[q].force_allow) \/ TimedOut(st)
               THEN Allow(st) ELSE Delay(st)
         [] OTHER ->
               IF ~Crowded(info, r) THEN Allow(st)
               ELSE IF st.skip THEN Allow([st EXCEPT !.skip = FALSE])
               ELSE Delay(st)

Allowed(r) == delayer'[r].count = 0

MaxPrefill(old, n) == Max({old, n})

\* One pass of get_new_batch_prefill on every rank.  A rank that may prefill
\* takes n requests; otherwise its running requests decode, and f finish.
Pass ==
    /\ \E r \in Ranks : waiting[r] + running[r] > 0
    /\ \E usage_low \in (IF Watermark THEN [Ranks -> BOOLEAN] ELSE {[r \in Ranks |-> FALSE]}) :
          delayer' = [r \in Ranks |-> negotiate(Gathered(usage_low), r)]
    /\ streak' = IF \A r \in Ranks : Allowed(r) THEN 0 ELSE Bump(streak)
    /\ \E n, f \in [Ranks -> 0..MaxRunning] :
          /\ \A r \in Ranks :
                IF Prefillable(r) /\ Allowed(r)
                THEN n[r] \in 1..waiting[r] /\ n[r] + running[r] <= MaxRunning /\ f[r] = 0
                ELSE n[r] = 0 /\ f[r] <= running[r]
          /\ waiting' = [r \in Ranks |-> waiting[r] - n[r]]
          /\ running' = [r \in Ranks |-> running[r] + n[r] - f[r]]
          /\ max_prefill_bs' = [r \in Ranks |-> MaxPrefill(max_prefill_bs[r], n[r])]
    /\ UNCHANGED arrived

Next == Pass \/ \E r \in Ranks : Arrive(r)

Spec == Init /\ [][Next]_vars

\* The scheduler's loop goes on, and a running request does not run for ever
\* (arrivals are bounded, so every rank runs empty again and again).
Fairness ==
    /\ WF_vars(Pass)
    /\ \A r \in Ranks : []<>(running[r] = 0)

LiveSpec == Spec /\ Fairness

------------------------------------------------------------------------------
\* Ranks never disagree about a pass: their states are equal after every
\* negotiation.  A rank that prefilled alone would leave the others in a
\* different collective.
RanksAgree == \A q, r \in Ranks : delayer[q] = delayer[r]

\* While some rank has nothing to prefill, the others are refused at most
\* max_delay_passes - 1 passes in a row, however the statuses alternate.
BoundedWhenMixed ==
    streak' > 0 /\ arrived' = arrived =>
        \/ \A r \in Ranks : Prefillable(r)
        \/ streak' <= MaxDelayPasses - 1

\* "Maximum forward passes to delay prefill."
DelayBounded == streak <= MaxDelayPasses

\* A waiting request is prefilled.
QueueEmpties(r) == waiting[r] > 0 ~> waiting[r] = 0

===============================================================================
