--------------------------- MODULE TokenizerManager ---------------------------
(***************************************************************************)
(* The life of a request between three processes: TokenizerManager         *)
(* (managers/tokenizer_manager.py), the scheduler as the tokenizer sees it *)
(* (abort, pause, weight update: managers/scheduler.py), and the           *)
(* detokenizer that relays outputs.                                        *)
(*                                                                         *)
(* Three channels, each first in first out: requests, aborts and control   *)
(* messages to the scheduler; outputs, which pass through the detokenizer; *)
(* and aborts and results, which the scheduler sends to the tokenizer      *)
(* directly, so that they may overtake outputs sent before them.           *)
(*                                                                         *)
(* Coroutines run from one suspension to the next.  A message is handled   *)
(* without a suspension, and several may be before a coroutine that they   *)
(* woke runs again.                                                        *)
(***************************************************************************)
EXTENDS Integers, Sequences, SequencesExt, FiniteSets

CONSTANTS
    Rids,         \* request ids
    Streams,      \* the streaming requests
    MaxParts,     \* bound: unfinished outputs of a request
    PauseModes,   \* modes pause_generation is called with
    Updates,      \* may update_weights_from_disk be called?
    FlushCache,   \* its flush_cache
    MayDisconnect,\* may clients go away?
    MayRetract,   \* may the scheduler retract running requests?
    MayTimeout,   \* may a waiting request time out (SGLANG_REQ_WAITING_TIMEOUT)?
    Aborts        \* requests for which /abort_request is called

TokenizerAssumption ==
    /\ Streams \subseteq Rids /\ Aborts \subseteq Rids
    /\ MaxParts \in Nat
    /\ PauseModes \subseteq {"abort", "retract", "in_place"}
    /\ {Updates, FlushCache, MayDisconnect, MayRetract, MayTimeout} \subseteq BOOLEAN

VARIABLES
    pc,           \* generate_request of each request
    state,        \* ReqState of each request
    rid_to_state, \* the requests that have an entry
    gone,         \* clients that went away
    later,        \* abort tasks that still sleep (create_abort_task)
    toAbort,      \* /abort_request calls still to come
    pause,        \* [on: is_pause, pauser: state of pause_generation]
    updater,      \* state of update_weights_from_disk
    toSched, fromDetok, direct,  \* the channels
    sched         \* the scheduler: see Idle

tok == <<pc, state, rid_to_state, gone, later, toAbort>>
ctl == <<pause, updater>>
chans == <<toSched, fromDetok, direct>>
vars == <<pc, state, rid_to_state, gone, later, toAbort, pause, updater,
          toSched, fromDetok, direct, sched>>

Msg(t, r) == [t |-> t, r |-> r]
All == "*"

\* waiting: waiting_queue; running: running_batch, still generating; ended:
\* finished requests not yet filtered out of running_batch; marked: to_finish
\* is set; weights: their version; crashed: an assertion failed.
Idle == [waiting |-> {}, running |-> {}, ended |-> {}, marked |-> {},
         paused |-> "no", weights |-> 0, parts |-> [r \in Rids |-> 0],
         retracted |-> {}, crashed |-> FALSE]

\* out: the last output not yet drained; vers: versions of the weights behind
\* what was received.
NewState == [out |-> "none", finished |-> FALSE, event |-> FALSE, vers |-> {}, got |-> "none"]

Init ==
    /\ pc = [r \in Rids |-> "new"]
    /\ state = [r \in Rids |-> NewState]
    /\ rid_to_state = {}
    /\ gone = {}
    /\ later = {}
    /\ toAbort = Aborts
    /\ pause = [on |-> FALSE, pauser |-> "idle"]
    /\ updater = "idle"
    /\ toSched = <<>>
    /\ fromDetok = <<>>
    /\ direct = <<>>
    /\ sched = Idle

Send(m) == toSched' = Append(toSched, m)

------------------------------------------------------------------------------
\* generate_request.  model_update_lock is an RWLock: its readers are the
\* requests past it, its writer the updater.

UnderLock == {r \in Rids : pc[r] \in {"tokenize", "wait", "yielded"}}

ReaderMustWait == updater \in {"waiting", "sent"}

\* The entry exists before the request waits for the end of a pause.
generate_request(r) ==
    /\ pc[r] = "new"
    /\ pc' = [pc EXCEPT ![r] = "pause"]
    /\ rid_to_state' = rid_to_state \cup {r}
    /\ UNCHANGED <<state, gone, later, toAbort, ctl, chans, sched>>

\* pause_generation holds the condition while it aborts requests.
PauseCondFree == pause.pauser # "aborting"

PastPause(r) ==
    /\ pc[r] = "pause"
    /\ PauseCondFree /\ ~pause.on
    /\ pc' = [pc EXCEPT ![r] = IF ReaderMustWait THEN "lock" ELSE "tokenize"]
    /\ UNCHANGED <<state, rid_to_state, gone, later, toAbort, ctl, chans, sched>>

PastLock(r) ==
    /\ pc[r] = "lock"
    /\ ~ReaderMustWait
    /\ pc' = [pc EXCEPT ![r] = "tokenize"]
    /\ UNCHANGED <<state, rid_to_state, gone, later, toAbort, ctl, chans, sched>>

_send_one_request(r) ==
    /\ pc[r] = "tokenize"
    /\ pc' = [pc EXCEPT ![r] = "wait"]
    /\ Send(Msg("gen", r))
    /\ UNCHANGED <<state, rid_to_state, gone, later, toAbort, ctl, fromDetok, direct, sched>>

\* abort_request sends nothing for a request without an entry.
abort_request(r) ==
    IF r \in rid_to_state THEN Send(Msg("abort", r)) ELSE UNCHANGED toSched

\* _wait_one_response, woken by the event.  A finished request ends: an abort
\* with status 503 or 500 removes the entry and raises; a normal result of a
\* request that does not stream is yielded, and the generator holds the lock
\* until it is closed.  An unfinished one goes on, unless its client is gone
\* (type 3).
Drain(r) ==
    LET s == state[r]
        drained == [s EXCEPT !.out = "none", !.event = FALSE, !.got = s.out]
        type3 == ~s.finished /\ r \notin Streams /\ r \in gone
    IN  /\ pc[r] = "wait" /\ s.event
        /\ state' = [state EXCEPT ![r] = drained]
        /\ pc' = [pc EXCEPT ![r] =
                     CASE s.finished /\ (s.out = "503" \/ r \in Streams) -> "done"
                       [] s.finished /\ s.out # "503" /\ r \notin Streams -> "yielded"
                       [] ~s.finished /\ type3 -> "raised"
                       [] OTHER -> "wait"]
        /\ rid_to_state' = IF s.finished /\ s.out = "503" THEN rid_to_state \ {r}
                           ELSE rid_to_state
        /\ IF type3 THEN abort_request(r) ELSE UNCHANGED toSched
        /\ UNCHANGED <<gone, later, toAbort, ctl, fromDetok, direct, sched>>

\* The wait times out and the client is gone (type 1).
TimedOut(r) ==
    /\ pc[r] = "wait" /\ ~state[r].event /\ r \in gone
    /\ pc' = [pc EXCEPT ![r] = "raised"]
    /\ abort_request(r)
    /\ UNCHANGED <<state, rid_to_state, gone, later, toAbort, ctl, fromDetok, direct, sched>>

\* The generator that yielded the result is closed by its finalizer.
Close(r) ==
    /\ pc[r] = "yielded"
    /\ pc' = [pc EXCEPT ![r] = "done"]
    /\ UNCHANGED <<state, rid_to_state, gone, later, toAbort, ctl, chans, sched>>

Disconnect(r) ==
    /\ MayDisconnect
    /\ pc[r] = "wait" /\ r \notin gone
    /\ gone' = gone \cup {r}
    /\ UNCHANGED <<pc, state, rid_to_state, later, toAbort, ctl, chans, sched>>

\* The response of a streaming request is cancelled; its background task
\* aborts the request two seconds later.
StreamClosed(r) ==
    /\ r \in Streams \cap gone
    /\ pc[r] = "wait"
    /\ pc' = [pc EXCEPT ![r] = "raised"]
    /\ later' = later \cup {r}
    /\ UNCHANGED <<state, rid_to_state, gone, toAbort, ctl, chans, sched>>

create_abort_task(r) ==
    /\ r \in later
    /\ later' = later \ {r}
    /\ abort_request(r)
    /\ UNCHANGED <<pc, state, rid_to_state, gone, toAbort, ctl, fromDetok, direct, sched>>

\* POST /abort_request
AbortCall(r) ==
    /\ r \in toAbort
    /\ toAbort' = toAbort \ {r}
    /\ abort_request(r)
    /\ UNCHANGED <<pc, state, rid_to_state, gone, later, ctl, fromDetok, direct, sched>>

------------------------------------------------------------------------------
\* What the tokenizer receives.

\* An entry that was aborted stays finished.
_handle_batch_output_sticky(m) ==
    IF m.r \notin rid_to_state THEN UNCHANGED <<state, rid_to_state>>
    ELSE /\ state' = [state EXCEPT ![m.r].out = m.t, ![m.r].event = TRUE,
                                   ![m.r].finished = @ \/ m.t = "final",
                                   ![m.r].vers = @ \cup {m.v}]
         /\ rid_to_state' = IF m.t = "final" THEN rid_to_state \ {m.r} ELSE rid_to_state

\* The entry goes with the first output.
_handle_batch_output_once(m) ==
    /\ state' = [state EXCEPT ![m.r].out = m.t, ![m.r].event = TRUE,
                              ![m.r].finished = m.t = "final"]
    /\ rid_to_state' = rid_to_state \ {m.r}

\* An output for a request without an entry is dropped.
_handle_batch_output(m) ==
    IF m.r \notin rid_to_state THEN UNCHANGED <<state, rid_to_state>>
    ELSE /\ state' = [state EXCEPT ![m.r].out = m.t, ![m.r].event = TRUE,
                                   ![m.r].finished = m.t = "final",
                                   ![m.r].vers = @ \cup {m.v}]
         /\ rid_to_state' = IF m.t = "final" THEN rid_to_state \ {m.r} ELSE rid_to_state

\* The coroutine that waits is not woken.
_handle_abort_req_quiet(m) ==
    state' = [state EXCEPT ![m.r].out = m.t, ![m.r].finished = TRUE]

\* The entry stays.
_handle_abort_req(m) ==
    state' = [state EXCEPT ![m.r].out = m.t, ![m.r].finished = TRUE, ![m.r].event = TRUE]

ReceiveOutput ==
    /\ fromDetok # <<>>
    /\ _handle_batch_output(Head(fromDetok))
    /\ fromDetok' = Tail(fromDetok)
    /\ UNCHANGED <<pc, gone, later, toAbort, ctl, toSched, direct, sched>>

ReceiveAbort ==
    /\ direct # <<>> /\ Head(direct).t # "updated"
    /\ _handle_abort_req(Head(direct))
    /\ direct' = Tail(direct)
    /\ UNCHANGED <<pc, rid_to_state, gone, later, toAbort, ctl, toSched, fromDetok, sched>>

------------------------------------------------------------------------------
\* Pausing and updating the weights.

Locked == UnderLock # {} \/ updater = "sent"

\* Called once (bound).
pause_generation(mode) ==
    /\ mode \in PauseModes
    /\ pause.pauser = "idle"
    /\ pause' = [on |-> TRUE, pauser |-> IF mode = "abort" THEN "aborting" ELSE mode]
    /\ IF mode = "abort" THEN UNCHANGED toSched ELSE Send(Msg("pause", mode))
    /\ UNCHANGED <<tok, updater, fromDetok, direct, sched>>

\* One turn of the loop, once a second (bound: not before the last abort was
\* received).
AbortAll ==
    /\ pause.pauser = "aborting"
    /\ Msg("abort", All) \notin Range(toSched)
    /\ Send(Msg("abort", All))
    /\ pause' = [pause EXCEPT !.pauser = IF Locked THEN @ ELSE "abort"]
    /\ UNCHANGED <<tok, updater, fromDetok, direct, sched>>

continue_generation ==
    /\ pause.on /\ PauseCondFree
    /\ pause' = [pause EXCEPT !.on = FALSE]
    /\ Send(Msg("continue", All))
    /\ UNCHANGED <<tok, updater, fromDetok, direct, sched>>

\* The writer does not wait for the readers.
WriterMustWait_never == FALSE

WriterMustWait == UnderLock # {}

\* In the paused state the lock is not taken.
update_weights_from_disk ==
    /\ Updates
    /\ updater = "idle" /\ PauseCondFree
    /\ updater' = IF pause.on THEN "unlocked" ELSE IF WriterMustWait THEN "waiting" ELSE "sent"
    /\ IF updater' = "waiting" THEN UNCHANGED toSched ELSE Send(Msg("update", All))
    /\ UNCHANGED <<tok, pause, fromDetok, direct, sched>>

WriterEnters ==
    /\ updater = "waiting" /\ ~WriterMustWait
    /\ updater' = "sent"
    /\ Send(Msg("update", All))
    /\ UNCHANGED <<tok, pause, fromDetok, direct, sched>>

_handle_update_weights_from_disk_req_output ==
    /\ direct # <<>> /\ Head(direct).t = "updated"
    /\ updater' = "done"
    /\ direct' = Tail(direct)
    /\ UNCHANGED <<tok, pause, toSched, fromDetok, sched>>

------------------------------------------------------------------------------
\* The scheduler takes a message.

is_fully_idle(s) == s.waiting \cup s.running \cup s.ended = {}

Hit(m, S) == IF m.r = All THEN S ELSE S \cap {m.r}

\* Method 1 for the waiting queue: removed, and told so directly; method 3 for
\* running requests: marked.
Sched_abort(m) ==
    LET out == Hit(m, sched.waiting)
    IN  /\ sched' = [sched EXCEPT !.waiting = @ \ out, !.marked = @ \cup Hit(m, sched.running)]
        /\ direct' = direct \o SetToSeq({Msg("abort", r) : r \in out})

\* in_place leaves the batches as they are; retract filters them and moves what
\* runs back to the waiting queue.
Sched_pause(mode) ==
    IF mode = "in_place" THEN [sched EXCEPT !.paused = mode]
    ELSE [sched EXCEPT !.paused = mode, !.ended = {}, !.running = {},
                       !.waiting = @ \cup sched.running]

\* update_weights_from_disk, and flush_cache with its assertion.
Sched_update ==
    IF FlushCache /\ ~is_fully_idle(sched) THEN [sched EXCEPT !.crashed = TRUE]
    ELSE [sched EXCEPT !.weights = 1]

SchedInput ==
    /\ ~sched.crashed
    /\ toSched # <<>>
    /\ LET m == Head(toSched)
       IN  \/ /\ m.t = "gen"
              /\ sched' = [sched EXCEPT !.waiting = @ \cup {m.r}]
              /\ UNCHANGED direct
           \/ m.t = "abort" /\ Sched_abort(m)
           \/ m.t = "pause" /\ sched' = Sched_pause(m.r) /\ UNCHANGED direct
           \/ m.t = "continue" /\ sched' = [sched EXCEPT !.paused = "no"] /\ UNCHANGED direct
           \/ /\ m.t = "update"
              /\ sched' = Sched_update
              /\ direct' = IF sched'.crashed THEN direct ELSE Append(direct, Msg("updated", All))
    /\ toSched' = Tail(toSched)
    /\ UNCHANGED <<tok, ctl, fromDetok>>

------------------------------------------------------------------------------
\* An iteration of the scheduler's loop, as far as one request shows it; each
\* iteration first filters what had finished.

Iterates == ~sched.crashed /\ sched.paused = "no"
Out(t, r) == fromDetok' = Append(fromDetok, [t |-> t, r |-> r, v |-> sched.weights])

Admit(r) ==
    /\ Iterates /\ r \in sched.waiting
    /\ sched' = [sched EXCEPT !.waiting = @ \ {r}, !.running = @ \cup {r}, !.ended = {}]
    /\ UNCHANGED <<tok, ctl, chans>>

Output(r) ==
    /\ Iterates /\ r \in sched.running \ sched.marked
    /\ sched.parts[r] < MaxParts
    /\ sched' = [sched EXCEPT !.parts[r] = @ + 1, !.ended = {}]
    /\ Out("part", r)
    /\ UNCHANGED <<tok, ctl, toSched, direct>>

\* The request ends by itself or because it is marked.
Finish(r) ==
    /\ Iterates /\ r \in sched.running
    /\ sched' = [sched EXCEPT !.running = @ \ {r}, !.marked = @ \ {r}, !.ended = {r}]
    /\ Out("final", r)
    /\ UNCHANGED <<tok, ctl, toSched, direct>>

Filter ==
    /\ Iterates /\ sched.ended # {}
    /\ sched' = [sched EXCEPT !.ended = {}]
    /\ UNCHANGED <<tok, ctl, chans>>

\* retract_decode: back to the queue (bound: once), or aborted when it is the
\* last one.
Retract(r) ==
    /\ MayRetract /\ Iterates /\ r \in sched.running
    /\ \/ /\ sched.running # {r} /\ r \notin sched.retracted
          /\ sched' = [sched EXCEPT !.running = @ \ {r}, !.waiting = @ \cup {r}, !.ended = {},
                                    !.retracted = @ \cup {r}]
          /\ UNCHANGED direct
       \/ /\ sched.running = {r}
          /\ sched' = [sched EXCEPT !.running = {}, !.marked = @ \ {r}, !.ended = {}]
          /\ direct' = Append(direct, Msg("503", r))
    /\ UNCHANGED <<tok, ctl, toSched, fromDetok>>

\* _abort_on_waiting_timeout
WaitingTimeout(r) ==
    /\ MayTimeout /\ Iterates /\ r \in sched.waiting
    /\ sched' = [sched EXCEPT !.waiting = @ \ {r}, !.ended = {}]
    /\ direct' = Append(direct, Msg("503", r))
    /\ UNCHANGED <<tok, ctl, toSched, fromDetok>>

------------------------------------------------------------------------------
Request(r) ==
    \/ generate_request(r) \/ PastPause(r) \/ PastLock(r) \/ _send_one_request(r)
    \/ Drain(r) \/ Close(r)

Client(r) ==
    \/ TimedOut(r) \/ Disconnect(r) \/ StreamClosed(r) \/ create_abort_task(r)
    \/ AbortCall(r)

Control ==
    \/ \E mode \in PauseModes : pause_generation(mode)
    \/ AbortAll \/ continue_generation \/ update_weights_from_disk \/ WriterEnters
    \/ _handle_update_weights_from_disk_req_output

SchedulerStep ==
    \/ SchedInput \/ Filter
    \/ \E r \in Rids : Admit(r) \/ Output(r) \/ Finish(r) \/ Retract(r) \/ WaitingTimeout(r)

Next ==
    \/ \E r \in Rids : Request(r) \/ Client(r)
    \/ ReceiveOutput \/ ReceiveAbort \/ Control \/ SchedulerStep

Spec == Init /\ [][Next]_vars

\* Every process goes on; a pause is ended, a running request reaches its end.
Fairness ==
    /\ WF_vars(ReceiveOutput) /\ WF_vars(ReceiveAbort) /\ WF_vars(SchedInput)
    /\ WF_vars(AbortAll) /\ WF_vars(continue_generation) /\ WF_vars(WriterEnters)
    /\ WF_vars(_handle_update_weights_from_disk_req_output)
    /\ \A r \in Rids :
          /\ WF_vars(pc[r] # "new" /\ Request(r))
          /\ WF_vars(Admit(r)) /\ WF_vars(Finish(r))

LiveSpec == Spec /\ Fairness

------------------------------------------------------------------------------
\* An abort on its way always finds the entry of its request: _handle_abort_req
\* indexes rid_to_state without a check, and an exception there ends the loop
\* that receives everything.
AbortHasState ==
    \A i \in DOMAIN direct : direct[i].t # "updated" => direct[i].r \in rid_to_state

\* A request that ends has received its end: what _wait_one_response returns
\* last is a final output or an abort, whatever overtook what.
EndsWithEnd ==
    \A r \in Rids : pc[r] \in {"done", "yielded"} => state[r].got \in {"final", "abort", "503"}

\* The lock keeps weight updates and requests apart: outputs that a request
\* received were all computed with the same weights, unless it was paused.
OneVersion ==
    \A r \in Rids : pause.pauser \in {"idle", "aborting", "abort"} =>
        Cardinality(state[r].vers) <= 1

\* "Weight sync cannot run while requests are in progress": outside a pause the
\* weights change only when the scheduler has no unfinished request.
SyncsAlone ==
    sched'.weights # sched.weights /\ sched.paused = "no" =>
        sched.waiting \cup sched.running = {}

\* After a retracting pause "the KV cache can be flushed": the update's flush,
\* asserted to succeed, does.
RetractedFlush == sched.crashed => sched.paused # "retract"

\* Nothing is left to do for any request, anywhere.
Quiet ==
    /\ \A r \in Rids : pc[r] \in {"new", "done", "raised"}
    /\ toSched = <<>> /\ fromDetok = <<>> /\ direct = <<>>
    /\ sched.waiting \cup sched.running \cup later = {}

\* Every case of the table on aborts deletes the entry in the end.
EntriesDeleted == Quiet => rid_to_state = {}

\* Every request is answered: it finishes, fails or is aborted, and its caller
\* is told.
Answered == \A r \in Rids : pc[r] # "new" ~> pc[r] \in {"done", "raised"}

===============================================================================
