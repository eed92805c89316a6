-------------------------- MODULE StreamingSessions --------------------------
(***************************************************************************)
(* Streaming sessions of managers/session_controller.py, with the steps of *)
(* the scheduler that run their requests.  A client opens a session, sends *)
(* turns, each continuing the one before, and closes it; a session that is *)
(* not used for its timeout is closed by maybe_reap.                       *)
(*                                                                         *)
(* session[s] is [open, node]: node is the request in req_nodes.  A token  *)
(* is named by its request; the KV of a token depends on all tokens before *)
(* it, so the KV of a location is that sequence.                           *)
(***************************************************************************)
EXTENDS SessionAwareCache

CONSTANTS
    Sessions,
    Reqs,          \* requests, each sent once
    NewLens,       \* lengths of a turn's prompt
    MaxOut,        \* bound: tokens a request generates
    Overlap,       \* the overlap schedule is on
    MayOverlap,    \* clients send a turn before the last one is answered
    MayClose,      \* sessions are closed, or time out, under a running request
    MayRetract,    \* the scheduler runs out of memory and retracts requests
    MayReject      \* clients send parameters streaming sessions refuse

VARIABLES mem, session, req

vars == <<mem, session, req>>

NoNode == 0

NoReq == [st |-> "new", ids |-> <<>>, out |-> <<>>, idx |-> NoRow, committed |-> 0,
          allocated |-> 0, prefix |-> 0, session |-> None, aborted |-> FALSE,
          retracted |-> FALSE]

Init ==
    /\ mem = NewMem
    /\ session = [s \in Sessions |-> [open |-> FALSE, node |-> NoNode]]
    /\ req = [r \in Reqs |-> NoReq]

Live == {r \in Reqs : req[r].st \in {"waiting", "running"}}
LiveIn(s) == {r \in Live : req[r].session = s}

open(s) ==
    /\ ~session[s].open
    /\ session' = [session EXCEPT ![s] = [open |-> TRUE, node |-> NoNode]]
    /\ UNCHANGED <<mem, req>>

------------------------------------------------------------------------------
Prompt(r, n) == [i \in 1..n |-> r]

\* Session.create_req: the turn continues the last request of the session,
\* finished or not, and takes its place; the last one is no longer the
\* session's.
create_req(s, r, n) ==
    LET last == session[s].node
        ids == IF last = NoNode THEN Prompt(r, n) ELSE fill_ids(req[last]) \o Prompt(r, n)
    IN /\ req' = [q \in Reqs |->
                     IF q = r THEN [NoReq EXCEPT !.st = "waiting", !.ids = ids, !.session = s]
                     ELSE IF q = last THEN [req[q] EXCEPT !.session = None]
                     ELSE req[q]]
       /\ session' = [session EXCEPT ![s].node = r]

\* replace, offset and drop_previous_output are refused: the request is not
\* entered in req_nodes, and set_finish_with_abort makes it one token long.
create_refused(s, r) ==
    /\ req' = [req EXCEPT ![r] = [NoReq EXCEPT !.st = "waiting", !.ids = Prompt(0, 1),
                                               !.session = s, !.aborted = TRUE]]
    /\ UNCHANGED session

\* Requests are sent in order, so that their names carry no information.
FirstNew(r) == \A q \in Reqs : q < r => req[q].st # "new"

Turn(s, r) ==
    /\ session[s].open /\ req[r].st = "new" /\ FirstNew(r)
    /\ ~MayOverlap => LiveIn(s) = {}
    /\ \/ \E n \in NewLens : create_req(s, r, n)
       \/ MayReject /\ create_refused(s, r)
    /\ UNCHANGED mem

\* SessionController._close, from close or from maybe_reap.
_close(s) ==
    /\ session[s].open
    /\ ~MayClose => LiveIn(s) = {}
    /\ session' = [session EXCEPT ![s] = [open |-> FALSE, node |-> NoNode]]
    /\ req' = [r \in Reqs |->
                  IF r = session[s].node /\ r \in Live THEN [req[r] EXCEPT !.session = None]
                  ELSE req[r]]
    /\ mem' = release_session(mem, s)

------------------------------------------------------------------------------
\* The scheduler matches the request, and turns it away for this iteration.
Skipped(r) ==
    /\ req[r].st = "waiting"
    /\ req' = [req EXCEPT ![r] = match_prefix(mem, @)]
    /\ UNCHANGED <<mem, session>>

\* The result of the last forward is processed: one more token.
Sampled(q, r) == [q EXCEPT !.st = "running", !.out = Append(@, r)]

Prefill(r) ==
    LET q == match_prefix(mem, req[r])
    IN /\ req[r].st = "waiting" /\ CanExtend(mem, q)
       /\ mem' = ExtendMem(mem, q)
       /\ req' = [req EXCEPT ![r] = Sampled(ExtendReq(mem, q), r)]
       /\ UNCHANGED session

Decode(r) ==
    /\ req[r].st = "running" /\ Len(req[r].out) < MaxOut /\ ~req[r].aborted
    /\ mem.free # {}
    /\ mem' = DecodeMem(mem, req[r])
    /\ req' = [req EXCEPT ![r] = Sampled(DecodeReq(@), r)]
    /\ UNCHANGED session

\* The last token ends the request.  With the overlap schedule the next
\* forward of the request is already launched, and its location allocated.
Finish(r) ==
    LET q == IF Overlap THEN DecodeReq(req[r]) ELSE req[r]
        m == IF Overlap THEN DecodeMem(mem, req[r]) ELSE mem
    IN /\ req[r].st = "running"
       /\ Overlap => mem.free # {}
       /\ mem' = release_kv_cache(m, q)
       /\ req' = [req EXCEPT ![r] = [@ EXCEPT !.st = "finished", !.idx = NoRow,
                                              !.committed = 0, !.allocated = 0]]
       /\ UNCHANGED session

\* The request is retracted and waits again: release_kv_cache gives its KV to
\* the session's slot, and with the overlap schedule the token of the forward in
\* flight is dropped.
Retract(r) ==
    /\ MayRetract /\ req[r].st = "running" /\ ~req[r].retracted
    /\ Overlap => mem.free # {}
    /\ mem' = release_kv_cache(IF Overlap THEN DecodeMem(mem, req[r]) ELSE mem,
                               IF Overlap THEN DecodeReq(req[r]) ELSE req[r])
    /\ req' = [req EXCEPT ![r] = [@ EXCEPT !.st = "waiting", !.idx = NoRow, !.committed = 0,
                                           !.allocated = 0, !.retracted = TRUE]]
    /\ UNCHANGED session

\* abort_request takes a waiting request out of the queue.
Abort(r) ==
    /\ req[r].st = "waiting"
    /\ req' = [req EXCEPT ![r].st = "finished"]
    /\ UNCHANGED <<mem, session>>

Next ==
    \/ \E s \in Sessions : open(s) \/ _close(s)
    \/ \E s \in Sessions, r \in Reqs : Turn(s, r)
    \/ \E r \in Reqs : Skipped(r) \/ Prefill(r) \/ Decode(r) \/ Finish(r)
                          \/ Retract(r) \/ Abort(r)

Spec == Init /\ [][Next]_vars

------------------------------------------------------------------------------
Running == {r \in Reqs : req[r].st = "running"}

\* A row of req_to_token has one owner: a running request, the slot of a
\* session none of whose requests is running, or the free list, which names it
\* once.
RowsOwned ==
    \A i \in 1..NumRows :
        Cardinality({r \in Running : req[r].idx = i})
          + Cardinality({s \in DOMAIN mem.slots : mem.slots[s].idx = i /\ LiveIn(s) \cap Running = {}})
          + Cardinality({j \in DOMAIN mem.free_slots : mem.free_slots[j] = i}) <= 1

\* What a running request attends to is its own context: its locations hold
\* the KV of its tokens, and none has been freed under it.
ContextIntact ==
    \A r \in Running :
        \A p \in 1..req[r].committed :
            LET l == mem.table[req[r].idx][p]
            IN l \notin mem.free /\ mem.kv[l] = SubSeq(fill_ids(req[r]), 1, p)

\* The same as long as no turn has been refused: a refused turn takes the
\* session's row and lengths with it.
ContextIntactUnrefused == (\A r \in Reqs : ~req[r].aborted) => ContextIntact

\* check_memory and _check_req_pool on an idle scheduler: every location and
\* every row is free or held by a session.
NothingLeaks ==
    Live = {} =>
        /\ 1..NumKV = mem.free \cup UNION {Held(mem, mem.slots[s].idx, mem.slots[s].allocated) :
                                             s \in DOMAIN mem.slots}
        /\ NumRows = Len(mem.free_slots) + Cardinality(DOMAIN mem.slots)

===============================================================================
