----------------------------- MODULE LoRAUpdates -----------------------------
(***************************************************************************)
(* Loading and unloading LoRA adapters while requests use them:            *)
(* TokenizerManager (_resolve_lora_path, load_lora_adapter,                *)
(* unload_lora_adapter) on one side, the scheduler's LoRAManager on the    *)
(* other, and the one message queue between them.                          *)
(*                                                                         *)
(* A task is a request or an administrator's call.  Tasks run on one event *)
(* loop: a step of a task goes from one suspension to the next, and        *)
(* lora_update_lock is an asyncio.Lock, first come, first served.          *)
(* A request names one adapter (a string) or several (a list, one          *)
(* sub-request each); <<r, i>> is the i-th sub-request of r.               *)
(***************************************************************************)
EXTENDS LoRARegistry, FiniteSets

CONSTANTS
    Paths,       \* request -> its sequence of adapter names
    Calls,       \* administrator task -> [op : {"load", "unload"}, name]
    InitNames,   \* the adapters given at launch, as a sequence
    Pinned,      \* the names loaded with pinned = True
    MaxLoaded,   \* max_loaded_loras
    MaxPinned,   \* max_loras_per_batch - 1
    Endings,     \* the ways a sub-request may end, of AllEndings
    MayFail      \* may a request fail between acquire and the scheduler?

Reqs == DOMAIN Paths
Admins == DOMAIN Calls
Tasks == Reqs \cup Admins
Subs == {s \in Reqs \X (1..10) : s[2] \in DOMAIN Paths[s[1]]}

\* How TokenizerManager learns that a sub-request is over: from its last
\* output ("timeout": the output carries the 503 of the running timeout) or,
\* when it ends in the waiting queue, from an AbortReq ("refused": the AbortReq
\* carries a 503, for the queue limit, a priority or the waiting timeout, or the
\* 500 of the last request of a batch that is out of memory).
AllEndings == {"output", "timeout", "abort", "refused"}
ByOutput == {"output", "timeout"}
WithStatus == {"timeout", "refused"}

LoRAUpdatesAssumption ==
    /\ Endings \subseteq AllEndings
    /\ Reqs \cap Admins = {}
    /\ \A r \in Reqs : Len(Paths[r]) \in 1..10
    /\ Len(InitNames) <= MaxLoaded
    /\ MaxPinned < MaxLoaded

VARIABLES
    g,        \* lora_registry
    cache,    \* lora_ref_cache, as the set of the names in it
    queue,    \* lora_update_lock: holder first, then those who wait
    channel,  \* messages on the way to the scheduler
    backend,  \* LoRAManager.lora_refs, as a set
    pc,       \* per task
    todo,     \* per task: the names still to be (re)loaded
    target,   \* per task: the reference it is loading or unloading
    ids,      \* per request: the ids it acquired
    ongoing,  \* the sub-requests the scheduler has and has not finished
    releases, \* per sub-request: the calls of release still to be run
    lost,     \* history: the sub-requests that are never released
    under,    \* history: those released twice or counted too late
    nextid

users == <<ongoing, releases, lost, under>>
vars == <<g, cache, queue, channel, backend, pc, todo, target, ids, users, nextid>>

SubsOf(r) == {s \in Subs : s[1] = r}

NoRef == [name |-> "", id |-> 0, pinned |-> FALSE]

Generate(r, sent) == [op |-> "generate", task |-> r, ref |-> NoRef, subs |-> sent]

Goto(t, where) == pc' = [pc EXCEPT ![t] = where]

InitRefs == [i \in DOMAIN InitNames |->
                LoRARef(InitNames[i], i, InitNames[i] \in Pinned)]

Init ==
    /\ g = FoldLeft(_register_adapter, EmptyRegistry, InitRefs)
    /\ cache = Range(InitNames)
    /\ queue = <<>>
    /\ channel = <<>>
    /\ backend = Range(InitRefs)
    /\ pc = [t \in Tasks |-> "new"]
    /\ todo = [t \in Tasks |-> <<>>]
    /\ target = [t \in Tasks |-> NoRef]
    /\ ids = [r \in Reqs |-> <<>>]
    /\ ongoing = {}
    /\ releases = [s \in Subs |-> 0]
    /\ lost = {}
    /\ under = {}
    /\ nextid = Len(InitNames) + 1

------------------------------------------------------------------------------
\* The tokenizer side of a load and of an unload.

Holds(t) == queue # <<>> /\ Head(queue) = t

\* The call is over and gives up the lock; a request fails with a load that
\* failed, an administrator is told.
Return(t, ok) ==
    /\ queue' = Tail(queue)
    /\ target' = [target EXCEPT ![t] = NoRef]
    /\ Goto(t, IF t \in Admins THEN "done" ELSE IF ok THEN "reloading" ELSE "failed")

\* The lock is held: a new id, and the load goes to the scheduler.
StartLoad(t) ==
    /\ pc[t] = "load" /\ Holds(t)
    /\ LET ref == LoRARef(Head(todo[t]), nextid, Head(todo[t]) \in Pinned)
       IN  /\ target' = [target EXCEPT ![t] = ref]
           /\ channel' = Append(channel, [op |-> "load", task |-> t, ref |-> ref])
    /\ todo' = [todo EXCEPT ![t] = Tail(@)]
    /\ nextid' = nextid + 1
    /\ Goto(t, "loading")
    /\ UNCHANGED <<g, cache, queue, backend, ids, users>>

\* The eviction loop on registry h up to its next suspension: over the limit
\* the least recently used adapter is unregistered; with none the call raises.
Evict(t, h, ok) ==
    LET over == Len(h.refs) > MaxLoaded
    IN  \/ /\ over
           /\ \E name \in lru_lora_name(h) :
                 /\ g' = unregister(h, name)
                 /\ target' = [target EXCEPT ![t] = RefOf(h, name)]
           /\ Goto(t, "draining")
           /\ UNCHANGED queue
        \/ /\ over => lru_lora_name(h) = {}
           /\ g' = h
           /\ Return(t, ok /\ ~over)

\* The answer to the load: register the adapter, then make room.  "already"
\* is the error a reload does not mind.  The name is not registered yet, or
\* the scheduler would have refused it (RegistryMatchesBackend).
FinishLoad(t) ==
    /\ \/ /\ pc[t] = "loaded"
          /\ Evict(t, _register_adapter(g, target[t]), TRUE)
          /\ cache' = cache \cup {target[t].name}
       \/ /\ pc[t] \in {"already", "load_failed"}
          /\ Evict(t, g, pc[t] = "already")
          /\ UNCHANGED cache
    /\ UNCHANGED <<channel, backend, todo, ids, users, nextid>>

\* unload_lora_adapter has the lock: the name must be registered.
StartUnload(t) ==
    /\ pc[t] = "unload" /\ Holds(t)
    /\ LET name == Calls[t].name
       IN  IF name \in Registered(g)
           THEN /\ g' = unregister(g, name)
                /\ target' = [target EXCEPT ![t] = RefOf(g, name)]
                /\ Goto(t, "draining")
                /\ UNCHANGED queue
           ELSE Return(t, FALSE) /\ g' = g
    /\ UNCHANGED <<cache, channel, backend, todo, ids, users, nextid>>

\* wait_for_unload returns, and the unload goes to the scheduler.
Drained(t) ==
    /\ pc[t] = "draining"
    /\ Unused(g, target[t].id)
    /\ g' = del_counter(g, target[t].id)
    /\ channel' = Append(channel, [op |-> "unload", task |-> t, ref |-> target[t]])
    /\ Goto(t, "unloading")
    /\ UNCHANGED <<cache, queue, backend, todo, target, ids, users, nextid>>

\* The answer to the unload; a load goes on with its eviction loop.
FinishUnload(t) ==
    /\ pc[t] = "unloaded"
    /\ IF t \in Admins /\ Calls[t].op = "unload"
       THEN Return(t, TRUE) /\ g' = g
       ELSE Evict(t, g, TRUE)
    /\ UNCHANGED <<cache, channel, backend, todo, ids, users, nextid>>

------------------------------------------------------------------------------
\* Administrators and requests.

Call(t) ==
    /\ t \in Admins /\ pc[t] = "new"
    /\ queue' = Append(queue, t)
    /\ todo' = [todo EXCEPT ![t] = <<Calls[t].name>>]
    /\ Goto(t, Calls[t].op)
    /\ UNCHANGED <<g, cache, channel, backend, target, ids, users, nextid>>

\* _resolve_lora_path: too many adapters, or reload those that are evicted.
_resolve_lora_path(r) ==
    /\ r \in Reqs /\ pc[r] = "new"
    /\ IF Cardinality(Range(Paths[r])) > MaxLoaded
       THEN Goto(r, "failed") /\ UNCHANGED <<g, todo>>
       ELSE \E names \in SetToSeqs(Range(Paths[r])) :
                LET found == get_unregistered_loras(g, names)
                IN  /\ g' = found.g
                    /\ todo' = [todo EXCEPT ![r] = found.missing]
                    /\ Goto(r, "reloading")
    /\ UNCHANGED <<cache, queue, channel, backend, target, ids, users, nextid>>

\* The next evicted adapter, which must have been loaded at some time.
Reload(r) ==
    /\ r \in Reqs /\ pc[r] = "reloading" /\ todo[r] # <<>>
    /\ \/ /\ Head(todo[r]) \in cache
          /\ Goto(r, "load")
          /\ queue' = Append(queue, r)
       \/ /\ Head(todo[r]) \notin cache
          /\ Goto(r, "failed")
          /\ UNCHANGED queue
    /\ UNCHANGED <<g, cache, channel, backend, todo, target, ids, users, nextid>>

\* acquire: look every name up; a string increments at once, a list in tasks
\* of its own that run after whatever the loop already has to do.
acquire(r) ==
    /\ r \in Reqs /\ pc[r] = "reloading" /\ todo[r] = <<>>
    /\ LET found == _lookup(g, Paths[r])
       IN  /\ ids' = [ids EXCEPT ![r] = IF found.ok THEN found.ids ELSE <<>>]
           /\ \/ /\ ~found.ok
                 /\ g' = found.g /\ Goto(r, "failed")
              \/ /\ found.ok /\ Len(Paths[r]) = 1
                 /\ g' = increment(found.g, found.ids[1]) /\ Goto(r, "acquired")
              \/ /\ found.ok /\ Len(Paths[r]) > 1
                 /\ g' = found.g /\ Goto(r, "gathering")
    /\ UNCHANGED <<cache, queue, channel, backend, todo, target, users, nextid>>

gather(r) ==
    /\ pc[r] = "gathering"
    /\ g' = FoldLeft(increment, g, ids[r])
    /\ under' = under \cup {s \in SubsOf(r) : ids[r][s[2]] \notin DOMAIN g.counters}
    /\ Goto(r, "acquired")
    /\ UNCHANGED <<cache, queue, channel, backend, todo, target, ids, ongoing, releases, lost,
                   nextid>>

\* Tokenized and sent to the scheduler.
_send_one_request(r) ==
    /\ pc[r] = "acquired"
    /\ channel' = Append(channel, Generate(r, SubsOf(r)))
    /\ Goto(r, "sent")
    /\ UNCHANGED <<g, cache, queue, backend, todo, target, ids, users, nextid>>

\* _tokenize_one_request raises (the input is too long) when the sub-requests
\* before it are sent: no clause of generate_request gives the other adapters
\* back.
TokenizeRaises(r) ==
    /\ MayFail
    /\ pc[r] = "acquired"
    /\ \E i \in DOMAIN Paths[r] :
          LET sent == {s \in SubsOf(r) : s[2] < i}
          IN  /\ channel' = IF sent = {} THEN channel ELSE Append(channel, Generate(r, sent))
              /\ lost' = lost \cup (SubsOf(r) \ sent)
    /\ Goto(r, "failed")
    /\ UNCHANGED <<g, cache, queue, backend, todo, target, ids, ongoing, releases, under, nextid>>

\* The task that _handle_batch_output created, or _wait_one_response, runs
\* release.
ReleaseTask(s) ==
    /\ releases[s] > 0
    /\ g' = release(g, ids[s[1]][s[2]])
    /\ releases' = [releases EXCEPT ![s] = @ - 1]
    /\ UNCHANGED <<cache, queue, channel, backend, pc, todo, target, ids, ongoing, lost, under,
                   nextid>>

------------------------------------------------------------------------------
\* The scheduler: messages in order.

\* load_lora_adapter with validate_new_adapter: the name must be new and a
\* pinned adapter must leave a slot; it may also not fit or not be readable.
SchedulerLoads ==
    /\ channel # <<>> /\ Head(channel).op = "load"
    /\ LET ref == Head(channel).ref
           known == \E other \in backend : other.name = ref.name
           pinnable == Cardinality({other \in backend : other.pinned}) < MaxPinned
       IN  \/ /\ known
              /\ Goto(Head(channel).task, "already")
              /\ UNCHANGED backend
           \/ /\ ~known /\ (ref.pinned => pinnable)
              /\ Goto(Head(channel).task, "loaded")
              /\ backend' = backend \cup {ref}
           \/ /\ ~known
              /\ Goto(Head(channel).task, "load_failed")
              /\ UNCHANGED backend
    /\ channel' = Tail(channel)
    /\ UNCHANGED <<g, cache, queue, todo, target, ids, users, nextid>>

SchedulerUnloads ==
    /\ channel # <<>> /\ Head(channel).op = "unload"
    /\ backend' = backend \ {Head(channel).ref}
    /\ Goto(Head(channel).task, "unloaded")
    /\ channel' = Tail(channel)
    /\ UNCHANGED <<g, cache, queue, todo, target, ids, users, nextid>>

SchedulerGenerates ==
    /\ channel # <<>> /\ Head(channel).op = "generate"
    /\ ongoing' = ongoing \cup Head(channel).subs
    /\ channel' = Tail(channel)
    /\ UNCHANGED <<g, cache, queue, backend, pc, todo, target, ids, releases, lost, under, nextid>>

\* _handle_batch_output releases every last output; _wait_one_response, for a
\* client that is still there, whatever ends with status 500 or 503, and so
\* what timed out a second time.  _handle_abort_req releases nothing.
Releases(how, attended) ==
    Cardinality({x \in {"output", "status"} :
        IF x = "output" THEN how \in ByOutput ELSE how \in WithStatus /\ attended})

\* A sub-request comes to an end in the scheduler, and the tokenizer hears.
Ends(s) ==
    /\ s \in ongoing
    /\ ongoing' = ongoing \ {s}
    /\ \E how \in Endings, attended \in BOOLEAN :
          LET n == Releases(how, attended)
          IN  /\ releases' = [releases EXCEPT ![s] = n]
              /\ lost' = IF n = 0 THEN lost \cup {s} ELSE lost
              /\ under' = IF n = 2 THEN under \cup {s} ELSE under
    /\ UNCHANGED <<g, cache, queue, channel, backend, pc, todo, target, ids, nextid>>

------------------------------------------------------------------------------
Step(t) ==
    \/ StartLoad(t) \/ FinishLoad(t) \/ StartUnload(t) \/ Drained(t) \/ FinishUnload(t)
    \/ Call(t) \/ _resolve_lora_path(t) \/ Reload(t)
    \/ acquire(t) \/ gather(t) \/ _send_one_request(t)

Scheduler == SchedulerLoads \/ SchedulerUnloads \/ SchedulerGenerates

\* Everything the tasks asked for has happened.
Quiet ==
    /\ \A t \in Tasks : pc[t] \in {"done", "failed", "sent"}
    /\ channel = <<>> /\ ongoing = {} /\ \A s \in Subs : releases[s] = 0
    /\ UNCHANGED vars

Next ==
    \/ \E t \in Tasks : Step(t) \/ TokenizeRaises(t)
    \/ \E s \in Subs : ReleaseTask(s) \/ Ends(s)
    \/ Scheduler
    \/ Quiet

\* Every runnable task runs, the scheduler reads its messages and requests
\* come to an end.
Fairness ==
    /\ \A t \in Tasks : WF_vars(pc[t] # "new" /\ Step(t))
    /\ \A s \in Subs : WF_vars(ReleaseTask(s)) /\ WF_vars(Ends(s))
    /\ WF_vars(Scheduler)

Spec == Init /\ [][Next]_vars
LiveSpec == Spec /\ Fairness

------------------------------------------------------------------------------
Uses(s, id) == s[2] \in DOMAIN ids[s[1]] /\ ids[s[1]][s[2]] = id

Count(set, id) == Cardinality({s \in set : Uses(s, id)})

\* Sub-requests that have acquired their adapters and are not over.
Active ==
    {s \in Subs : \/ pc[s[1]] = "acquired"
                  \/ s \in ongoing
                  \/ \E m \in Range(channel) : m.op = "generate" /\ s \in m.subs}

\* The calls of release for an adapter that are on their way.
Pending(id) == MapThenSumSet(LAMBDA s : releases[s], {s \in Subs : Uses(s, id)})

\* "Initiate the actual unloading operation at the backend processes only
\* after all ongoing requests using this LoRA adapter are finished": what the
\* scheduler works on is loaded there, unless a user of the adapter was
\* released twice or was counted after the adapter was drained
\* (_unload_lora_adapter_locked, acquire).
InUseLoaded ==
    \A s \in ongoing :
        \/ \E ref \in backend : Uses(s, ref.id)
        \/ \E other \in under : Uses(other, ids[s[1]][s[2]])

\* Through evictions and reloads, a counter is the number of sub-requests that
\* are not over and of releases on their way, off by one for each sub-request
\* that is never released or is released twice, and by nothing else (acquire,
\* release).
CountersExact ==
    \A id \in DOMAIN g.counters :
        g.counters[id] = Count(Active, id) + Pending(id) + Count(lost, id) - Count(under, id)

\* Between two updates the registry, the scheduler's adapters and the limit
\* agree: a failed or raced load leaves nothing behind (load_lora_adapter).
RegistryMatchesBackend ==
    queue = <<>> => /\ Range(g.refs) = backend
                    /\ DOMAIN g.counters = {ref.id : ref \in backend}
                    /\ Len(g.refs) <= MaxLoaded

\* The counter is not the number of users and will not be.
Miscounted(id) == Count(lost, id) # Count(under, id)

\* Waiting for an adapter to fall out of use comes to an end, and with it
\* lora_update_lock is given up, unless releases of that adapter are missing
\* or too many (wait_for_unload).
UnloadReturns ==
    (\E t \in Tasks : pc[t] = "draining")
        ~> (\A t \in Tasks : pc[t] = "draining" => Miscounted(target[t].id))

\* "Counters for ongoing requests": with no release of it on its way,
\* the counter of an adapter is the number of its requests that are not over
\* (_counters, wait_for_unload).
CountersOfOngoing ==
    \A id \in DOMAIN g.counters :
        Pending(id) = 0 => g.counters[id] = Count(Active, id)

==============================================================================
