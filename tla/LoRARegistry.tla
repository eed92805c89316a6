---------------------------- MODULE LoRARegistry ----------------------------
(***************************************************************************)
(* lora/lora_registry.py: which LoRA adapters requests may name, in LRU    *)
(* order, and how many requests use each.                                  *)
(*                                                                         *)
(* A registry is [refs, counters]: refs is the ordered dictionary, least   *)
(* recently used first, and counters maps the ids that have a counter to   *)
(* its value.  No critical section of the registry lock suspends, so every *)
(* method is one step; only acquire of a list suspends, between its        *)
(* look-ups and its increments.                                            *)
(***************************************************************************)
EXTENDS Integers, Sequences, SequencesExt

LoRARef(name, id, pinned) == [name |-> name, id |-> id, pinned |-> pinned]

EmptyRegistry == [refs |-> <<>>, counters |-> <<>>]

Registered(g) == {ref.name : ref \in Range(g.refs)}
RefOf(g, name) == CHOOSE ref \in Range(g.refs) : ref.name = name

Without(g, name) == SelectSeq(g.refs, LAMBDA ref : ref.name # name)

_register_adapter(g, ref) ==
    [refs |-> Append(g.refs, ref),
     counters |-> [i \in DOMAIN g.counters \cup {ref.id} |->
                      IF i = ref.id THEN 0 ELSE g.counters[i]]]

unregister(g, name) == [g EXCEPT !.refs = Without(g, name)]

\* Every look-up makes the adapter the most recently used one.
move_to_end(g, name) == [g EXCEPT !.refs = Append(Without(g, name), RefOf(g, name))]

\* acquire's look-ups, in order, up to the first name that is not there.
_lookup(g, names) ==
    FoldLeft(LAMBDA acc, name :
                 IF acc.ok /\ name \in Registered(acc.g)
                 THEN [ok |-> TRUE, g |-> move_to_end(acc.g, name),
                       ids |-> Append(acc.ids, RefOf(acc.g, name).id)]
                 ELSE [acc EXCEPT !.ok = FALSE],
             [ok |-> TRUE, g |-> g, ids |-> <<>>], names)

\* A counter deleted meanwhile still exists for the coroutine that holds it,
\* but nobody looks at it any more.
increment(g, id) ==
    IF id \in DOMAIN g.counters THEN [g EXCEPT !.counters[id] = @ + 1] ELSE g

\* The last user does not give the adapter back.
release_keeps_last(g, id) ==
    IF id \in DOMAIN g.counters /\ g.counters[id] > 1
    THEN [g EXCEPT !.counters[id] = @ - 1] ELSE g

\* KeyError when the counter is gone.
release(g, id) ==
    IF id \in DOMAIN g.counters THEN [g EXCEPT !.counters[id] = @ - 1] ELSE g

\* wait_for_unload returns at once, whatever the counter says.
Unused_always(g, id) == TRUE

Unused(g, id) == g.counters[id] = 0

\* The counter of an unloaded adapter stays.
del_counter_never(g, id) == g

del_counter(g, id) ==
    [g EXCEPT !.counters = [i \in DOMAIN g.counters \ {id} |-> g.counters[i]]]

\* names is one order of the set the caller passes; each order is possible.
get_unregistered_loras(g, names) ==
    [missing |-> SelectSeq(names, LAMBDA name : name \notin Registered(g)),
     g |-> FoldLeft(LAMBDA acc, name : IF name \in Registered(g)
                                       THEN move_to_end(acc, name) ELSE acc, g, names)]

\* The least recently used adapter that is not pinned, if there is one.
lru_lora_name(g) ==
    LET free == SelectSeq(g.refs, LAMBDA ref : ~ref.pinned)
    IN  IF free = <<>> THEN {} ELSE {Head(free).name}

==============================================================================
