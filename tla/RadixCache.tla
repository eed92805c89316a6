----------------------------- MODULE RadixCache -----------------------------
(***************************************************************************)
(* The prefix tree of mem_cache/radix_cache.py (page_size 1, one key       *)
(* namespace, enabled, no host tier).                                      *)
(*                                                                         *)
(* A node is named by the token sequence that leads from the root to its   *)
(* end.  A split gives the new upper node the shorter name and leaves the  *)
(* lower node its own, as _split_node keeps the child object, so the name  *)
(* a request stores as last_node stays valid.  The root is <<>>: it is     *)
(* always present, locked and without tokens, and is not in nodes.         *)
(*                                                                         *)
(* evict() pops leaves in the order of the configured strategy (LRU, LFU,  *)
(* FIFO, MRU, FILO, priority).  The model keeps no access times: it lets   *)
(* any leaf be the next, which covers every strategy, and evictions(t, n)  *)
(* is the set of sets of nodes one call may remove.                        *)
(***************************************************************************)
EXTENDS Integers, Sequences, FiniteSets, SequencesExt

Root == <<>>

EmptyNodes == [p \in {} |-> [value |-> <<>>, lock_ref |-> 0]]

reset ==
  [nodes            |-> EmptyNodes,
   evictable_leaves |-> {},
   evictable_size   |-> 0,
   protected_size   |-> 0]

Nodes(t) == DOMAIN t.nodes

\* The nodes on the way from p, itself included, up to the root, which is not.
PathTo(t, p) == {q \in Nodes(t) : IsPrefix(q, p)}

parent(t, p) ==
  LET above == PathTo(t, p) \ {p}
  IN  IF above = {} THEN Root
      ELSE CHOOSE q \in above : \A o \in above : Len(o) <= Len(q)

children(t, p) == {c \in Nodes(t) : parent(t, c) = p}

KeyLen(t, p) == Len(t.nodes[p].value)

TokensIn(t, S) == MapThenSumSet(LAMBDA p : KeyLen(t, p), S)

-----------------------------------------------------------------------------
(***************************************************************************)
(* Matching and splitting.                                                 *)
(***************************************************************************)
\* How far the walk from the root follows key.
MatchLen(t, key) ==
  Max({0} \cup {n \in 1 .. Len(key) :
                  \E p \in Nodes(t) : IsPrefix(SubSeq(key, 1, n), p)})

\* The node in whose key the prefix pre ends.
NodeAt(t, pre) ==
  CHOOSE q \in Nodes(t) : IsPrefix(pre, q) /\ Len(parent(t, q)) < Len(pre)

\* The slots of the longest cached prefix of key, wherever it ends.
Indices(t, key) ==
  LET at(i) == LET p == NodeAt(t, SubSeq(key, 1, i))
               IN  t.nodes[p].value[i - Len(parent(t, p))]
  IN  [i \in 1 .. MatchLen(t, key) |-> at(i)]

\* Cut the node child where pre ends; the upper part gets lock_ref.
Cut(t, pre, child, lock_ref) ==
  LET value == t.nodes[child].value
      cut   == Len(pre) - Len(parent(t, child))
  IN  IF pre = child THEN t
      ELSE [t EXCEPT !.nodes =
              (pre :> [value |-> SubSeq(value, 1, cut), lock_ref |-> lock_ref])
                @@ [@ EXCEPT ![child].value = SubSeq(@, cut + 1, Len(@))]]

\* Mutant: the upper node starts unlocked.
split_node_unlocked(t, pre) ==
  IF pre = Root THEN t ELSE Cut(t, pre, NodeAt(t, pre), 0)

_split_node(t, pre) ==
  IF pre = Root THEN t
  ELSE Cut(t, pre, NodeAt(t, pre), t.nodes[NodeAt(t, pre)].lock_ref)

\* What match_prefix finds, and the tree it leaves.
MatchNode(t, key) == SubSeq(key, 1, MatchLen(t, key))

match_prefix(t, key) == _split_node(t, MatchNode(t, key))

-----------------------------------------------------------------------------
(***************************************************************************)
(* Leaves, locks, insertion.                                               *)
(***************************************************************************)
\* _update_leaf_status of every node of S.
_update_leaf_status(t, S) ==
  LET leaves == {p \in S \cap Nodes(t) :
                   t.nodes[p].lock_ref = 0 /\ children(t, p) = {}}
  IN  [t EXCEPT !.evictable_leaves = (@ \ S) \cup leaves]

\* Mutant: the value of the new node starts with the matched slots.
Grow_unshifted(t, key, value) ==
  LET m == MatchLen(t, key)
  IN  [match_prefix(t, key) EXCEPT
         !.nodes = (key :> [value |-> SubSeq(value, 1, Len(key) - m), lock_ref |-> 0]) @@ @,
         !.evictable_size = @ + (Len(key) - m)]

\* The tree with the unmatched rest of key as a new node.
Grow(t, key, value) ==
  LET m == MatchLen(t, key)
  IN  [match_prefix(t, key) EXCEPT
         !.nodes = (key :> [value    |-> SubSeq(value, m + 1, Len(key)),
                            lock_ref |-> 0]) @@ @,
         !.evictable_size = @ + (Len(key) - m)]

\* insert: split where the match ends, hang the rest below.  It returns
\* MatchLen(t, key), the tokens that were already there.
insert(t, key, value) ==
  IF MatchLen(t, key) = Len(key) THEN match_prefix(t, key)
  ELSE _update_leaf_status(Grow(t, key, value), {MatchNode(t, key), key})

\* Add d to the lock of the nodes of path; the ones whose lock was old change
\* sides between the evictable and the protected tokens.
ShiftLocks(t, path, d, old) ==
  LET moved == TokensIn(t, {p \in path : t.nodes[p].lock_ref = old})
  IN  _update_leaf_status(
        [t EXCEPT
           !.nodes = [p \in DOMAIN @ |->
                        IF p \in path THEN [@[p] EXCEPT !.lock_ref = @ + d]
                        ELSE @[p]],
           !.evictable_size = @ - d * moved,
           !.protected_size = @ + d * moved],
        path)

\* Mutant: the ancestors are not locked.
inc_lock_ref_node_only(t, node) ==
  ShiftLocks(t, PathTo(t, node) \cap {node}, 1, 0)

inc_lock_ref(t, node) == ShiftLocks(t, PathTo(t, node), 1, 0)

\* Mutant: the size moves only when the lock goes below zero.
dec_lock_ref_late(t, node) == ShiftLocks(t, PathTo(t, node), -1, 0)

dec_lock_ref(t, node) == ShiftLocks(t, PathTo(t, node), -1, 1)

-----------------------------------------------------------------------------
(***************************************************************************)
(* Eviction.                                                               *)
(***************************************************************************)
\* The heap of evict() after the nodes E were popped: the leaves it started
\* with, and the unlocked parents that lost their last child.
Heap(t, E) ==
  (t.evictable_leaves
     \cup {p \in Nodes(t) : /\ t.nodes[p].lock_ref = 0
                            /\ children(t, p) # {}
                            /\ children(t, p) \subseteq E}) \ E

\* The sets of nodes one call of evict(num_tokens) can pop: one round of its
\* loop per node at most.
evictions(t, num_tokens) ==
  LET round(Es) == UNION {IF TokensIn(t, E) < num_tokens /\ Heap(t, E) # {}
                          THEN {E \cup {x} : x \in Heap(t, E)}
                          ELSE {E} : E \in Es}
  IN  FoldLeft(LAMBDA Es, i : round(Es), {{}},
               [i \in 1 .. Cardinality(Nodes(t)) |-> i])

\* Mutant: the popped nodes stay among the leaves.
_delete_leaf_stale(t, E) ==
  _update_leaf_status(
    [t EXCEPT !.nodes          = [p \in DOMAIN @ \ E |-> @[p]],
              !.evictable_size = @ - TokensIn(t, E)],
    {parent(t, p) : p \in E} \ E)

\* The tree after evict() popped the nodes E.
_delete_leaf(t, E) ==
  _update_leaf_status(
    [t EXCEPT !.nodes            = [p \in DOMAIN @ \ E |-> @[p]],
              !.evictable_size   = @ - TokensIn(t, E),
              !.evictable_leaves = @ \ E],
    {parent(t, p) : p \in E} \ E)

\* The slots evict() frees with the nodes E.
ValuesOf(t, E) == UNION {ToSet(t.nodes[p].value) : p \in E}

=============================================================================
