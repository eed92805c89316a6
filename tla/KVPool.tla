------------------------------- MODULE KVPool -------------------------------
(***************************************************************************)
(* The storage of TriAxialKV (mem_cache/triaxial_pool.py, TriaxialKVPool)  *)
(* and the index arithmetic of the attention backends that read it         *)
(* (layers/attention/triaxial_backend.py).                                 *)
(*                                                                         *)
(* A stored key or value is the token it belongs to.  Keys of an INT2 page *)
(* are quantized together, so a page holds a whole sequence of tokens and  *)
(* is written at once; everything else is written token by token.          *)
(***************************************************************************)
EXTENDS TriaxialAllocator, SequencesExt

CONSTANT Layers   \* number of attention layers

NoToken == <<"none", 0>>

Rows4 == 0 .. NumInt4

\* The buffers of one layer, as created: zeros.
_create_buffers ==
  [k2 |-> [p \in 0 .. NumPages |-> [j \in 1 .. PAGE |-> NoToken]],
   v2 |-> [s \in 0 .. offset - 1 |-> NoToken],
   k4 |-> [r \in Rows4 |-> NoToken],
   v4 |-> [r \in Rows4 |-> NoToken]]

\* _grouping: the INT4 tokens, the INT2 tokens outside the dummy page, and
\* the INT2 tokens cut into pages by sorted slot.
Group(loc) ==
  LET idx2  == {i \in DOMAIN loc : loc[i] < offset /\ loc[i] >= PAGE}
      order == SetToSortSeq(idx2, LAMBDA i, j : loc[i] < loc[j])
  IN  [idx4     |-> {i \in DOMAIN loc : loc[i] >= offset},
       idx2     |-> idx2,
       tok_rows |-> [k \in 1 .. Len(order) \div PAGE |->
                       [j \in 1 .. PAGE |-> order[(k - 1) * PAGE + j]]],
       pages    |-> [k \in 1 .. Len(order) \div PAGE |->
                       PageOf(loc[order[(k - 1) * PAGE + 1]])],
       loc      |-> loc]

\* The assertion in _grouping: INT2 slots come as whole pages.
WholePages(loc) ==
  Cardinality({i \in DOMAIN loc : loc[i] < offset /\ loc[i] >= PAGE}) % PAGE = 0

\* Mutant: the cached grouping is taken for any tensor of the same length.
grouping_by_length(cached, obj, loc) ==
  IF cached.obj # 0 /\ Len(cached.grp.loc) = Len(loc) THEN cached
  ELSE [obj |-> obj, grp |-> Group(loc)]

\* The grouping is computed once for a tensor object and kept with it.
_grouping(cached, obj, loc) ==
  IF cached.obj = obj THEN cached ELSE [obj |-> obj, grp |-> Group(loc)]

\* set_kv_buffer on one layer: toks[i] is the token at loc[i].
set_kv_buffer(buf, g, toks) ==
  LET Row(r)  == {i \in g.idx4 : g.loc[i] - offset = r}
      Slot(s) == {i \in g.idx2 : g.loc[i] = s}
      Page(p) == {k \in DOMAIN g.pages : g.pages[k] = p}
      Put(S, old) == IF S = {} THEN old ELSE toks[CHOOSE i \in S : TRUE]
  IN  [k4 |-> [r \in Rows4 |-> Put(Row(r), buf.k4[r])],
       v4 |-> [r \in Rows4 |-> Put(Row(r), buf.v4[r])],
       v2 |-> [s \in 0 .. offset - 1 |-> Put(Slot(s), buf.v2[s])],
       k2 |-> [p \in 0 .. NumPages |->
                 IF Page(p) = {} THEN buf.k2[p]
                 ELSE LET k == CHOOSE k \in Page(p) : TRUE
                      IN  [j \in 1 .. PAGE |-> toks[g.tok_rows[k][j]]]]]

\* Padded tokens of a decode batch have slot 0: they go to the dummy row.
int4_row(s) == IF s < offset THEN 0 ELSE s - offset

\* The fast path of decode: every slot is INT4 or padding.
set_kv_buffer_int4(buf, loc, toks) ==
  LET Row(r)      == {i \in DOMAIN loc : int4_row(loc[i]) = r}
      Put(S, old) == IF S = {} THEN old ELSE toks[CHOOSE i \in S : TRUE]
  IN  [buf EXCEPT !.k4 = [r \in Rows4 |-> Put(Row(r), @[r])],
                  !.v4 = [r \in Rows4 |-> Put(Row(r), @[r])]]

\* dequant_gather for one slot: the key and the value found there.
dequant(buf, s) ==
  IF s >= offset
  THEN <<buf.k4[s - offset], buf.v4[s - offset]>>
  ELSE <<buf.k2[PageOf(s)][(s % PAGE) + 1], buf.v2[s]>>

-----------------------------------------------------------------------------
(***************************************************************************)
(* The scratch buffer of an extend batch: the cached prefixes of all its   *)
(* requests, then all its new tokens.  A batch is a sequence of requests   *)
(* [row, prefix, len]: the slots of the request in position order, the     *)
(* tokens already stored, and all its tokens.                              *)
(***************************************************************************)
kv_indptr(reqs, b) == FoldLeft(LAMBDA n, q : n + q.len, 0, SubSeq(reqs, 1, b - 1))

\* Every (request, position) of the batch, flattened.
Flat(reqs) == FlattenSeq([b \in DOMAIN reqs |-> [p \in 1 .. reqs[b].len |-> <<b, p>>]])

InPrefix(reqs, e) == e[2] <= reqs[e[1]].prefix

\* The scratch row of every flattened position: prefix rows first.
scratch_rows(reqs) ==
  LET flat == Flat(reqs)
      P    == Cardinality({j \in DOMAIN flat : InPrefix(reqs, flat[j])})
      Before(i, pre) == Cardinality({j \in 1 .. i : InPrefix(reqs, flat[j]) = pre})
  IN  [i \in DOMAIN flat |->
         IF InPrefix(reqs, flat[i]) THEN Before(i, TRUE) ELSE P + Before(i, FALSE)]

\* The pool slots of all cached prefixes, in batch order.
prefix_slots(reqs) ==
  LET flat == SelectSeq(Flat(reqs), LAMBDA e : InPrefix(reqs, e))
  IN  [i \in DOMAIN flat |-> reqs[flat[i][1]].row[flat[i][2]]]

\* What attention reads for each request of an extend batch: scratch rows
\* through kv_indptr and kv_indices.  new is the batch's new tokens.
extend_reads(buf, reqs, new) ==
  LET slots   == prefix_slots(reqs)
      scratch == [i \in DOMAIN slots |-> dequant(buf, slots[i])]
                   \o [i \in DOMAIN new |-> <<new[i], new[i]>>]
      rows    == scratch_rows(reqs)
  IN  [b \in DOMAIN reqs |->
         [p \in 1 .. reqs[b].len |-> scratch[rows[kv_indptr(reqs, b) + p]]]]

\* What attention reads in a decode batch: the pool itself.
decode_reads(buf, reqs) ==
  [b \in DOMAIN reqs |-> [p \in 1 .. reqs[b].len |-> dequant(buf, reqs[b].row[p])]]

=============================================================================
