------------------------------ MODULE KVForward ------------------------------
(***************************************************************************)
(* Forward passes over the TriAxialKV pool.  The scheduler allocates slots *)
(* and launches batches; the GPU stream runs them in launch order, layer   *)
(* by layer, and the scheduler goes on meanwhile: it launches the next     *)
(* batch and frees the slots of a request that finished while a batch with *)
(* that request is still out.                                              *)
(*                                                                         *)
(* A token is a request and a position.  Requests do not share slots here; *)
(* sharing through the prefix tree is the subject of CacheSpec.            *)
(***************************************************************************)
EXTENDS KVPool

CONSTANTS
  Reqs,        \* requests
  Bits,        \* Bits[r][p]: the tagger's bitwidth of prompt token p
  MaxLen,      \* MaxLen[r]: tokens of r, prompt and output
  MaxChunk,    \* most tokens of a request in one extend batch
  GraphBS,     \* batch size decode batches are padded to
  MaxOut       \* batches that may be out at once (2 with overlap)

KVForwardAssumption ==
  /\ Layers \in Nat \ {0} /\ GraphBS \in Nat
  /\ MaxOut \in Nat \ {0} /\ MaxChunk \in Nat \ {0}
  /\ \A r \in Reqs : Len(Bits[r]) <= MaxLen[r]

VARIABLES
  alloc,    \* the allocator
  row,      \* row[r]: the slots of r's tokens, its line of req_to_token
  done,     \* finished requests
  stream,   \* batches launched and not finished, oldest first
  pool,     \* the buffers of every layer
  cached    \* _grp_loc and _grp: the last grouping and its tensor

vars == <<alloc, row, done, stream, pool, cached>>

NoGroup == [obj |-> 0, grp |-> <<>>]

Init ==
  /\ alloc = cleared
  /\ row = [r \in Reqs |-> <<>>]
  /\ done = {}
  /\ stream = <<>>
  /\ pool = [l \in 1 .. Layers |-> _create_buffers]
  /\ cached = NoGroup

-----------------------------------------------------------------------------
\* The object of a new tensor: one that no live reference has.  The pool
\* keeps a reference to the tensor it cached.
FreshTensor ==
  CHOOSE o \in 1 .. MaxOut + 2 :
    o # cached.obj /\ \A i \in DOMAIN stream : stream[i].obj # o

OutWith(r) == Cardinality({i \in DOMAIN stream : \E b \in DOMAIN stream[i].who : stream[i].who[b] = r})

BatchOf(kind, who, rows, old, loc, toks) ==
  [obj   |-> FreshTensor, kind |-> kind, who |-> who, loc |-> loc, toks |-> toks, layer |-> 1,
   reqs  |-> [b \in DOMAIN who |->
                [row |-> rows[who[b]], prefix |-> Len(old[who[b]]), len |-> Len(rows[who[b]])]]]

\* The slots of the batch, cut into the pieces of its requests.
RowsAfter(who, new, loc) ==
  LET start(b) == FoldLeft(LAMBDA n, r : n + new[r], 0, SubSeq(who, 1, b - 1))
      index(r) == CHOOSE b \in DOMAIN who : who[b] = r
  IN  [r \in Reqs |->
         IF r \in ToSet(who)
         THEN row[r] \o SubSeq(loc, start(index(r)) + 1, start(index(r)) + new[r])
         ELSE row[r]]

NewTokens(who, new) ==
  FlattenSeq([b \in DOMAIN who |-> [k \in 1 .. new[who[b]] |-> <<who[b], Len(row[who[b]]) + k>>]])

LowestRows(n) == SubSeq(SetToSortSeq(alloc.free_slots4, <), 1, n)

\* prepare_for_extend and run_batch: new[r] prompt tokens of each request,
\* placed by alloc_mixed in any order of the free pages.
Extend(who, new) ==
  LET toks  == NewTokens(who, new)
      typed == [i \in DOMAIN toks |-> [req |-> toks[i][1], bits |-> Bits[toks[i][1]][toks[i][2]]]]
  IN  /\ Len(stream) < MaxOut
      /\ \A r \in ToSet(who) : r \notin done /\ Len(row[r]) + new[r] <= Len(Bits[r])
      /\ CanAllocMixed(alloc, typed)
      /\ \E P \in kSubset(num_pages(alloc, typed), alloc.free_pages2) : \E pages \in SetToSeqs(P) :
           LET rows == LowestRows(n4(alloc, typed))
               loc  == Placement(alloc, typed, pages, rows)
               rows_after == RowsAfter(who, new, loc)
           IN  /\ alloc' = Take(alloc, P, ToSet(rows))
               /\ row' = rows_after
               /\ stream' = Append(stream, BatchOf("extend", who, rows_after, row, loc, toks))
      /\ UNCHANGED <<done, pool, cached>>

\* prepare_for_decode: one INT4 slot each, padded with slot 0 for the graph.
Decode(who) ==
  LET new  == [r \in Reqs |-> 1]
      pad  == IF Len(who) >= GraphBS THEN <<>> ELSE [i \in 1 .. GraphBS - Len(who) |-> i]
      rows == LowestRows(Len(who))
      rows_after == RowsAfter(who, new, rows)
  IN  /\ Len(stream) < MaxOut
      /\ \A r \in ToSet(who) : r \notin done /\ Len(row[r]) >= Len(Bits[r]) /\ Len(row[r]) < MaxLen[r]
      /\ Len(who) <= available_size_int4(alloc)
      /\ alloc' = Take(alloc, {}, ToSet(rows))
      /\ row' = rows_after
      /\ stream' = Append(stream,
           BatchOf("decode", who, rows_after, row,
                   rows \o [i \in DOMAIN pad |-> 0],
                   NewTokens(who, new) \o [i \in DOMAIN pad |-> NoToken]))
      /\ UNCHANGED <<done, pool, cached>>

\* The layer's write of the batch at the head of the stream.
Grouping(b) == IF b.kind = "extend" THEN _grouping(cached, b.obj, b.loc) ELSE cached

Written(b) ==
  IF b.kind = "extend"
  THEN set_kv_buffer(pool[b.layer], Grouping(b).grp, b.toks)
  ELSE set_kv_buffer_int4(pool[b.layer], b.loc, b.toks)

\* forward_extend or forward_decode of one layer.
ForwardLayer ==
  /\ stream # <<>>
  /\ LET b == Head(stream)
     IN  /\ pool' = [pool EXCEPT ![b.layer] = Written(b)]
         /\ cached' = Grouping(b)
         /\ stream' = IF b.layer = Layers THEN Tail(stream)
                      ELSE [stream EXCEPT ![1].layer = @ + 1]
  /\ UNCHANGED <<alloc, row, done>>

\* A request finishes when its result is processed, with at most one more
\* batch of it out; its slots are free at once.
Finish(r) ==
  /\ r \notin done
  /\ row[r] # <<>>
  /\ OutWith(r) <= 1
  /\ alloc' = free(alloc, ToSet(row[r]))
  /\ row' = [row EXCEPT ![r] = <<>>]
  /\ done' = done \cup {r}
  /\ UNCHANGED <<stream, pool, cached>>

Batches == {q \in UNION {[1 .. n -> Reqs] : n \in 1 .. Cardinality(Reqs)} : IsInjective(q)}

Next ==
  \/ \E who \in Batches :
       \/ \E new \in [ToSet(who) -> 1 .. MaxChunk] : Extend(who, new)
       \/ Decode(who)
  \/ ForwardLayer
  \/ \E r \in Reqs : Finish(r)

Spec == Init /\ [][Next]_vars

-----------------------------------------------------------------------------
\* In every layer attention reads, for every request of the batch, the keys
\* and values of all its tokens in position order and nothing else: through
\* the scratch rows of an extend batch, or from the pool in a decode batch.
AttendsOwnTokens ==
  stream # <<>> =>
    LET b     == Head(stream)
        buf   == Written(b)
        reads == IF b.kind = "extend" THEN extend_reads(buf, b.reqs, b.toks)
                 ELSE decode_reads(buf, b.reqs)
    IN  \A i \in DOMAIN b.who : \A p \in 1 .. b.reqs[i].len :
          reads[i][p] = <<<<b.who[i], p>>, <<b.who[i], p>>>>

\* The INT2 slots of a batch are whole pages (the assertion of _grouping),
\* and the tokens of a page are of one request in position order: the group
\* whose keys are quantized together.
PagesOfOneRequest ==
  \A n \in DOMAIN stream :
    LET loc  == stream[n].loc
        toks == stream[n].toks
    IN  stream[n].kind = "extend" =>
          /\ WholePages(loc)
          /\ \A i, j \in DOMAIN loc :
               (loc[i] < offset /\ loc[j] < offset /\ PageOf(loc[i]) = PageOf(loc[j]))
                  => /\ toks[i][1] = toks[j][1]
                     /\ loc[i] < loc[j] <=> toks[i][2] < toks[j][2]

=============================================================================
