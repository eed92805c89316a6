------------------------------- MODULE Tagger -------------------------------
(***************************************************************************)
(* The TriAxialKV tagger (managers/triaxial_tagger.py): from the token ids *)
(* of a prompt to a (temporal, modal, semantic) tag and a bitwidth for     *)
(* every token.                                                            *)
(*                                                                         *)
(* A token is named after its role in the chat template; "w" is any other  *)
(* token and "img" an image or video pad; the tokenizer is taken to know   *)
(* all of them as single tokens.  Positions start at 1, and the exclusive  *)
(* end of a message is the position after its last token.                  *)
(***************************************************************************)
EXTENDS Integers, Sequences, FiniteSets, SequencesExt

TemporalAxis == <<"older", "m2", "m1", "current">>

ModalAxis == <<"text", "image">>

SemanticAxis == <<"inst", "user", "assistant", "reasoning", "tool_call", "obs", "delim">>

Tags == [t : 0 .. 3, m : 0 .. 1, s : 0 .. 6]

tag_id(tag) == (tag.t * 2 + tag.m) * 7 + tag.s

tag_name(code) ==
  <<TemporalAxis[code \div 14 + 1], ModalAxis[((code \div 7) % 2) + 1], SemanticAxis[(code % 7) + 1]>>

-----------------------------------------------------------------------------
(***************************************************************************)
(* The policy.  A rule names the values it matches on each axis; an axis   *)
(* the JSON leaves out holds every value.                                  *)
(***************************************************************************)
Rule(ts, ms, ss, b) == [temporal |-> ts, modal |-> ms, semantic |-> ss, bits |-> b]

AnyT == ToSet(TemporalAxis)

AnyM == ToSet(ModalAxis)

AnyS == ToSet(SemanticAxis)

Matches(rule, name) ==
  name[1] \in rule.temporal /\ name[2] \in rule.modal /\ name[3] \in rule.semantic

Applied(table, rule) ==
  [code \in 0 .. 55 |-> IF Matches(rule, tag_name(code)) THEN rule.bits ELSE table[code]]

\* Mutant: the rules are applied in the order they are written.
lut_in_order(policy) ==
  FoldLeft(Applied, [code \in 0 .. 55 |-> policy.default], policy.rules)

\* The lookup table: rules overwrite it from the last to the first.
lut(policy) ==
  FoldLeft(Applied, [code \in 0 .. 55 |-> policy.default], Reverse(policy.rules))

Scaffold == Rule(AnyT, AnyM, {"inst", "delim", "tool_call"}, 4)

default_policy ==
  [default |-> 2, rules |-> <<Scaffold, Rule({"current"}, {"text"}, AnyS, 4)>>]

\* The turns that are past are the ones protected.
current_int4_past ==
  [default |-> 2, rules |-> <<Scaffold, Rule({"older", "m1", "m2"}, AnyM, AnyS, 4)>>]

current_int4 ==
  [default |-> 2, rules |-> <<Scaffold, Rule({"current"}, AnyM, AnyS, 4)>>]

Uniform(b) == [default |-> b, rules |-> <<>>]

-----------------------------------------------------------------------------
(***************************************************************************)
(* tag: segmentation into messages, semantic axis, temporal axis.          *)
(***************************************************************************)
Positions(ids, name) == {p \in DOMAIN ids : ids[p] = name}

At(ids, p, name) == p \in Positions(ids, name)

Earliest(S) == CHOOSE p \in S : \A q \in S : p <= q

InOrder(S) == SetToSortSeq(S, <)

Assign(labels, S, label) == [p \in DOMAIN labels |-> IF p \in S THEN label ELSE labels[p]]

\* A message without a role word, at the very end of the prompt, is a user's.
Role(ids, st) ==
  CASE At(ids, st + 1, "system")    -> "inst"
    [] At(ids, st + 1, "assistant") -> "assistant"
    [] At(ids, st + 1, "tool")      -> "obs"
    [] OTHER                        -> "user"

MsgEnd(ids, st) ==
  LET ends == {p \in Positions(ids, "im_end") : p > st}
  IN  IF ends = {} THEN Len(ids) + 1 ELSE Earliest(ends) + 1

Msg(ids, st) == [st |-> st, en |-> MsgEnd(ids, st), role |-> Role(ids, st)]

Msgs(ids) ==
  LET starts == InOrder(Positions(ids, "im_start"))
  IN  [k \in DOMAIN starts |-> Msg(ids, starts[k])]

\* Mutant: a span keeps its label on the bracket that closes it.
mark_span_open_only(ids, labels, msg, open, close, label) ==
  LET opens  == {p \in Positions(ids, open) : p \in msg.st .. msg.en - 1}
      closes == {p \in Positions(ids, close) : p \in msg.st .. msg.en - 1}
      Mark(sem, o) ==
        LET c     == {p \in closes : p > o}
            c_end == IF c = {} THEN msg.en ELSE Earliest(c)
        IN  Assign(Assign(sem, o .. c_end, label), {o}, "delim")
  IN  FoldLeft(Mark, labels, InOrder(opens))

\* Without a closing bracket the slice runs one token past the message.
_mark_span(ids, labels, msg, open, close, label) ==
  LET opens  == {p \in Positions(ids, open) : p \in msg.st .. msg.en - 1}
      closes == {p \in Positions(ids, close) : p \in msg.st .. msg.en - 1}
      Mark(sem, o) ==
        LET c     == {p \in closes : p > o}
            c_end == IF c = {} THEN msg.en ELSE Earliest(c)
        IN  Assign(Assign(sem, o .. c_end, label),
                   {o} \cup (IF c = {} THEN {} ELSE {c_end}), "delim")
  IN  FoldLeft(Mark, labels, InOrder(opens))

\* <|im_start|>, the role word, the newlines and <|im_end|> of a message.
ScaffoldOf(ids, msg) ==
  {msg.st, msg.st + 1}
    \cup {p \in {msg.st + 2} : At(ids, p, "newline")}
    \cup {p \in {msg.en - 1} : At(ids, p, "im_end")}
    \cup {p \in {msg.en} : At(ids, p, "newline") /\ At(ids, p - 1, "im_end")}

MarkMsg(ids, labels, msg) ==
  LET base == Assign(Assign(labels, msg.st .. msg.en - 1, msg.role),
                     ScaffoldOf(ids, msg), "delim")
      seen == Assign(base, Positions(ids, "img") \cap (msg.st .. msg.en - 1), "obs")
  IN  CASE msg.role = "user" ->
             _mark_span(ids, seen, msg, "tool_resp_start", "tool_resp_end", "obs")
        [] msg.role = "assistant" ->
             _mark_span(ids,
               _mark_span(ids, base, msg, "think_start", "think_end", "reasoning"),
               msg, "tool_call_start", "tool_call_end", "tool_call")
        [] OTHER -> base

Semantic(ids) ==
  LET Mark(labels, msg) == MarkMsg(ids, labels, msg)
  IN  Assign(FoldLeft(Mark, [p \in DOMAIN ids |-> "user"], Msgs(ids)),
             Positions(ids, "vision_start") \cup Positions(ids, "vision_end"), "delim")

\* 3 is the current turn, 0 is older: what precedes the first user turn is.
Temporal(ids) ==
  LET user_starts == {msg.st : msg \in {x \in ToSet(Msgs(ids)) : x.role = "user"}}
      Dist(p)     == Cardinality({st \in user_starts : st > p})
  IN  [p \in DOMAIN ids |->
         IF user_starts = {} THEN 3
         ELSE IF Dist(p) = Cardinality(user_starts) \/ Dist(p) > 3 THEN 0
         ELSE 3 - Dist(p)]

tag(ids) ==
  LET semantic == Semantic(ids)
      temporal == Temporal(ids)
  IN  [p \in DOMAIN ids |->
         tag_id([t |-> temporal[p],
                 m |-> IF ids[p] = "img" THEN 1 ELSE 0,
                 s |-> (CHOOSE k \in 1 .. 7 : SemanticAxis[k] = semantic[p]) - 1])]

bits(policy, ids) ==
  LET codes == tag(ids)
      table == lut(policy)
  IN  [p \in DOMAIN ids |-> table[codes[p]]]

=============================================================================
