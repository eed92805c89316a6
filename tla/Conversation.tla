---------------------------- MODULE Conversation ----------------------------
(***************************************************************************)
(* Prompts as a chat template writes them: a conversation that grows by    *)
(* messages, text, images, and reasoning, tool-call and tool-response      *)
(* spans.  Each prompt is tagged as a whole (managers/triaxial_tagger.py), *)
(* and a longer one reuses the cache entries of a shorter one, so what the *)
(* tagger says of one token in two successive prompts matters.             *)
(*                                                                         *)
(* meaning records, for every token, what the writer meant it to be.       *)
(***************************************************************************)
EXTENDS Tagger

CONSTANTS
  Policies,       \* the policies the server may be started with
  MaxPieces,      \* bound on the pieces of a conversation
  MayTruncate     \* whether a message may end inside an open span

ConversationAssumption ==
  MaxPieces \in Nat /\ MayTruncate \in BOOLEAN

VARIABLES ids, meaning, role, span, policy, pieces

vars == <<ids, meaning, role, span, policy, pieces>>

none == "none"

Turns == Cardinality({p \in DOMAIN meaning : meaning[p].starts_turn})

\* Append tokens that all mean label; first tells whether they open a turn.
Write(toks, label, first) ==
  /\ pieces < MaxPieces
  /\ pieces' = pieces + 1
  /\ ids' = ids \o toks
  /\ meaning' = meaning \o
       [k \in DOMAIN toks |-> [semantic    |-> IF toks[k] \in {"w", "img"} THEN label ELSE "delim",
                               turn        |-> Turns + (IF first THEN 1 ELSE 0),
                               starts_turn |-> first /\ k = 1]]
  /\ UNCHANGED policy

Init ==
  /\ ids = <<>>
  /\ meaning = <<>>
  /\ role = none
  /\ span = none
  /\ policy \in Policies
  /\ pieces = 0

StartMessage(r) ==
  /\ role = none
  /\ Write(<<"im_start", r, "newline">>, none, r = "user")
  /\ role' = r
  /\ UNCHANGED span

Meant ==
  IF span # none THEN span
  ELSE CASE role = "system" -> "inst"
         [] role = "tool"   -> "obs"
         [] OTHER           -> role

Text ==
  /\ role # none
  /\ Write(<<"w">>, Meant, FALSE)
  /\ UNCHANGED <<role, span>>

\* Screenshots come in user messages.
Image ==
  /\ role = "user"
  /\ Write(<<"vision_start", "img", "vision_end">>, "obs", FALSE)
  /\ UNCHANGED <<role, span>>

Brackets(s) ==
  CASE s = "reasoning" -> <<"think_start", "think_end">>
    [] s = "tool_call" -> <<"tool_call_start", "tool_call_end">>
    [] s = "obs"       -> <<"tool_resp_start", "tool_resp_end">>

OpenSpan(s) ==
  /\ span = none
  /\ role = IF s = "obs" THEN "user" ELSE "assistant"
  /\ Write(<<Brackets(s)[1]>>, s, FALSE)
  /\ span' = s
  /\ UNCHANGED role

CloseSpan ==
  /\ span # none
  /\ Write(<<Brackets(span)[2]>>, span, FALSE)
  /\ span' = none
  /\ UNCHANGED role

EndMessage ==
  /\ role # none
  /\ span = none \/ MayTruncate
  /\ Write(<<"im_end", "newline">>, none, FALSE)
  /\ role' = none
  /\ span' = none

Next ==
  \/ \E r \in {"system", "user", "assistant", "tool"} : StartMessage(r)
  \/ Text
  \/ Image
  \/ \E s \in {"reasoning", "tool_call", "obs"} : OpenSpan(s)
  \/ CloseSpan
  \/ EndMessage

Spec == Init /\ [][Next]_vars

-----------------------------------------------------------------------------
\* How many turns ago, named; what precedes the first turn is older, and
\* without a user turn everything is current.
Age(p) ==
  LET ago == Turns - meaning[p].turn
  IN  IF Turns = 0 THEN "current"
      ELSE IF meaning[p].turn = 0 \/ ago > 2 THEN "older"
      ELSE <<"current", "m1", "m2">>[ago + 1]

\* tag(), which works on whole arrays and overwrites labels pass by pass,
\* gives every token the turn, the modality and the part of the message it
\* was written for.
TagsMeanMessages ==
  LET codes == tag(ids)
  IN  \A p \in DOMAIN ids :
        tag_name(codes[p]) =
          <<Age(p), IF ids[p] = "img" THEN "image" ELSE "text", meaning[p].semantic>>

\* With the built-in policies a token never deserves more bits in a later
\* prompt than in an earlier one: an entry kept in the prefix cache, which
\* keeps the precision it was first stored with, is never too coarse.
BitsDrop ==
  LET before == bits(policy, ids)
      after  == bits(policy, ids')
  IN  \A p \in DOMAIN ids : after[p] <= before[p]

\* TriaxialPolicy: "the first matching rule wins, missing axes match
\* everything", whatever the order in which the table is filled.
FirstRuleWins ==
  \A code \in 0 .. 55 :
    LET first == {i \in DOMAIN policy.rules : Matches(policy.rules[i], tag_name(code))}
    IN  lut(policy)[code] =
          IF first = {} THEN policy.default ELSE policy.rules[Earliest(first)].bits

\* <|im_end|> and the newline after it are scaffolding, in every message.
EndIsScaffold ==
  LET codes == tag(ids)
  IN  \A p \in DOMAIN ids :
        (ids[p] = "im_end" \/ (ids[p] = "newline" /\ p > 1 /\ ids[p - 1] = "im_end"))
           => tag_name(codes[p])[3] = "delim"

=============================================================================
