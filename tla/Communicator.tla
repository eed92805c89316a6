----------------------------- MODULE Communicator -----------------------------
(***************************************************************************)
(* _Communicator of managers/tokenizer_communicator_mixin.py: coroutines   *)
(* of the tokenizer take turns to converse with the schedulers, in the     *)
(* queueing mode.  Each scheduler answers every message once; a message    *)
(* and an answer are named by the caller that sent the message.            *)
(*                                                                         *)
(* comm is [event, values, ready]: the event of the conversation under way *)
(* (its number, or None), the answers so far (or None), and the callers in *)
(* _ready_queue.  Events that were set are in fired; a caller woken by an  *)
(* event runs later, after whatever was runnable before it.                *)
(***************************************************************************)
EXTENDS Integers, Sequences, SequencesExt, FiniteSets

CONSTANTS
    Callers,    \* coroutines, each calling once
    FanOut      \* number of schedulers (dp_size)

CommunicatorAssumption == FanOut \in Nat \ {0}

VARIABLES comm, pc, waitsFor, fired, got, inbox, answers

vars == <<comm, pc, waitsFor, fired, got, inbox, answers>>

None == "None"
NoValues == <<None>>
Schedulers == 1..FanOut
NewComm == [event |-> None, values |-> NoValues, ready |-> <<>>]

\* inbox[s]: messages for scheduler s; answers: on their way back, in order of
\* sending per scheduler.
Init ==
    /\ comm = NewComm
    /\ pc = [c \in Callers |-> "new"]
    /\ waitsFor = [c \in Callers |-> None]
    /\ fired = {}
    /\ got = [c \in Callers |-> NoValues]
    /\ inbox = [s \in Schedulers |-> <<>>]
    /\ answers = [s \in Schedulers |-> <<>>]

\* Send the message and open a conversation, whose event is named by c.
Start(c) ==
    /\ comm' = [comm EXCEPT !.event = c, !.values = <<>>]
    /\ inbox' = [s \in Schedulers |-> Append(inbox[s], c)]
    /\ waitsFor' = [waitsFor EXCEPT ![c] = c]
    /\ pc' = [pc EXCEPT ![c] = "waiting"]
    /\ UNCHANGED <<fired, got, answers>>

\* No caller queues.
MustQueue_never == FALSE

MustQueue == comm.event # None \/ comm.ready # <<>>

queueing_call(c) ==
    /\ pc[c] = "new"
    /\ IF MustQueue
       THEN /\ comm' = [comm EXCEPT !.ready = Append(@, c)]
            /\ pc' = [pc EXCEPT ![c] = "queued"]
            /\ UNCHANGED <<waitsFor, fired, got, inbox, answers>>
       ELSE Start(c)

\* The caller whose turn it is asserts that the conversation is over.
Turn(c) ==
    /\ pc[c] = "turn"
    /\ IF comm.event = None /\ comm.values = NoValues THEN Start(c)
       ELSE /\ pc' = [pc EXCEPT ![c] = "AssertionError"]
            /\ UNCHANGED <<comm, waitsFor, fired, got, inbox, answers>>

\* Nobody is told that the conversation is over.
Over_silent == [comm EXCEPT !.event = None, !.values = NoValues]

\* The conversation ends, and the first in the queue has its turn.
Over == [comm EXCEPT !.event = None, !.values = NoValues,
                     !.ready = IF @ = <<>> THEN @ ELSE Tail(@)]

Return(c) ==
    /\ pc[c] = "waiting" /\ waitsFor[c] \in fired
    /\ got' = [got EXCEPT ![c] = comm.values]
    /\ comm' = Over
    /\ pc' = [d \in Callers |->
                 IF d = c THEN "done"
                 ELSE IF d \in Range(comm.ready) \ Range(comm'.ready) THEN "turn" ELSE pc[d]]
    /\ UNCHANGED <<waitsFor, fired, inbox, answers>>

------------------------------------------------------------------------------
Answer(s) ==
    /\ inbox[s] # <<>>
    /\ inbox' = [inbox EXCEPT ![s] = Tail(@)]
    /\ answers' = [answers EXCEPT ![s] = Append(@, Head(inbox[s]))]
    /\ UNCHANGED <<comm, pc, waitsFor, fired, got>>

\* The first answer wakes the caller.
Complete_first(values) == Len(values) >= 1

Complete(values) == Len(values) = FanOut

\* An answer without a conversation is an exception in the loop that receives.
handle_recv(s) ==
    /\ answers[s] # <<>>
    /\ comm.values # NoValues
    /\ answers' = [answers EXCEPT ![s] = Tail(@)]
    /\ comm' = [comm EXCEPT !.values = Append(@, Head(answers[s]))]
    /\ fired' = IF Complete(comm'.values) THEN fired \cup {comm.event} ELSE fired
    /\ UNCHANGED <<pc, waitsFor, got, inbox>>

Next ==
    \/ \E c \in Callers : queueing_call(c) \/ Turn(c) \/ Return(c)
    \/ \E s \in Schedulers : Answer(s) \/ handle_recv(s)

Spec == Init /\ [][Next]_vars

\* Coroutines that can run do, and schedulers answer.
Fairness ==
    /\ \A c \in Callers : WF_vars(Turn(c) \/ Return(c))
    /\ \A s \in Schedulers : WF_vars(Answer(s)) /\ WF_vars(handle_recv(s))

LiveSpec == Spec /\ Fairness

------------------------------------------------------------------------------
\* "Only run up to 1 in-flight request at any time."
OneInFlight ==
    \A c, d \in Callers : pc[c] = "waiting" /\ pc[d] = "waiting" => c = d

\* A caller gets one answer of every scheduler, each to its own message.
OwnAnswers ==
    \A c \in Callers : pc[c] = "done" => got[c] = [s \in Schedulers |-> c]

\* Every answer that arrives belongs to a conversation: handle_recv appends to
\* its values without a check.
AnswerExpected == \A s \in Schedulers : answers[s] # <<>> => comm.values # NoValues

\* The assertions of queueing_call hold: a caller's turn comes when the
\* conversation is free.
TurnIsFree == \A c \in Callers : pc[c] # "AssertionError"

\* Nobody is forgotten in the queue: every call returns or fails.
CallEnds(c) == pc[c] # "new" ~> pc[c] \in {"done", "AssertionError"}

===============================================================================
