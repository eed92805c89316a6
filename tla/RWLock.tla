------------------------------- MODULE RWLock -------------------------------
(***************************************************************************)
(* The reader-writer lock of utils/aio_rwlock.py, used by TokenizerManager *)
(* (model_update_lock: requests read, weight updates write) and by         *)
(* LoRARegistry.                                                           *)
(*                                                                         *)
(* The inner asyncio.Lock is never held across a suspension except inside  *)
(* Condition.wait, which gives it up, so each method is one atomic step up *)
(* to the point where it falls asleep.  notify_all only makes the sleepers *)
(* runnable ("woken"); each tests its condition again when the event loop  *)
(* resumes it, and other tasks may run in between.  A task that waits may  *)
(* be cancelled, asleep or already woken (MayCancel).                      *)
(***************************************************************************)
EXTENDS Integers, FiniteSets

CONSTANTS Readers, Writers, MayCancel

ASSUME RWLockAssumption ==
    /\ IsFiniteSet(Readers)
    /\ IsFiniteSet(Writers)
    /\ Readers \cap Writers = {}
    /\ MayCancel \in BOOLEAN

VARIABLES
    lock,  \* [readers, writer_active, waiting_writers]
    pc     \* per task: "out", "asleep", "woken" or "in"

vars == <<lock, pc>>

Tasks == Readers \cup Writers

In(S) == {t \in S : pc[t] = "in"}
Waiting(S) == {t \in S : pc[t] \in {"asleep", "woken"}}

------------------------------------------------------------------------------
NewLock == [readers |-> 0, writer_active |-> FALSE, waiting_writers |-> 0]

\* A task that looks only at the writer that is in.
MustWait_active(l) == l.writer_active

ReaderMustWait(l) == l.writer_active \/ l.waiting_writers > 0
WriterMustWait(l) == l.writer_active \/ l.readers > 0

notify_all == [t \in Tasks |-> IF pc[t] = "asleep" THEN "woken" ELSE pc[t]]

Init ==
    /\ lock = NewLock
    /\ pc = [t \in Tasks |-> "out"]

acquire_reader(t) ==
    /\ pc[t] \in {"out", "woken"}
    /\ IF ReaderMustWait(lock)
       THEN /\ pc' = [pc EXCEPT ![t] = "asleep"]
            /\ UNCHANGED lock
       ELSE /\ pc' = [pc EXCEPT ![t] = "in"]
            /\ lock' = [lock EXCEPT !.readers = @ + 1]

release_reader_silent(t) ==
    /\ pc[t] = "in"
    /\ lock' = [lock EXCEPT !.readers = @ - 1]
    /\ pc' = [pc EXCEPT ![t] = "out"]

release_reader(t) ==
    /\ pc[t] = "in"
    /\ lock' = [lock EXCEPT !.readers = @ - 1]
    /\ pc' = [(IF lock'.readers = 0 THEN notify_all ELSE pc) EXCEPT ![t] = "out"]

\* The first attempt counts the writer as waiting; a resumed one is counted.
counted(t) == lock.waiting_writers + (IF pc[t] = "out" THEN 1 ELSE 0)

acquire_writer(t) ==
    /\ pc[t] \in {"out", "woken"}
    /\ IF WriterMustWait(lock)
       THEN /\ pc' = [pc EXCEPT ![t] = "asleep"]
            /\ lock' = [lock EXCEPT !.waiting_writers = counted(t)]
       ELSE /\ pc' = [pc EXCEPT ![t] = "in"]
            /\ lock' = [lock EXCEPT !.waiting_writers = counted(t) - 1,
                                    !.writer_active = TRUE]

release_writer(t) ==
    /\ pc[t] = "in"
    /\ lock' = [lock EXCEPT !.writer_active = FALSE]
    /\ pc' = [notify_all EXCEPT ![t] = "out"]

\* CancelledError out of Condition.wait: only a writer has a finally clause.
cancelled(t) ==
    /\ MayCancel
    /\ pc[t] \in {"asleep", "woken"}
    /\ pc' = [pc EXCEPT ![t] = "out"]
    /\ lock' = [lock EXCEPT !.waiting_writers = @ - (IF t \in Writers THEN 1 ELSE 0)]

ReaderStep(t) == acquire_reader(t) \/ release_reader(t)
WriterStep(t) == acquire_writer(t) \/ release_writer(t)

Next ==
    \/ \E t \in Readers : ReaderStep(t)
    \/ \E t \in Writers : WriterStep(t)
    \/ \E t \in Tasks : cancelled(t)

\* The event loop resumes every woken task and every holder goes on; nobody
\* has to ask for the lock.
Fairness ==
    /\ \A t \in Readers : WF_vars(pc[t] # "out" /\ ReaderStep(t))
    /\ \A t \in Writers : WF_vars(pc[t] # "out" /\ WriterStep(t))

Spec == Init /\ [][Next]_vars /\ Fairness

------------------------------------------------------------------------------
TypeOK ==
    /\ lock \in [readers : Nat, writer_active : BOOLEAN, waiting_writers : Nat]
    /\ pc \in [Tasks -> {"out", "asleep", "woken", "in"}]

\* A weight update never runs beside a request or another update: a writer
\* that is in is in alone (release and acquire of RWLock).
Exclusive ==
    \A w \in In(Writers) : In(Tasks) = {w}

\* The three counters of the lock are what its tasks are doing, cancelled
\* ones included; with TypeOK this is the inductive invariant.
CountsExact ==
    /\ lock.readers = Cardinality(In(Readers))
    /\ lock.waiting_writers = Cardinality(Waiting(Writers))
    /\ lock.writer_active <=> In(Writers) # {}
    /\ \A v, w \in In(Writers) : v = w
    /\ lock.readers = 0 \/ ~lock.writer_active

IInv == TypeOK /\ CountsExact

\* "to ensure fairness": a reader never gets in past a writer that waits
\* (acquire_reader's second condition).
WritersFirst ==
    [][Waiting(Writers) # {} => In(Readers)' \subseteq In(Readers)]_vars

\* A task asleep is asleep behind somebody: when no task is in and none has
\* been woken, nobody sleeps (the notify_all of both release methods).
NobodyForgotten ==
    In(Tasks) = {} /\ (\A t \in Tasks : pc[t] # "woken")
        => \A t \in Tasks : pc[t] # "asleep"

\* Readers that keep coming do not starve the writers: whenever one waits,
\* one gets in (the waiting_writers count of acquire_reader).
WriterGetsIn == Waiting(Writers) # {} ~> In(Writers) # {}

==============================================================================
