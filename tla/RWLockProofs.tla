---------------------------- MODULE RWLockProofs ----------------------------
(***************************************************************************)
(* Proofs about RWLock for any finite sets of readers and writers, with or *)
(* without cancellation.  IInv is inductive: the counters are exactly what *)
(* the tasks are doing, so the tests of acquire_reader and acquire_writer, *)
(* which only see the counters, decide about the tasks.                    *)
(***************************************************************************)
EXTENDS RWLock, FiniteSetTheorems, TLAPS

USE RWLockAssumption

\* The sets the counters count are finite.
LEMMA FiniteParts ==
    /\ IsFiniteSet(In(Readers)) /\ IsFiniteSet(In(Writers))
    /\ IsFiniteSet(Waiting(Writers))
    /\ Cardinality(In(Readers)) \in Nat
    /\ Cardinality(Waiting(Writers)) \in Nat
<1>1. In(Readers) \in SUBSET Readers /\ In(Writers) \in SUBSET Writers
      /\ Waiting(Writers) \in SUBSET Writers
  BY DEF In, Waiting
<1>2. /\ IsFiniteSet(In(Readers)) /\ IsFiniteSet(In(Writers))
      /\ IsFiniteSet(Waiting(Writers))
  BY <1>1, FS_Subset
<1> QED
  BY <1>2, FS_CardinalityType

\* notify_all wakes sleepers and does nothing else: nobody gets in or out,
\* and those who wait go on waiting.
LEMMA NotifyKeeps ==
    ASSUME TypeOK
    PROVE  /\ notify_all \in [Tasks -> {"out", "asleep", "woken", "in"}]
           /\ \A t \in Tasks : notify_all[t] = "in" <=> pc[t] = "in"
           /\ \A t \in Tasks : notify_all[t] \in {"asleep", "woken"}
                                   <=> pc[t] \in {"asleep", "woken"}
BY DEF TypeOK, notify_all

------------------------------------------------------------------------------
\* A reader that gets in or leaves keeps the counters exact.
LEMMA ReaderPreserves ==
    ASSUME IInv, NEW t \in Readers, ReaderStep(t)
    PROVE  IInv'
<1> USE DEF IInv
<1>0. t \in Tasks /\ t \notin Writers
  BY DEF Tasks
<1>1. CASE acquire_reader(t) /\ ReaderMustWait(lock)
  <2>1. In(Readers)' = In(Readers) /\ In(Writers)' = In(Writers)
        /\ Waiting(Writers)' = Waiting(Writers)
    BY <1>0, <1>1 DEF acquire_reader, TypeOK, In, Waiting, Tasks
  <2> QED
    BY <1>0, <1>1, <2>1 DEF acquire_reader, TypeOK, CountsExact
<1>2. CASE acquire_reader(t) /\ ~ReaderMustWait(lock)
  <2>1. In(Readers)' = In(Readers) \cup {t} /\ t \notin In(Readers)
        /\ In(Writers)' = In(Writers) /\ Waiting(Writers)' = Waiting(Writers)
    BY <1>0, <1>2 DEF acquire_reader, TypeOK, In, Waiting, Tasks
  <2>2. Cardinality(In(Readers)') = Cardinality(In(Readers)) + 1
    BY Zenon, <2>1, FiniteParts, FS_AddElement
  <2> QED
    BY <1>0, <1>2, <2>1, <2>2, FiniteParts
    DEF acquire_reader, TypeOK, CountsExact, ReaderMustWait
<1>3. CASE release_reader(t)
  <2> DEFINE base == IF lock'.readers = 0 THEN notify_all ELSE pc
  <2>1. /\ base \in [Tasks -> {"out", "asleep", "woken", "in"}]
        /\ \A u \in Tasks : base[u] = "in" <=> pc[u] = "in"
        /\ \A u \in Tasks : base[u] \in {"asleep", "woken"}
                                <=> pc[u] \in {"asleep", "woken"}
    BY NotifyKeeps DEF TypeOK
  <2>2. pc' = [base EXCEPT ![t] = "out"] /\ pc[t] = "in"
    BY <1>3 DEF release_reader
  <2> HIDE DEF base
  <2>3. In(Readers)' = In(Readers) \ {t} /\ t \in In(Readers)
        /\ In(Writers)' = In(Writers) /\ Waiting(Writers)' = Waiting(Writers)
    BY <1>0, <2>1, <2>2 DEF In, Waiting, Tasks
  <2>4. Cardinality(In(Readers)') = Cardinality(In(Readers)) - 1
        /\ Cardinality(In(Readers)') \in Nat
    BY <2>3, FiniteParts, FS_RemoveElement, FS_CardinalityType
  <2>5. pc' \in [Tasks -> {"out", "asleep", "woken", "in"}]
    BY Zenon, <2>1, <2>2
  <2> QED
    BY <1>3, <2>3, <2>4, <2>5, FiniteParts DEF release_reader, TypeOK, CountsExact
<1> QED
  BY <1>1, <1>2, <1>3 DEF ReaderStep

\* A writer that waits, gets in or leaves keeps the counters exact.
LEMMA WriterPreserves ==
    ASSUME IInv, NEW t \in Writers, WriterStep(t)
    PROVE  IInv'
<1> USE DEF IInv
<1>0. t \in Tasks /\ t \notin Readers
  BY DEF Tasks
<1>1. CASE acquire_writer(t) /\ pc[t] = "out" /\ WriterMustWait(lock)
  <2>1. Waiting(Writers)' = Waiting(Writers) \cup {t} /\ t \notin Waiting(Writers)
        /\ In(Writers)' = In(Writers) /\ In(Readers)' = In(Readers)
    BY <1>0, <1>1 DEF acquire_writer, TypeOK, In, Waiting, Tasks
  <2>2. Cardinality(Waiting(Writers)') = Cardinality(Waiting(Writers)) + 1
    BY Zenon, <2>1, FiniteParts, FS_AddElement
  <2> QED
    BY <1>0, <1>1, <2>1, <2>2, FiniteParts DEF acquire_writer, counted, TypeOK, CountsExact
<1>2. CASE acquire_writer(t) /\ pc[t] = "woken" /\ WriterMustWait(lock)
  <2>1. Waiting(Writers)' = Waiting(Writers)
        /\ In(Writers)' = In(Writers) /\ In(Readers)' = In(Readers)
    BY <1>0, <1>2 DEF acquire_writer, TypeOK, In, Waiting, Tasks
  <2> QED
    BY <1>0, <1>2, <2>1, FiniteParts DEF acquire_writer, counted, TypeOK, CountsExact
<1>3. CASE acquire_writer(t) /\ ~WriterMustWait(lock)
  <2>1. In(Writers)' = {t} /\ In(Readers)' = In(Readers)
    BY <1>0, <1>3 DEF acquire_writer, TypeOK, CountsExact, WriterMustWait, In, Tasks
  <2> DEFINE n == counted(t) - 1
  <2>a. lock.readers \in Nat /\ lock.waiting_writers \in Nat
    BY DEF TypeOK
  <2>b. lock.readers = 0
    <3>1. ~(lock.readers > 0)
      BY <1>3, Zenon DEF WriterMustWait
    <3> QED
      BY <2>a, <3>1
  <2>c. lock' = [lock EXCEPT !.waiting_writers = n, !.writer_active = TRUE]
    BY <1>3, Zenon DEF acquire_writer
  <2> HIDE DEF n, counted
  <2>d. lock'.readers = 0 /\ lock'.waiting_writers = n /\ lock'.writer_active = TRUE
    BY <2>b, <2>c DEF TypeOK
  <2>e. n \in Nat => lock' \in [readers : Nat, writer_active : BOOLEAN,
                                waiting_writers : Nat]
    BY Zenon, <2>c DEF TypeOK
  <2>f. pc' \in [Tasks -> {"out", "asleep", "woken", "in"}]
    BY <1>0, <1>3 DEF acquire_writer, TypeOK
  <2>g. Cardinality(In(Readers)') = 0 /\ Cardinality(Waiting(Writers)) = lock.waiting_writers
    BY <2>1, <2>b DEF CountsExact
  <2>h. n \in Nat /\ n = Cardinality(Waiting(Writers)') => IInv'
    BY <2>1, <2>d, <2>e, <2>f, <2>g DEF TypeOK, CountsExact
  <2>2. CASE pc[t] = "out"
    <3>1. Waiting(Writers)' = Waiting(Writers)
      BY <1>0, <1>3, <2>2 DEF acquire_writer, TypeOK, Waiting, Tasks
    <3> QED
      BY <2>2, <2>a, <2>g, <2>h, <3>1, FiniteParts DEF n, counted
  <2>3. CASE pc[t] = "woken"
    <3>1. Waiting(Writers)' = Waiting(Writers) \ {t} /\ t \in Waiting(Writers)
      BY <1>0, <1>3, <2>3 DEF acquire_writer, TypeOK, Waiting, Tasks
    <3>2. Cardinality(Waiting(Writers)') = Cardinality(Waiting(Writers)) - 1
          /\ Cardinality(Waiting(Writers)') \in Nat
      BY <3>1, FiniteParts, FS_RemoveElement, FS_CardinalityType
    <3> QED
      BY <2>3, <2>a, <2>g, <2>h, <3>1, <3>2 DEF n, counted
  <2> QED
    BY <1>3, <2>2, <2>3 DEF acquire_writer
<1>4. CASE release_writer(t)
  <2>1. In(Writers)' = {} /\ In(Readers)' = In(Readers)
        /\ Waiting(Writers)' = Waiting(Writers)
    BY <1>0, <1>4, NotifyKeeps DEF release_writer, TypeOK, CountsExact, In, Waiting, Tasks
  <2>2. pc' \in [Tasks -> {"out", "asleep", "woken", "in"}]
    BY Zenon, <1>4, NotifyKeeps DEF release_writer
  <2> QED
    BY Zenon, <1>4, <2>1, <2>2 DEF release_writer, TypeOK, CountsExact
<1> QED
  BY <1>1, <1>2, <1>3, <1>4 DEF WriterStep, acquire_writer

\* A cancelled task leaves nothing behind in the counters.
LEMMA CancelPreserves ==
    ASSUME IInv, NEW t \in Tasks, cancelled(t)
    PROVE  IInv'
<1> USE DEF IInv
<1>1. In(Readers)' = In(Readers) /\ In(Writers)' = In(Writers)
  BY DEF cancelled, TypeOK, In, Tasks
<1>2. CASE t \in Writers
  <2>1. Waiting(Writers)' = Waiting(Writers) \ {t} /\ t \in Waiting(Writers)
    BY <1>2 DEF cancelled, TypeOK, Waiting, Tasks
  <2>2. Cardinality(Waiting(Writers)') = Cardinality(Waiting(Writers)) - 1
        /\ Cardinality(Waiting(Writers)') \in Nat
    BY <2>1, FiniteParts, FS_RemoveElement, FS_CardinalityType
  <2> QED
    BY <1>1, <1>2, <2>1, <2>2, FiniteParts DEF cancelled, TypeOK, CountsExact
<1>3. CASE t \notin Writers
  <2>1. Waiting(Writers)' = Waiting(Writers)
    BY <1>3 DEF cancelled, TypeOK, Waiting, Tasks
  <2> QED
    BY <1>1, <1>3, <2>1, FiniteParts DEF cancelled, TypeOK, CountsExact
<1> QED
  BY <1>2, <1>3

\* The counters of the lock are exact in every reachable state.
THEOREM LockCountsExact == Spec => []IInv
<1>1. Init => IInv
  <2> SUFFICES ASSUME Init PROVE IInv
    OBVIOUS
  <2>1. In(Readers) = {} /\ In(Writers) = {} /\ Waiting(Writers) = {}
    BY DEF Init, In, Waiting, Tasks
  <2> QED
    BY <2>1, FS_EmptySet DEF Init, NewLock, IInv, TypeOK, CountsExact
<1>2. IInv /\ [Next]_vars => IInv'
  <2> SUFFICES ASSUME IInv, [Next]_vars PROVE IInv'
    OBVIOUS
  <2>1. CASE UNCHANGED vars
    BY <2>1 DEF vars, IInv, TypeOK, CountsExact, In, Waiting
  <2> QED
    BY <2>1, ReaderPreserves, WriterPreserves, CancelPreserves DEF Next
<1> QED
  BY <1>1, <1>2, PTL DEF Spec

\* Mutual exclusion: a writer that is in is in alone.
THEOREM WriterInAlone == Spec => []Exclusive
<1>1. IInv => Exclusive
  <2> SUFFICES ASSUME IInv, NEW w \in In(Writers) PROVE In(Tasks) = {w}
    BY DEF Exclusive
  <2>1. In(Readers) = {}
    BY FiniteParts, FS_EmptySet DEF IInv, TypeOK, CountsExact
  <2> QED
    BY <2>1 DEF IInv, CountsExact, In, Tasks
<1> QED
  BY <1>1, LockCountsExact, PTL

\* Writer preference: no reader gets in past a waiting writer.
THEOREM ReadersStayBehind == Spec => WritersFirst
<1>1. IInv /\ [Next]_vars
        => [Waiting(Writers) # {} => In(Readers)' \subseteq In(Readers)]_vars
  <2> SUFFICES ASSUME IInv, Next, Waiting(Writers) # {}
               PROVE  In(Readers)' \subseteq In(Readers)
    BY DEF vars
  <2>1. lock.waiting_writers > 0
    BY FiniteParts, FS_EmptySet DEF IInv, TypeOK, CountsExact
  <2>2. CASE \E t \in Readers : ReaderStep(t)
    BY <2>1, <2>2, NotifyKeeps
    DEF ReaderStep, acquire_reader, release_reader, ReaderMustWait, In, IInv, TypeOK, Tasks
  <2>3. CASE \E t \in Writers : WriterStep(t)
    BY <2>3, NotifyKeeps
    DEF WriterStep, acquire_writer, release_writer, In, IInv, TypeOK, Tasks
  <2>4. CASE \E t \in Tasks : cancelled(t)
    BY <2>4 DEF cancelled, In, IInv, TypeOK, Tasks
  <2> QED
    BY <2>2, <2>3, <2>4 DEF Next
<1> QED
  BY <1>1, LockCountsExact, PTL DEF Spec, WritersFirst

==============================================================================
