------------------------------ MODULE SlotPool ------------------------------
(***************************************************************************)
(* What a slot allocator promises its callers, whatever its free lists     *)
(* look like: a slot has at most one owner, slots are granted only when    *)
(* nobody owns them, and the reported free size is the capacity less the   *)
(* slots in use.  SGLang's idle leak check relies on the last one.         *)
(***************************************************************************)
EXTENDS Integers, FiniteSets

CONSTANTS Slot, Capacity

VARIABLES
  owned,      \* slots in use: with a caller, or waiting in a free group
  reported    \* what available_size() answers

poolVars == <<owned, reported>>

PoolInit == owned = {} /\ reported = Capacity

Grant ==
  \E S \in SUBSET (Slot \ owned) :
    /\ owned' = owned \cup S
    /\ reported' = reported - Cardinality(S)

Return ==
  \E S \in SUBSET owned :
    /\ owned' = owned \ S
    /\ reported' = reported + Cardinality(S)

PoolSpec == PoolInit /\ [][Grant \/ Return]_poolVars

=============================================================================
