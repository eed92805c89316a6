---------------------------- MODULE MCAllocator ----------------------------
(***************************************************************************)
(* Instances of AllocatorSpec for TLC.  Pages of two slots are the         *)
(* smallest that can be freed in part.                                     *)
(***************************************************************************)
EXTENDS AllocatorSpec
=============================================================================
