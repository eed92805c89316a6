----------------------------- MODULE MCAdapters -----------------------------
(***************************************************************************)
(* One request for an adapter and one call that unloads it; the request    *)
(* may be aborted while it is in the waiting queue.                        *)
(***************************************************************************)
EXTENDS LoRAUpdates

MCPaths == "r1" :> <<"a">>

MCCalls == "x1" :> [op |-> "unload", name |-> "a"]

MCInitNames == <<"a">>

=============================================================================
