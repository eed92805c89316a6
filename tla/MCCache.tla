------------------------------ MODULE MCCache ------------------------------
(***************************************************************************)
(* Two requests that share a prefix, in a cache of one INT2 page and three *)
(* INT4 slots: one request fits, two only if they share.                   *)
(***************************************************************************)
EXTENDS CacheSpec

CONSTANTS r1, r2

MCFull == (r1 :> <<1, 2, 3, 4>>) @@ (r2 :> <<1, 2, 5, 6>>)

MCPromptLen == (r1 :> 2) @@ (r2 :> 3)

MCBits == (r1 :> <<2, 4>>) @@ (r2 :> <<2, 2, 4>>)

=============================================================================
