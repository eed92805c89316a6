---------------------------- MODULE MCScheduler ----------------------------
(***************************************************************************)
(* Three requests; the prompts of two share their first token.             *)
(***************************************************************************)
EXTENDS Scheduler

CONSTANTS r1, r2, r3

MCFull == (r1 :> <<1, 2, 3, 4, 5>>) @@ (r2 :> <<1, 5, 6, 7, 8>>) @@ (r3 :> <<2, 2, 3>>)

MCPromptLen == (r1 :> 2) @@ (r2 :> 3) @@ (r3 :> 2)

MCBits == (r1 :> <<2, 4>>) @@ (r2 :> <<2, 2, 4>>) @@ (r3 :> <<2, 2>>)

=============================================================================
