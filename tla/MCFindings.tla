----------------------------- MODULE MCFindings -----------------------------
(***************************************************************************)
(* One instance for each question whose answer the code gets wrong.        *)
(***************************************************************************)
EXTENDS Scheduler

CONSTANTS r1, r2, r3

\* A prompt of INT4 tokens only, longer than the INT4 region.
Int4Full == r1 :> <<1, 2, 3, 4, 5, 6>>

Int4PromptLen == r1 :> 5

Int4Bits == r1 :> <<4, 4, 4, 4, 4>>

\* r1 leaves INT4 tokens in the tree under INT2 ones, r2 decodes.
MixedFull == (r1 :> <<1, 2, 3, 4, 5, 6, 7, 8, 9>>) @@ (r2 :> <<11, 12, 13, 14, 15>>)

MixedPromptLen == (r1 :> 8) @@ (r2 :> 1)

MixedBits == (r1 :> <<4, 4, 2, 2, 2, 2, 2, 2>>) @@ (r2 :> <<4>>)

\* r1 leaves an INT4 token in the tree, r2 is as long as the server accepts,
\* and r3 is short.
LargeFull == (r1 :> <<1, 2>>) @@ (r2 :> <<3, 4, 5, 6, 7, 8>>) @@ (r3 :> <<9, 10>>)

LargePromptLen == (r1 :> 1) @@ (r2 :> 4) @@ (r3 :> 1)

LargeBits == (r1 :> <<4>>) @@ (r2 :> <<2, 2, 2, 2>>) @@ (r3 :> <<4>>)

=============================================================================
