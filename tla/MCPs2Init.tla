----------------------------- MODULE MCPs2Init -----------------------------
(* Model checking of Ps2Init: 0x47 and 0x45 are what firmware leaves with   *)
(* and without a second port; without one, 0x45 reads as 0x55 once port 1   *)
(* is disabled, which is also the answer of a passed self-test.            *)
EXTENDS Ps2Init

TwoPorts == {71}
OnePort  == {69}

Prompt       == {FALSE}
LateAnswers  == {TRUE}
PromptOrLate == {FALSE, TRUE}
=============================================================================
