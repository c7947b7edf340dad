-------------------------------- MODULE MCGates --------------------------------
(***************************************************************************)
(* Small sizes for model checking Gates: windows of 3 to 14 tokens, prompts *)
(* of up to 24 sentences of one or two tokens each.                        *)
(***************************************************************************)
EXTENDS Gates

MCKinds == {"semantic", "sanity", "long", "niah", "context"}
MCMarks == <<6, 9>>
MCWindows == {3, 6, 7, 8, 11, 14}
MCFractions == <<10, 20, 40, 95>>

Linear(base, unit) == [n \in 0 .. 24 |-> base + unit * n]
Uneven == [n \in 0 .. 24 |-> 1 + n + n \div 2]
MCCounts == {Linear(1, 1), Uneven, Linear(9, 1)}
=============================================================================
