---------------------------- MODULE MCDFlashContext ----------------------------
(***************************************************************************)
(* Drafts of two layers with two heads of two numbers for model checking   *)
(* DFlashContext: without layer types, full, sliding and mixed, with and   *)
(* without use_swa, windows, explicit causality and mask embeddings.       *)
(***************************************************************************)
EXTENDS DFlashContext

MCTokens == {[state |-> "a", position |-> 4], [state |-> "b", position |-> 7]}

Untyped == [i \in {} |-> "full"]
Types == {Untyped} \union {f \in [0 .. 1 -> {"full", "sliding"}] : f[0] = "full" \/ f[1] = "sliding"}
Draft(types, useSwa, causal, file) ==
    [types |-> types, useSwa |-> useSwa, swaWindow |-> Unset, window |-> 8,
     isCausal |-> "unset", causal |-> causal, maskToken |-> TRUE, maskFile |-> file]

MCDrafts ==
    {Draft(types, useSwa, "unset", "own") : types \in Types, useSwa \in BOOLEAN}
    \union {Draft([i \in 0 .. 1 |-> "sliding"], FALSE, "no", "other"),
            [Draft(Untyped, TRUE, "unset", "none") EXCEPT !.window = Unset],
            [Draft(Untyped, TRUE, "yes", "none") EXCEPT !.swaWindow = 16]}
=============================================================================
