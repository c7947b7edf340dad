------------------------------ MODULE MCDFlash2 ------------------------------
(***************************************************************************)
(* Inputs for model checking DFlash2Speculator.                            *)
(***************************************************************************)
EXTENDS DFlash2Speculator, TLC

Lane(id, unary) == [id |-> id, unary |-> unary]

(* Two lanes of a three-word vocabulary: the candidates overlap from draft *)
(* to draft, the best unary score is not always in lane 0, and the last    *)
(* pair is what flashinfer's top-k may emit for a NaN row: ids at or past  *)
(* the end of the logits row, which the clamps make one and the same token.*)
TwoLanes == { 0 :> Lane(0, 2) @@ 1 :> Lane(1, 1),
              0 :> Lane(1, 1) @@ 1 :> Lane(2, 1),
              0 :> Lane(4, 1) @@ 1 :> Lane(5, 0) }

(* Without that pair, for the runs with two requests.                      *)
OverlappingLanes == { res \in TwoLanes : res[0].id < VocabSize }

(* Three lanes of a four-word vocabulary (BLOCK_K is 4: one masked lane).  *)
ThreeLanes == { 0 :> Lane(0, 2) @@ 1 :> Lane(1, 1) @@ 2 :> Lane(3, 0),
                0 :> Lane(3, 1) @@ 1 :> Lane(2, 1) @@ 2 :> Lane(1, 0),
                0 :> Lane(6, 1) @@ 1 :> Lane(6, 1) @@ 2 :> Lane(0, 1) }

(* Successor 2 gains after predecessor 0 and no finite score follows token *)
(* VocabSize - 1; after predecessor 1 only successor 0 is NaN.             *)
Edge(p, c) == IF p = VocabSize - 1 THEN NaN
              ELSE IF p = 0 /\ c = 2 THEN 3
              ELSE IF p = 1 /\ c = 0 THEN NaN ELSE 0

Edges == { [p \in Token |-> [c \in Token |-> Edge(p, c)]] }

GreedyAndSampled == { [s \in Slots |-> IF s = 0 THEN 0 ELSE 1] }
GreedyOrSampled == { [s \in Slots |-> 0], [s \in Slots |-> 1] }
=============================================================================
