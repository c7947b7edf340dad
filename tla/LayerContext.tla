------------------------------ MODULE LayerContext ------------------------------
(***************************************************************************)
(* What the context keys and values of a DFlash draft are meant to be: for *)
(* every layer by itself, what DFlashQwen3Attention.forward computes of a  *)
(* context state with that layer's weights, at the state's position.       *)
(***************************************************************************)
EXTENDS Integers

CONSTANTS Layers, Heads, Dim, Contexts, MaxLoads

VARIABLES
    weights,     \* number of the load the weights are from, 0 for dummy weights
    cache        \* layer -> slot -> what was stored last

None == [kind |-> "none"]

(* A number of the projection is known by the state and by the row of      *)
(* weights it is the product of.                                           *)
HeadOf(part, layer, state, n) ==
    [d \in 0 .. Dim - 1 |->
        [state |-> state,
         row |-> [load |-> weights, layer |-> layer, part |-> part, head |-> n, dim |-> d]]]

(* Keys are normalized head by head and rotated, values are not.           *)
Entry(layer, token) ==
    [kind |-> "kv",
     k |-> [n \in 0 .. Heads - 1 |->
              [of |-> HeadOf("k", layer, token.state, n),
               norm |-> [load |-> weights, layer |-> layer],
               position |-> token.position]],
     v |-> [n \in 0 .. Heads - 1 |-> HeadOf("v", layer, token.state, n)]]

(* The context that a layer gets: tokens, each with a slot of its own.     *)
Stored(layer, context) ==
    [s \in DOMAIN cache[layer] |->
        IF \E i \in DOMAIN context : context[i].slot = s
        THEN Entry(layer, context[CHOOSE i \in DOMAIN context : context[i].slot = s])
        ELSE cache[layer][s]]

Init == weights = 0 /\ \A l \in DOMAIN cache : \A s \in DOMAIN cache[l] : cache[l][s] = None

Load == weights' \in 1 .. MaxLoads /\ UNCHANGED cache

Store ==
    /\ \E context \in [0 .. Layers - 1 -> Contexts] :
          cache' = [l \in 0 .. Layers - 1 |-> Stored(l, context[l])]
    /\ UNCHANGED weights

Spec == Init /\ [][Load \/ Store]_<<weights, cache>>
=============================================================================
