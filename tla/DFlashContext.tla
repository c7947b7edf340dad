----------------------------- MODULE DFlashContext -----------------------------
(***************************************************************************)
(* The DFlash draft model of qwen3_dflash.py: what its config makes of     *)
(* each layer's attention, what loading a checkpoint does, and the fused   *)
(* computation of the context's keys and values for all layers at once.    *)
(*                                                                         *)
(* Simplifications.                                                        *)
(*  - A number is known by the state and the row of weights it comes from; *)
(*    normalizing and rotating a head is known by weight and position.     *)
(*  - Head sizes and the rotation's parameters are those of one config for *)
(*    all layers, as the assertions of _build_fused_kv_buffers demand; no  *)
(*    biases, no tensor parallelism, no quantized projections.             *)
(*  - Loading puts all weights in place or ends the process.  The norm of  *)
(*    the states before the projection, which is an alias, is left out.    *)
(***************************************************************************)
EXTENDS Integers, FiniteSets, Functions, Sequences

CONSTANTS
    Layers, Heads, Dim,   \* num_hidden_layers, num_kv_heads, head_dim
    QSize,                \* rows of q in qkv_proj
    Tokens,               \* context tokens: [state, position]
    MaxTokens,            \* of a call
    Slots,                \* of a layer's cache
    Drafts,               \* configs of draft models
    MaxLoads, MaxStores

ASSUME ContextAssumption ==
    /\ {Layers, Heads, Dim} \subseteq Nat \ {0}
    /\ QSize \in Nat /\ MaxTokens \in Nat /\ MaxLoads \in Nat /\ MaxStores \in Nat

VARIABLES
    draft,       \* the config
    v2,          \* use_v2_model_runner
    pc,
    layers,      \* layer -> its sliding window and whether it is causal
    weights,     \* number of the load the weights are from, 0 for dummy weights
    mask,        \* the separate mask embedding, by its load
    fused,       \* weights stacked for the context
    cache,       \* layer -> slot -> what was stored last
    stores

modelVars == <<draft, v2, layers>>
vars == <<modelVars, pc, weights, mask, fused, cache, stores>>

LayerIds == 0 .. Layers - 1
KvSize == Heads * Dim
None == [kind |-> "none"]
NoBuffers == [rows |-> <<>>, norms |-> <<>>]
-----------------------------------------------------------------------------
(***************************************************************************)
(* _resolve_layer_attention.  A config lists the types of its layers or    *)
(* does not; sizes and flags it does not give are unset.                   *)
(***************************************************************************)
Unset == -1
Listed == DOMAIN draft.types # {}
IsSliding(i) == draft.types[i] = "sliding"
NumSliding == IF Listed THEN Cardinality({i \in LayerIds : IsSliding(i)}) ELSE 0

(* A draft with one full layer taken for one without.                      *)
MixedButOne == Listed /\ 0 < NumSliding /\ NumSliding < Layers - 1

Mixed == Listed /\ 0 < NumSliding /\ NumSliding < Layers

Slides(i) == IF ~Listed \/ (draft.useSwa /\ NumSliding = 0) THEN draft.useSwa ELSE IsSliding(i)

WindowSize == IF draft.swaWindow # Unset THEN draft.swaWindow ELSE draft.window

Causal(i) ==
    IF draft.isCausal # "unset" THEN draft.isCausal = "yes"
    ELSE IF draft.causal # "unset" THEN draft.causal = "yes"
    ELSE Listed /\ IsSliding(i)

Resolved(i) == [window |-> IF Slides(i) THEN WindowSize ELSE Unset, causal |-> Causal(i)]

Refused == (Mixed /\ ~v2) \/ ((\E i \in LayerIds : Slides(i)) /\ WindowSize = Unset)

Build ==
    /\ pc = "config"
    /\ IF Refused THEN pc' = "failed" /\ UNCHANGED layers
       ELSE pc' = "built" /\ layers' = [i \in LayerIds |-> Resolved(i)]
    /\ UNCHANGED <<draft, v2, weights, mask, fused, cache, stores>>
-----------------------------------------------------------------------------
(***************************************************************************)
(* Loading.                                                                *)
(***************************************************************************)

(* QKVParallelLinear has the rows of q, then those of k, then of v, each   *)
(* head by head.                                                           *)
QkvRow(load, layer, r) ==
    LET j == (r - QSize) % KvSize
    IN  [load |-> load, layer |-> layer,
         part |-> IF r < QSize THEN "q" ELSE IF r < QSize + KvSize THEN "k" ELSE "v",
         head |-> j \div Dim, dim |-> j % Dim]

(* The rows of k and v of all layers behind each other, and a stack of the *)
(* weights of their norms: copies, which a later load does not change.     *)
Buffers(load) ==
    [rows |-> [c \in 0 .. Layers * 2 * KvSize - 1 |->
                  QkvRow(load, c \div (2 * KvSize), QSize + (c % (2 * KvSize)))],
     norms |-> [i \in LayerIds |-> [load |-> load, layer |-> i]]]

(* A call that finds none, as weights were never loaded, makes them.       *)
BuffersIfMissing(load) == IF fused = NoBuffers THEN Buffers(load) ELSE fused

(* A load that never uses the file.                                        *)
KeepMask(load) == mask

(* The mask embedding is read where the config names a mask token.  A file *)
(* that is missing leaves what there is.                                   *)
MaskRead(load) ==
    IF draft.maskToken /\ draft.maskFile = "own" THEN [kind |-> "mask", load |-> load] ELSE mask

(* A mask file for another token ends the load.                            *)
LoadWeights ==
    /\ pc = "built" /\ weights < MaxLoads
    /\ IF draft.maskToken /\ draft.maskFile = "other"
       THEN pc' = "failed" /\ UNCHANGED <<weights, mask, fused>>
       ELSE /\ weights' = weights + 1
            /\ mask' = MaskRead(weights + 1)
            /\ fused' = Buffers(weights + 1)
            /\ UNCHANGED pc
    /\ UNCHANGED <<draft, v2, layers, cache, stores>>

(* What a masked slot of the query is embedded as.                         *)
MaskedSlot ==
    IF mask # None /\ draft.maskToken THEN mask ELSE [kind |-> "table", load |-> weights]
-----------------------------------------------------------------------------
(***************************************************************************)
(* precompute_and_store_context_kv, for n context tokens.                  *)
(***************************************************************************)

(* view(num_ctx, L, 2, nkv, hd): the column of the product at an index of  *)
(* the view.                                                               *)
Column(layer, part, head, dim) == ((layer * 2 + part) * Heads + head) * Dim + dim

(* The head at one index of the permuted copy [2, L, num_ctx, nkv, hd].    *)
Projected(buffers, tokens, part, layer, i, head) ==
    [dim \in 0 .. Dim - 1 |->
        [state |-> tokens[i + 1].state,
         row |-> buffers.rows[Column(layer, part, head, dim)]]]

(* Positions that are repeated one by one instead of all together.         *)
Interleaved(tokens, r) == tokens[(r \div Layers) + 1].position

Position(tokens, r) == tokens[(r % Len(tokens)) + 1].position

(* Keys are normalized by the outermost index and rotated as L * num_ctx   *)
(* rows.                                                                   *)
KeyRow(buffers, tokens, r) ==
    LET layer == r \div Len(tokens)
    IN  [head \in 0 .. Heads - 1 |->
            [of |-> Projected(buffers, tokens, 0, layer, r % Len(tokens), head),
             norm |-> buffers.norms[layer],
             position |-> Position(tokens, r)]]

Computed(buffers, tokens, layer, i) ==
    [kind |-> "kv",
     k |-> KeyRow(buffers, tokens, layer * Len(tokens) + i),
     v |-> [head \in 0 .. Heads - 1 |-> Projected(buffers, tokens, 1, layer, i, head)]]

(* do_kv_cache_update, for a layer with a mapping from tokens to slots.    *)
Updated(buffers, tokens, layer, slots) ==
    [s \in Slots |->
        IF s \in Range(slots)
        THEN LET i == CHOOSE i \in DOMAIN slots : slots[i] = s
             IN  Computed(buffers, tokens, layer, i - 1)
        ELSE cache[layer][s]]

(* One mapping for all layers, one for each, or none in a dummy run.       *)
Mappings(n) ==
    LET one == {m \in [1 .. n -> Slots] : \A i, j \in 1 .. n : m[i] = m[j] => i = j}
    IN  [LayerIds -> one \union {<<>>}]

StoreContext ==
    /\ pc = "built" /\ stores < MaxStores
    /\ stores' = stores + 1
    /\ fused' = BuffersIfMissing(weights)
    /\ \E n \in 1 .. MaxTokens : \E tokens \in [1 .. n -> Tokens], slots \in Mappings(n) :
          cache' = [l \in LayerIds |-> Updated(fused', tokens, l, slots[l])]
    /\ UNCHANGED <<draft, v2, layers, pc, weights, mask>>
-----------------------------------------------------------------------------
Init ==
    /\ draft \in Drafts /\ v2 \in BOOLEAN
    /\ pc = "config"
    /\ layers = <<>>
    /\ weights = 0 /\ mask = None /\ fused = NoBuffers
    /\ cache = [l \in LayerIds |-> [s \in Slots |-> None]]
    /\ stores = 0

Next == Build \/ LoadWeights \/ StoreContext

Spec == Init /\ [][Next]_vars
-----------------------------------------------------------------------------
(* What a slot of a layer holds is what the layer would have computed by   *)
(* itself, with its present weights, of the token stored there last: the   *)
(* fused rows, the views, the repeated positions and copies of the weights *)
(* make no difference.                                                     *)
Stored == {[state |-> t.state, position |-> t.position, slot |-> s] : t \in Tokens, s \in Slots}
Contexts ==
    {c \in UNION {[1 .. n -> Stored] : n \in 0 .. MaxTokens} :
        \A i, j \in DOMAIN c : c[i].slot = c[j].slot => i = j}

PerLayer == INSTANCE LayerContext
ImplementsLayers == PerLayer!Spec

(* Layers with different windows are only built for the V2 runner, which   *)
(* has several groups of caches, though windows also come from use_swa.    *)
WindowsFitRunner ==
    pc = "built" /\ ~v2 => \A i, j \in LayerIds : layers[i].window = layers[j].window

(* A masked slot is embedded as the checkpoint in place has it: by its     *)
(* file if it has one, else by its table.                                  *)
MaskIsCurrent ==
    weights > 0 /\ draft.maskToken =>
        MaskedSlot = [kind |-> IF draft.maskFile = "own" THEN "mask" ELSE "table",
                      load |-> weights]

=============================================================================
