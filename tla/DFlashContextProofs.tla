-------------------------- MODULE DFlashContextProofs --------------------------
(***************************************************************************)
(* Proofs about DFlashContext: for any number of layers, heads, numbers of *)
(* a head, tokens and slots, the fused computation of the context stores   *)
(* what each layer would have computed by itself; layers with different    *)
(* windows are built for the V2 runner alone; and masked slots are         *)
(* embedded as the last checkpoint loaded has them.                        *)
(***************************************************************************)
EXTENDS DFlashContext, FiniteSetTheorems, SequenceTheorems, TLAPS

(* The stacked copies are of the present weights: every load makes them    *)
(* anew, and the first call makes those of dummy weights.                  *)
FusedIsCurrent == fused = NoBuffers \/ fused = Buffers(weights)

CacheShape ==
    /\ weights \in Nat
    /\ cache = [l \in LayerIds |-> [s \in Slots |-> cache[l][s]]]

ContextInv == FusedIsCurrent /\ CacheShape

(* What was built is what the config resolves to, and was not refused.     *)
BuiltInv ==
    pc = "built" => ~Refused /\ layers = [i \in LayerIds |-> Resolved(i)]

LEMMA Sizes == Layers \in Nat \ {0} /\ Heads \in Nat \ {0} /\ Dim \in Nat \ {0}
               /\ QSize \in Nat /\ MaxLoads \in Nat
BY ContextAssumption
-----------------------------------------------------------------------------
(***************************************************************************)
(* Indices.                                                                *)
(***************************************************************************)

(* Quotient and remainder of an index that was put together from them.     *)
LEMMA DivMod ==
    ASSUME NEW b \in Nat \ {0}, NEW q \in Nat, NEW r \in 0 .. b - 1
    PROVE  (q * b + r) \div b = q /\ (q * b + r) % b = r
<1> DEFINE x == q * b + r
           y == x \div b
           z == x % b
<1>1. x \in Nat
    OBVIOUS
<1>2. y \in Int /\ z \in 0 .. b - 1 /\ x = b * y + z
    BY <1>1
<1> HIDE DEF y, z
<1>3. b * (y - q) = r - z
    BY <1>2
<1>4. y - q < 1
    <2> SUFFICES ASSUME y - q >= 1 PROVE FALSE
        BY <1>2
    <2>1. b * (y - q) >= b
        BY <1>2
    <2> QED
        BY <1>2, <1>3, <2>1
<1>5. y - q > -1
    <2> SUFFICES ASSUME y - q <= -1 PROVE FALSE
        BY <1>2
    <2>1. b * (y - q) <= -b
        BY <1>2
    <2> QED
        BY <1>2, <1>3, <2>1
<1>6. y = q
    BY <1>2, <1>4, <1>5
<1> QED
    BY <1>2, <1>3, <1>6 DEF y, z

(* An index of a matrix with n rows of b columns is inside it.             *)
LEMMA Inside ==
    ASSUME NEW b \in Nat \ {0}, NEW n \in Nat, NEW q \in 0 .. n - 1, NEW r \in 0 .. b - 1
    PROVE  q * b + r \in 0 .. n * b - 1
<1>1. q * b + r \in Nat /\ n * b \in Nat /\ q * b \in Nat /\ (n - q) * b \in Nat
    OBVIOUS
<1>2. (n - q) * b = n * b - q * b
    OBVIOUS
<1>3. (n - q) * b >= b
    <2>1. n - q - 1 \in Nat /\ (n - q - 1) * b \in Nat
        OBVIOUS
    <2>2. (n - q - 1) * b = (n - q) * b - b
        OBVIOUS
    <2> QED
        BY <1>1, <2>1, <2>2
<1> QED
    BY <1>1, <1>2, <1>3

LEMMA KvSizes == KvSize \in Nat \ {0} /\ 2 * KvSize \in Nat \ {0}
<1>1. Heads * Dim >= 1
    BY Sizes
<1> QED
    BY Sizes, <1>1 DEF KvSize

(* The column that the view names is, in the stacked rows, the row of that *)
(* layer, that head and that number.                                       *)
LEMMA RowOfColumn ==
    ASSUME NEW load, NEW l \in LayerIds, NEW part \in {0, 1},
           NEW h \in 0 .. Heads - 1, NEW d \in 0 .. Dim - 1
    PROVE  Buffers(load).rows[Column(l, part, h, d)] =
              [load |-> load, layer |-> l, part |-> IF part = 0 THEN "k" ELSE "v",
               head |-> h, dim |-> d]
<1> DEFINE j == h * Dim + d
           rest == part * KvSize + j
           c == l * (2 * KvSize) + rest
<1>1. j \in 0 .. KvSize - 1
    BY Sizes, Inside DEF KvSize
<1>2. rest \in 0 .. 2 * KvSize - 1
    BY Inside, KvSizes, <1>1
<1>3. c \in 0 .. Layers * (2 * KvSize) - 1
    BY Sizes, Inside, KvSizes, <1>2 DEF LayerIds
<1>4. c \div (2 * KvSize) = l /\ c % (2 * KvSize) = rest
    BY DivMod, Sizes, KvSizes, <1>2 DEF LayerIds
<1>5. rest % KvSize = j
    BY DivMod, KvSizes, <1>1
<1>6. j \div Dim = h /\ j % Dim = d
    BY DivMod, Sizes
<1>7. Column(l, part, h, d) = c
    <2>1. ((l * 2 + part) * Heads + h) * Dim + d
             = l * (2 * (Heads * Dim)) + (part * (Heads * Dim) + (h * Dim + d))
        BY Sizes DEF LayerIds
    <2> QED
        BY <2>1 DEF Column, KvSize
<1>8. Layers * 2 * KvSize = Layers * (2 * KvSize)
    BY Sizes, KvSizes
<1> HIDE DEF j, rest, c
<1>9. Buffers(load).rows[c] = QkvRow(load, l, QSize + rest)
    BY <1>3, <1>4, <1>8 DEF Buffers
<1>10. QSize + rest - QSize = rest /\ QSize + rest >= QSize
    BY Sizes, KvSizes, <1>2
<1>11. QSize + rest < QSize + KvSize <=> part = 0
    BY Sizes, KvSizes, <1>1, <1>2 DEF rest
<1> QED
    BY <1>5, <1>6, <1>7, <1>9, <1>10, <1>11, Sizes, KvSizes, <1>2 DEF QkvRow
-----------------------------------------------------------------------------
(***************************************************************************)
(* One call.                                                               *)
(***************************************************************************)

(* A head of the fused projection is the layer's own head.                 *)
LEMMA ProjectedIsOwn ==
    ASSUME NEW tokens, NEW l \in LayerIds, NEW part \in {0, 1}, NEW i,
           NEW h \in 0 .. Heads - 1
    PROVE  Projected(Buffers(weights), tokens, part, l, i, h)
              = PerLayer!HeadOf(IF part = 0 THEN "k" ELSE "v", l, tokens[i + 1].state, h)
<1>1. \A d \in 0 .. Dim - 1 :
          Buffers(weights).rows[Column(l, part, h, d)] =
              [load |-> weights, layer |-> l, part |-> IF part = 0 THEN "k" ELSE "v",
               head |-> h, dim |-> d]
    BY RowOfColumn
<1> QED
    BY <1>1 DEF Projected, PerLayer!HeadOf

(* What the call computes of token i for layer l is the layer's own entry. *)
LEMMA ComputedIsOwn ==
    ASSUME NEW n \in Nat \ {0}, NEW tokens \in [1 .. n -> Tokens],
           NEW l \in LayerIds, NEW i \in 1 .. n, NEW token,
           token.state = tokens[i].state, token.position = tokens[i].position
    PROVE  Computed(Buffers(weights), tokens, l, i - 1) = PerLayer!Entry(l, token)
<1>1. Len(tokens) = n
    BY LenProperties
<1>2. i - 1 \in 0 .. n - 1 /\ l \in Nat /\ (i - 1) + 1 = i
    BY Sizes DEF LayerIds
<1>3. (l * n + (i - 1)) \div n = l /\ (l * n + (i - 1)) % n = i - 1
    BY DivMod, <1>2
<1>4. Position(tokens, l * n + (i - 1)) = token.position
    BY <1>1, <1>2, <1>3 DEF Position
<1>5. Buffers(weights).norms[l] = [load |-> weights, layer |-> l]
    BY DEF Buffers
<1>6. \A h \in 0 .. Heads - 1 :
          /\ Projected(Buffers(weights), tokens, 0, l, i - 1, h)
                = PerLayer!HeadOf("k", l, token.state, h)
          /\ Projected(Buffers(weights), tokens, 1, l, i - 1, h)
                = PerLayer!HeadOf("v", l, token.state, h)
    BY ProjectedIsOwn, <1>2
<1>7. KeyRow(Buffers(weights), tokens, l * n + (i - 1)) =
          [h \in 0 .. Heads - 1 |->
              [of |-> PerLayer!HeadOf("k", l, token.state, h),
               norm |-> [load |-> weights, layer |-> l],
               position |-> token.position]]
    BY <1>1, <1>3, <1>4, <1>5, <1>6 DEF KeyRow
<1> QED
    BY <1>1, <1>6, <1>7 DEF Computed, PerLayer!Entry

(* The tokens a layer gets, each with its slot.                            *)
Given(tokens, slots) ==
    [i \in DOMAIN slots |-> [state |-> tokens[i].state, position |-> tokens[i].position,
                             slot |-> slots[i]]]

(* What a mapping of a call can be for one layer.                          *)
LEMMA OneMapping ==
    ASSUME NEW n \in Nat, NEW slots \in Mappings(n), NEW l \in LayerIds
    PROVE  /\ slots[l] \in [1 .. n -> Slots] \/ slots[l] = <<>>
           /\ \A i, j \in DOMAIN slots[l] : slots[l][i] = slots[l][j] => i = j
BY DEF Mappings

LEMMA GivenIsContext ==
    ASSUME NEW n \in 1 .. MaxTokens, NEW tokens \in [1 .. n -> Tokens],
           NEW slots \in Mappings(n), NEW l \in LayerIds
    PROVE  Given(tokens, slots[l]) \in Contexts
<1> DEFINE m == slots[l]
           g == Given(tokens, m)
<1>0. n \in Nat /\ MaxTokens \in Nat
    BY ContextAssumption
<1>1. \E k \in 0 .. MaxTokens : k <= n /\ m \in [1 .. k -> Slots]
    <2>1. CASE m \in [1 .. n -> Slots]
        BY <1>0, <2>1
    <2>2. CASE m = <<>>
        <3>1. <<>> \in [1 .. 0 -> Slots]
            OBVIOUS
        <3> QED
            BY <1>0, <2>2, <3>1
    <2> QED
        BY <1>0, <2>1, <2>2, OneMapping
<1>2. PICK k \in 0 .. MaxTokens : k <= n /\ m \in [1 .. k -> Slots]
    BY <1>1
<1>3. \A i \in 1 .. k : tokens[i] \in Tokens /\ m[i] \in Slots
    BY <1>0, <1>2
<1>4. g \in [1 .. k -> Stored]
    BY <1>2, <1>3 DEF Given, Stored
<1>5. \A i, j \in DOMAIN g : g[i].slot = g[j].slot => i = j
    BY <1>0, <1>2, OneMapping DEF Given
<1> QED
    BY <1>4, <1>5 DEF Contexts

(* A layer's update is the layer's own.                                    *)
LEMMA UpdateIsOwn ==
    ASSUME CacheShape,
           NEW n \in 1 .. MaxTokens, NEW tokens \in [1 .. n -> Tokens],
           NEW slots \in Mappings(n), NEW l \in LayerIds
    PROVE  Updated(Buffers(weights), tokens, l, slots[l])
              = PerLayer!Stored(l, Given(tokens, slots[l]))
<1> DEFINE m == slots[l]
           g == Given(tokens, m)
<1>0. n \in Nat \ {0} /\ DOMAIN cache[l] = Slots
    BY ContextAssumption DEF CacheShape
<1>1. DOMAIN m \subseteq 1 .. n /\ \A i, j \in DOMAIN m : m[i] = m[j] => i = j
    BY <1>0, OneMapping
<1>2. DOMAIN g = DOMAIN m /\ \A i \in DOMAIN m : g[i].slot = m[i]
                                /\ g[i].state = tokens[i].state
                                /\ g[i].position = tokens[i].position
    BY DEF Given
<1> HIDE DEF m, g
<1>3. ASSUME NEW s \in Slots
      PROVE  Updated(Buffers(weights), tokens, l, m)[s] = PerLayer!Stored(l, g)[s]
    <2>1. CASE \E i \in DOMAIN m : m[i] = s
        <3>1. PICK i \in DOMAIN m : m[i] = s
            BY <2>1
        <3>2. (CHOOSE k \in DOMAIN m : m[k] = s) = i
            BY <1>1, <3>1
        <3>3. (CHOOSE k \in DOMAIN g : g[k].slot = s) = i
            BY <1>1, <1>2, <3>1
        <3>4. Computed(Buffers(weights), tokens, l, i - 1) = PerLayer!Entry(l, g[i])
            BY ComputedIsOwn, <1>0, <1>1, <1>2, <3>1
        <3>5. s \in Range(m) /\ \E k \in DOMAIN g : g[k].slot = s
            BY <1>2, <3>1 DEF Range
        <3>6. Updated(Buffers(weights), tokens, l, m)[s]
                 = Computed(Buffers(weights), tokens, l, i - 1)
            BY <3>2, <3>5 DEF Updated
        <3>7. PerLayer!Stored(l, g)[s] = PerLayer!Entry(l, g[i])
            BY <1>0, <3>3, <3>5 DEF PerLayer!Stored
        <3> QED
            BY <3>4, <3>6, <3>7
    <2>2. CASE ~ \E i \in DOMAIN m : m[i] = s
        <3>1. s \notin Range(m) /\ ~ \E k \in DOMAIN g : g[k].slot = s
            BY <1>2, <2>2 DEF Range
        <3> QED
            BY <1>0, <3>1 DEF Updated, PerLayer!Stored
    <2> QED
        BY <2>1, <2>2
<1>4. /\ Updated(Buffers(weights), tokens, l, m)
            = [s \in Slots |-> Updated(Buffers(weights), tokens, l, m)[s]]
      /\ PerLayer!Stored(l, g) = [s \in Slots |-> PerLayer!Stored(l, g)[s]]
    BY <1>0 DEF Updated, PerLayer!Stored
<1> QED
    BY <1>3, <1>4 DEF m, g
-----------------------------------------------------------------------------
(***************************************************************************)
(* Steps.                                                                  *)
(***************************************************************************)
LEMMA InitContext == Init => ContextInv /\ PerLayer!Init
<1> SUFFICES ASSUME Init PROVE ContextInv /\ PerLayer!Init
    OBVIOUS
<1>1. ContextInv
    BY DEF Init, ContextInv, FusedIsCurrent, CacheShape
<1>2. PerLayer!Init
    BY DEF Init, PerLayer!Init, None, PerLayer!None
<1> QED
    BY <1>1, <1>2

LEMMA LoadImplements ==
    ContextInv /\ LoadWeights => ContextInv' /\ (PerLayer!Load \/ UNCHANGED <<weights, cache>>)
<1> SUFFICES ASSUME ContextInv, LoadWeights
             PROVE  ContextInv' /\ (PerLayer!Load \/ UNCHANGED <<weights, cache>>)
    OBVIOUS
<1>1. cache' = cache
    BY DEF LoadWeights
<1>2. CASE UNCHANGED <<weights, fused>>
    BY <1>1, <1>2 DEF ContextInv, FusedIsCurrent, CacheShape, Buffers, QkvRow
<1>3. CASE weights' = weights + 1 /\ fused' = Buffers(weights + 1)
    <2>1. weights' \in 1 .. MaxLoads
        BY <1>3, Sizes DEF LoadWeights, ContextInv, CacheShape
    <2>2. ContextInv'
        BY <1>1, <1>3, <2>1 DEF ContextInv, FusedIsCurrent, CacheShape, Buffers, QkvRow
    <2> QED
        BY <1>1, <2>1, <2>2 DEF PerLayer!Load
<1> QED
    BY <1>2, <1>3 DEF LoadWeights

LEMMA StoreImplements == ContextInv /\ StoreContext => ContextInv' /\ PerLayer!Store
<1> SUFFICES ASSUME ContextInv, StoreContext PROVE ContextInv' /\ PerLayer!Store
    OBVIOUS
<1>1. weights' = weights /\ fused' = Buffers(weights)
    BY DEF StoreContext, BuffersIfMissing, ContextInv, FusedIsCurrent
<1>2. PICK n \in 1 .. MaxTokens :
          \E tokens \in [1 .. n -> Tokens], slots \in Mappings(n) :
             cache' = [l \in LayerIds |-> Updated(Buffers(weights), tokens, l, slots[l])]
    BY <1>1 DEF StoreContext
<1>3. PICK tokens \in [1 .. n -> Tokens], slots \in Mappings(n) :
          cache' = [l \in LayerIds |-> Updated(Buffers(weights), tokens, l, slots[l])]
    BY <1>2
<1> DEFINE context == [l \in LayerIds |-> Given(tokens, slots[l])]
<1>4. context \in [LayerIds -> Contexts]
    BY GivenIsContext
<1>5. cache' = [l \in LayerIds |-> PerLayer!Stored(l, context[l])]
    BY <1>3, UpdateIsOwn DEF ContextInv
<1>6. PerLayer!Store
    BY <1>1, <1>4, <1>5 DEF PerLayer!Store, LayerIds
<1>7. CacheShape'
    <2>1. \A l \in LayerIds :
              Updated(Buffers(weights), tokens, l, slots[l])
                 = [s \in Slots |-> Updated(Buffers(weights), tokens, l, slots[l])[s]]
        BY DEF Updated
    <2> QED
        BY <1>1, <1>3, <2>1 DEF CacheShape, ContextInv
<1>8. FusedIsCurrent'
    BY <1>1 DEF FusedIsCurrent, Buffers, QkvRow
<1> QED
    BY <1>6, <1>7, <1>8 DEF ContextInv

LEMMA NextContext ==
    ContextInv /\ [Next]_vars =>
        ContextInv' /\ [PerLayer!Load \/ PerLayer!Store]_<<weights, cache>>
<1> SUFFICES ASSUME ContextInv, [Next]_vars
             PROVE  ContextInv' /\ [PerLayer!Load \/ PerLayer!Store]_<<weights, cache>>
    OBVIOUS
<1>1. CASE UNCHANGED vars \/ Build
    <2>1. UNCHANGED <<weights, fused, cache>>
        BY <1>1 DEF vars, Build
    <2> QED
        BY <2>1 DEF ContextInv, FusedIsCurrent, CacheShape, Buffers, QkvRow
<1>2. CASE LoadWeights
    BY <1>2, LoadImplements
<1>3. CASE StoreContext
    BY <1>3, StoreImplements
<1> QED
    BY <1>1, <1>2, <1>3 DEF Next

(* The fused precomputation, with its copies of the weights, implements    *)
(* layers that each compute their own context keys and values, whatever    *)
(* the sizes, the tokens, the slots and the loads.                         *)
THEOREM FusedIsPerLayer == Spec => ImplementsLayers
<1>1. Init => ContextInv /\ PerLayer!Init
    BY InitContext
<1>2. ContextInv /\ [Next]_vars =>
          ContextInv' /\ [PerLayer!Load \/ PerLayer!Store]_<<weights, cache>>
    BY NextContext
<1> QED
    BY <1>1, <1>2, PTL DEF Spec, ImplementsLayers, PerLayer!Spec
-----------------------------------------------------------------------------
(***************************************************************************)
(* Windows.                                                                *)
(***************************************************************************)

(* Types that are not mixed make all layers slide, or none.                *)
LEMMA SlideAlike ==
    ASSUME ~Mixed, NEW i \in LayerIds, NEW j \in LayerIds
    PROVE  Slides(i) = Slides(j)
<1> DEFINE S == {k \in LayerIds : IsSliding(k)}
<1>1. IsFiniteSet(LayerIds) /\ Cardinality(LayerIds) = Layers
    <2>1. Cardinality(0 .. Layers - 1) = (Layers - 1) - 0 + 1
        BY FS_Interval, Sizes
    <2> QED
        BY FS_Interval, Sizes, <2>1 DEF LayerIds
<1>2. IsFiniteSet(S) /\ Cardinality(S) \in Nat /\ Cardinality(S) <= Layers
      /\ (Cardinality(S) = Layers => S = LayerIds)
    BY FS_Subset, FS_CardinalityType, <1>1
<1>3. CASE ~Listed
    BY <1>3 DEF Slides
<1>4. CASE Listed /\ NumSliding = 0
    <2>1. S = {}
        BY <1>2, <1>4, FS_EmptySet DEF NumSliding
    <2>2. ~IsSliding(i) /\ ~IsSliding(j)
        BY <2>1
    <2> QED
        BY <1>4, <2>2 DEF Slides, IsSliding
<1>5. CASE Listed /\ NumSliding # 0
    <2>1. Cardinality(S) = Layers
        BY <1>2, <1>5, Sizes DEF Mixed, NumSliding
    <2>2. IsSliding(i) /\ IsSliding(j)
        BY <1>2, <2>1
    <2> QED
        BY <1>5, <2>2 DEF Slides, IsSliding
<1> QED
    BY <1>3, <1>4, <1>5

LEMMA BuiltMatches == BuiltInv => WindowsFitRunner
<1> SUFFICES ASSUME BuiltInv, pc = "built", ~v2, NEW i \in LayerIds, NEW j \in LayerIds
             PROVE  layers[i].window = layers[j].window
    BY DEF WindowsFitRunner
<1>1. Slides(i) = Slides(j)
    BY SlideAlike DEF BuiltInv, Refused
<1>2. layers[i] = Resolved(i) /\ layers[j] = Resolved(j)
    BY DEF BuiltInv
<1> QED
    BY <1>1, <1>2 DEF Resolved

LEMMA NextBuilt == BuiltInv /\ [Next]_vars => BuiltInv'
<1> USE DEF BuiltInv, Refused, Mixed, NumSliding, Slides, Listed, IsSliding, WindowSize,
            Resolved, Causal
<1>1. BuiltInv /\ UNCHANGED vars => BuiltInv'
    BY DEF vars, modelVars
<1>2. BuiltInv /\ Build => BuiltInv'
    BY DEF Build
<1>3. BuiltInv /\ (LoadWeights \/ StoreContext) => BuiltInv'
    <2>1. LoadWeights \/ StoreContext =>
              UNCHANGED <<draft, v2, layers>> /\ (pc' = "built" => pc = "built")
        BY DEF LoadWeights, StoreContext
    <2> QED
        BY <2>1
<1> QED
    BY <1>1, <1>2, <1>3 DEF Next

(* On the V1 runner all layers that are built have one window.             *)
THEOREM WindowsAreAlike == Spec => []WindowsFitRunner
<1>1. Init => BuiltInv
    BY DEF Init, BuiltInv
<1>2. BuiltInv /\ [Next]_vars => BuiltInv'
    BY NextBuilt
<1>3. BuiltInv => WindowsFitRunner
    BY BuiltMatches
<1> QED
    BY <1>1, <1>2, <1>3, PTL DEF Spec
-----------------------------------------------------------------------------
(***************************************************************************)
(* The mask embedding.                                                     *)
(***************************************************************************)

(* There is a separate embedding, of the last load, when the config names  *)
(* a mask token and the checkpoint has the file for it.                    *)
MaskInv ==
    /\ weights \in Nat
    /\ mask = IF weights > 0 /\ draft.maskToken /\ draft.maskFile = "own"
              THEN [kind |-> "mask", load |-> weights] ELSE None

LEMMA NextMask == MaskInv /\ [Next]_vars => MaskInv'
<1> SUFFICES ASSUME MaskInv, [Next]_vars PROVE MaskInv'
    OBVIOUS
<1>1. CASE Build \/ StoreContext \/ UNCHANGED vars
    <2>1. UNCHANGED <<draft, weights, mask>>
        BY <1>1 DEF Build, StoreContext, vars, modelVars
    <2> QED
        BY <2>1 DEF MaskInv, None
<1>2. CASE LoadWeights
    <2>1. CASE UNCHANGED <<draft, weights, mask>>
        BY <2>1 DEF MaskInv, None
    <2>2. CASE draft' = draft /\ weights' = weights + 1 /\ mask' = MaskRead(weights + 1)
        BY <2>2 DEF MaskInv, None, MaskRead
    <2> QED
        BY <1>2, <2>1, <2>2 DEF LoadWeights
<1> QED
    BY <1>1, <1>2 DEF Next

(* A masked slot is embedded as the last checkpoint loaded has it, though  *)
(* a load without the file leaves the embedding it finds: which of them    *)
(* a draft has does not change from one load to the next.                  *)
THEOREM MasksAreCurrent == Spec => []MaskIsCurrent
<1>1. Init => MaskInv
    BY DEF Init, MaskInv
<1>2. MaskInv => MaskIsCurrent
    BY DEF MaskInv, MaskIsCurrent, MaskedSlot, None
<1> QED
    BY <1>1, <1>2, NextMask, PTL DEF Spec
=============================================================================
