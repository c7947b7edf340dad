---------------------- MODULE DFlash2SpeculatorProofs ----------------------
(***************************************************************************)
(* Theorems about DFlash2Speculator, for every number of requests, steps,  *)
(* candidates and words, and every output of the neural network.           *)
(***************************************************************************)
EXTENDS DFlash2Speculator, TLAPS

(* The zeros the buffers start with are a token and a lane.                *)
LEMMA Zeros == 0 \in Token /\ 0 \in Lanes /\ Token \subseteq Int /\ Rows \subseteq Int
BY SizesAssumption DEF Token, Lanes, Rows

(* Whatever the scores are, the walk picks a lane of the candidate row.    *)
LEMMA WalkIndicesAreLanes ==
    ASSUME NEW row, NEW temp
    PROVE  WalkIndices(row, temp) \subseteq Lanes
<1>1. RawIndices(row, temp) \subseteq Nat
  BY SizesAssumption DEF RawIndices, LosingIndex, FirstBest, Finite, Lanes
<1>2. QED
  BY <1>1, SizesAssumption DEF WalkIndices, ClampIndex, Lanes

(* Whatever id top-k returns, the clamps make a token of the vocabulary.   *)
LEMMA ClampIdIsToken ==
    ASSUME NEW id \in Int
    PROVE  ClampId(id) \in Token
BY SizesAssumption DEF ClampId, Clamp, Token

LEMMA TypeInit == Init => TypeOK
<1> SUFFICES ASSUME Init PROVE TypeOK
  OBVIOUS
<1> USE SizesAssumption, Zeros DEF Init, NoMapping, NoTemperature, NoAnchors, NoEdges, NoIds,
      NoScores, NoTokens, Unwritten, RawScore, Score, StoredScore
<1>1. /\ pc \in {"idle", "walk", "cache", "drafted"}
      /\ num_reqs \in 0 .. MaxNumReqs
      /\ sample_idx_mapping \in [Rows -> Slots \union {Padding}]
      /\ temperature \in [Slots -> Nat]
      /\ anchor_token_ids \in [Rows -> Token]
      /\ pending \subseteq Rows \X Steps
  OBVIOUS
<1>2. unary_logits \in [Rows -> [Steps -> [Lanes -> Int]]]
  OBVIOUS
<1>3. edges \in [Rows -> [Token -> [Token -> RawScore]]]
  OBVIOUS
<1>4. scores \in [Rows -> [Steps -> [Lanes -> [Lanes -> RawScore]]]]
  OBVIOUS
<1>5. candidate_ids \in [Rows -> [Steps -> [Lanes -> Token]]]
  OBVIOUS
<1>6. selector_tokens \in [Rows -> [Steps -> Token]] /\ draft_tokens \in [Rows -> [Steps -> Token]]
  OBVIOUS
<1>7. selector_scores \in [Rows -> [Steps -> [Lanes -> StoredScore]]]
  OBVIOUS
<1>8. draft_logits \in [Slots -> [Steps -> [Token -> StoredScore]]]
  OBVIOUS
<1>9. cached_candidate_ids \in [Slots -> [Steps -> [Lanes -> Token]]]
  OBVIOUS
<1>10. QED
  BY <1>1, <1>2, <1>3, <1>4, <1>5, <1>6, <1>7, <1>8, <1>9 DEF TypeOK

LEMMA FilledType ==
    ASSUME NEW S, NEW n \in Int, NEW rest \in [Rows -> S], NEW rows,
           \A r \in Rows : r < n => rows[r] \in S
    PROVE  Filled(n, rows, rest) \in [Rows -> S]
BY Zeros DEF Filled

LEMMA ScoreEdgesType ==
    ASSUME NEW anchor \in Token, NEW ids \in [Steps -> [Lanes -> Token]],
           NEW unary \in [Steps -> [Lanes -> Int]],
           NEW table \in [Token -> [Token -> RawScore]]
    PROVE  ScoreEdges(anchor, ids, unary, table)
             \in [Steps -> [Lanes -> [Lanes -> RawScore]]]
<1>1. ASSUME NEW i \in Steps, NEW p \in Lanes, NEW c \in Lanes
      PROVE  AddScore(unary[i][c], table[Predecessor(anchor, ids, i, p)][ids[i][c]])
               \in RawScore
  <2>1. Predecessor(anchor, ids, i, p) \in Token
    <3>1. CASE i = 0
      BY <3>1 DEF Predecessor
    <3>2. CASE i # 0
      <4>1. i - 1 \in Steps
        BY <3>2, SizesAssumption DEF Steps
      <4>2. QED
        BY <3>2, <4>1 DEF Predecessor
    <3>3. QED
      BY <3>1, <3>2
  <2>2. ids[i][c] \in Token /\ unary[i][c] \in Int
    OBVIOUS
  <2>3. table[Predecessor(anchor, ids, i, p)][ids[i][c]] \in RawScore
    BY <2>1, <2>2
  <2>4. QED
    BY <2>2, <2>3 DEF AddScore, RawScore
<1>2. QED
  BY <1>1 DEF ScoreEdges

(* At each step the walk stands on a lane.                                 *)
LEMMA PreviousIsLane ==
    ASSUME NEW path \in [Steps -> Int], NEW i \in Steps,
           i # 0 => path[i - 1] \in Lanes
    PROVE  Previous(path, i) \in Lanes /\ (i # 0 => i - 1 \in Steps)
BY Zeros, SizesAssumption DEF Previous, Steps

(* A program of the walk stores, for its own row only, the tokens of a     *)
(* path through the candidates and the score rows along it.                *)
LEMMA WalkRowWalks ==
    ASSUME TypeOK, NEW r \in Rows, WalkRow(r), sample_idx_mapping[r] # Padding
    PROVE  \E path \in [Steps -> Lanes] :
              /\ \A i \in Steps :
                    path[i] \in WalkIndices(scores[r][i][Previous(path, i)],
                                            temperature[sample_idx_mapping[r]])
              /\ selector_scores' = [selector_scores EXCEPT
                    ![r] = [i \in Steps |-> scores[r][i][Previous(path, i)]]]
              /\ selector_tokens' = [selector_tokens EXCEPT
                    ![r] = [i \in Steps |-> candidate_ids[r][i][path[i]]]]
<1> DEFINE row(path, i) == LoadScores(scores[r], i, Previous(path, i))
<1>1. PICK path \in [Steps -> 0 .. BlockK] :
        /\ \A i \in Steps :
              path[i] \in WalkIndices(row(path, i), temperature[sample_idx_mapping[r]])
        /\ selector_scores' = [selector_scores EXCEPT ![r] = [i \in Steps |-> row(path, i)]]
        /\ selector_tokens' = [selector_tokens EXCEPT
              ![r] = [i \in Steps |-> LoadCandidate(candidate_ids[r], i, path[i])]]
  BY DEF WalkRow
<1>2. \A i \in Steps : path[i] \in Lanes
  BY <1>1, WalkIndicesAreLanes
<1>3. path \in [Steps -> Lanes] /\ path \in [Steps -> Int]
  BY <1>2, SizesAssumption DEF Lanes
<1>4. ASSUME NEW i \in Steps
      PROVE  /\ row(path, i) = scores[r][i][Previous(path, i)]
             /\ LoadCandidate(candidate_ids[r], i, path[i]) = candidate_ids[r][i][path[i]]
  <2>1. i # 0 => i - 1 \in Steps
    BY SizesAssumption DEF Steps
  <2>2. Previous(path, i) \in Lanes
    BY <1>2, <1>3, <2>1, PreviousIsLane
  <2>3. QED
    BY <1>2, <2>2, SizesAssumption DEF LoadScores, LoadCandidate, Lanes
<1> HIDE DEF row
<1>5. /\ [i \in Steps |-> row(path, i)] = [i \in Steps |-> scores[r][i][Previous(path, i)]]
      /\ [i \in Steps |-> LoadCandidate(candidate_ids[r], i, path[i])]
           = [i \in Steps |-> candidate_ids[r][i][path[i]]]
  BY <1>4
<1>6. QED
  BY <1>1, <1>3, <1>4, <1>5

LEMMA WalkRowStores ==
    ASSUME TypeOK, NEW r \in Rows, WalkRow(r), sample_idx_mapping[r] # Padding
    PROVE  \E tokens \in [Steps -> Token], sc \in [Steps -> [Lanes -> RawScore]] :
              /\ selector_tokens' = [selector_tokens EXCEPT ![r] = tokens]
              /\ selector_scores' = [selector_scores EXCEPT ![r] = sc]
<1>1. PICK path \in [Steps -> Lanes] :
        /\ selector_scores' = [selector_scores EXCEPT
              ![r] = [i \in Steps |-> scores[r][i][Previous(path, i)]]]
        /\ selector_tokens' = [selector_tokens EXCEPT
              ![r] = [i \in Steps |-> candidate_ids[r][i][path[i]]]]
  BY WalkRowWalks
<1>2. path \in [Steps -> Int] /\ \A i \in Steps : i # 0 => i - 1 \in Steps
  BY SizesAssumption DEF Lanes, Steps
<1>3. \A i \in Steps : Previous(path, i) \in Lanes
  BY <1>2, PreviousIsLane
<1>4. [i \in Steps |-> scores[r][i][Previous(path, i)]] \in [Steps -> [Lanes -> RawScore]]
  BY <1>3 DEF TypeOK
<1>5. [i \in Steps |-> candidate_ids[r][i][path[i]]] \in [Steps -> Token]
  BY DEF TypeOK
<1>6. QED
  BY <1>1, <1>4, <1>5

LEMMA TypeStep == TypeOK /\ [Next]_vars => TypeOK'
<1> SUFFICES ASSUME TypeOK, [Next]_vars PROVE TypeOK'
  OBVIOUS
<1>1. CASE ProfileRun
  <2>1. PICK n \in 1 .. MaxNumReqs : draft_tokens' = Filled(n, NoTokens, draft_tokens)
    BY <1>1 DEF ProfileRun
  <2>2. draft_tokens' \in [Rows -> [Steps -> Token]]
    <3>1. n \in Int /\ \A r \in Rows : NoTokens[r] \in [Steps -> Token]
      BY Zeros DEF NoTokens
    <3>2. QED
      BY <2>1, <3>1, FilledType DEF TypeOK
  <2>3. QED
    BY <1>1, <2>2 DEF TypeOK, ProfileRun, inputs
<1>2. CASE ComputeScores
  <2>0. PICK n \in 1 .. MaxNumReqs, temp \in Temperatures :
          \E anchor \in [0 .. n - 1 -> Token], table \in [0 .. n - 1 -> EdgeTables],
             res \in [0 .. n - 1 -> [Steps -> TopKResults]] :
             ScoreBatch(n, temp, anchor, table, res)
    BY <1>2 DEF ComputeScores
  <2>1. PICK anchor \in [0 .. n - 1 -> Token], table \in [0 .. n - 1 -> EdgeTables],
             res \in [0 .. n - 1 -> [Steps -> TopKResults]] :
             ScoreBatch(n, temp, anchor, table, res)
    BY <2>0
  <2> DEFINE unary == [r \in 0 .. n - 1 |-> [i \in Steps |-> [k \in Lanes |->
                          res[r][i][k].unary]]]
             ids == [r \in 0 .. n - 1 |-> [i \in Steps |-> [k \in Lanes |->
                          ClampId(res[r][i][k].id)]]]
             sc == [r \in 0 .. n - 1 |-> ScoreEdges(anchor[r], ids[r], unary[r], table[r])]
  <2>2. n \in Int /\ \A r \in Rows : r < n => r \in 0 .. n - 1
    BY SizesAssumption DEF Rows
  <2>3. ASSUME NEW r \in 0 .. n - 1, NEW i \in Steps, NEW k \in Lanes
        PROVE  res[r][i][k] \in [id : Int, unary : Int]
    <3>1. res[r][i] \in TopKResults
      OBVIOUS
    <3>2. QED
      BY <3>1, InputsAssumption
  <2>4. \A r \in 0 .. n - 1 : unary[r] \in [Steps -> [Lanes -> Int]]
    BY <2>3
  <2>5. \A r \in 0 .. n - 1 : ids[r] \in [Steps -> [Lanes -> Token]]
    BY <2>3, ClampIdIsToken
  <2>6. \A r \in 0 .. n - 1 : table[r] \in [Token -> [Token -> RawScore]]
    BY InputsAssumption
  <2>7. \A r \in 0 .. n - 1 : sc[r] \in [Steps -> [Lanes -> [Lanes -> RawScore]]]
    <3> TAKE r \in 0 .. n - 1
    <3> HIDE DEF ids, unary
    <3>1. sc[r] = ScoreEdges(anchor[r], ids[r], unary[r], table[r])
      OBVIOUS
    <3>2. QED
      BY <3>1, <2>4, <2>5, <2>6, ScoreEdgesType
  <2>8. /\ NoAnchors \in [Rows -> Token]
        /\ NoEdges \in [Rows -> [Token -> [Token -> RawScore]]]
        /\ NoIds \in [Rows -> [Steps -> [Lanes -> Int]]]
        /\ NoIds \in [Rows -> [Steps -> [Lanes -> Token]]]
        /\ NoScores \in [Rows -> [Steps -> [Lanes -> [Lanes -> RawScore]]]]
    BY Zeros DEF NoAnchors, NoEdges, NoIds, NoScores, RawScore
  <2>9. /\ num_reqs' = n
        /\ sample_idx_mapping' \in BatchMappings(n)
        /\ temperature' = temp
        /\ anchor_token_ids' = Filled(n, anchor, NoAnchors)
        /\ edges' = Filled(n, table, NoEdges)
        /\ unary_logits' = Filled(n, unary, NoIds)
        /\ candidate_ids' = Filled(n, ids, NoIds)
        /\ scores' = Filled(n, sc, NoScores)
        /\ pending' = {<<r, 0>> : r \in 0 .. n - 1}
    BY <2>1 DEF ScoreBatch
  <2> HIDE DEF ids, unary, sc
  <2>10. anchor_token_ids' \in [Rows -> Token]
    BY <2>2, <2>8, <2>9, FilledType
  <2>11. edges' \in [Rows -> [Token -> [Token -> RawScore]]]
    BY <2>2, <2>6, <2>8, <2>9, FilledType
  <2>12. unary_logits' \in [Rows -> [Steps -> [Lanes -> Int]]]
    BY <2>2, <2>4, <2>8, <2>9, FilledType
  <2>13. candidate_ids' \in [Rows -> [Steps -> [Lanes -> Token]]]
    BY <2>2, <2>5, <2>8, <2>9, FilledType
  <2>14. scores' \in [Rows -> [Steps -> [Lanes -> [Lanes -> RawScore]]]]
    BY <2>2, <2>7, <2>8, <2>9, FilledType
  <2>15. /\ num_reqs' \in 0 .. MaxNumReqs
         /\ sample_idx_mapping' \in [Rows -> Slots \union {Padding}]
         /\ temperature' \in [Slots -> Nat]
         /\ pending' \subseteq Rows \X Steps
    <3>1. num_reqs' \in 0 .. MaxNumReqs /\ temperature' \in [Slots -> Nat]
      BY <2>9, SizesAssumption, InputsAssumption
    <3>2. sample_idx_mapping' \in [Rows -> Slots \union {Padding}]
      BY <2>9 DEF BatchMappings
    <3>3. pending' \subseteq Rows \X Steps
      BY <2>9, SizesAssumption DEF Rows, Steps
    <3>4. QED
      BY <3>1, <3>2, <3>3
  <2>16. QED
    BY <1>2, <2>10, <2>11, <2>12, <2>13, <2>14, <2>15 DEF ComputeScores, TypeOK
<1>3. ASSUME NEW r \in Rows, WalkRow(r) PROVE TypeOK'
  <2>1. /\ selector_tokens' \in [Rows -> [Steps -> Token]]
        /\ selector_scores' \in [Rows -> [Steps -> [Lanes -> StoredScore]]]
    <3>1. CASE sample_idx_mapping[r] = Padding
      BY <1>3, <3>1 DEF WalkRow, TypeOK
    <3>2. CASE sample_idx_mapping[r] # Padding
      <4>1. PICK tokens \in [Steps -> Token], sc \in [Steps -> [Lanes -> RawScore]] :
              /\ selector_tokens' = [selector_tokens EXCEPT ![r] = tokens]
              /\ selector_scores' = [selector_scores EXCEPT ![r] = sc]
        BY <1>3, <3>2, WalkRowStores
      <4>2. sc \in [Steps -> [Lanes -> StoredScore]]
        BY DEF StoredScore, Score, RawScore
      <4>3. QED
        BY <4>1, <4>2 DEF TypeOK
    <3>3. QED
      BY <3>1, <3>2
  <2>2. QED
    BY <1>3, <2>1 DEF WalkRow, TypeOK, inputs
<1>4. CASE LaunchCache
  <2>1. selector_tokens' \in [Rows -> [Steps -> Token]]
    <3> DEFINE clamped == [r \in Rows |-> [i \in Steps |->
                              Clamp(selector_tokens[r][i], 0, VocabSize - 1)]]
    <3>1. \A r \in Rows : clamped[r] \in [Steps -> Token]
      BY SizesAssumption DEF Clamp, Token, TypeOK
    <3>2. selector_tokens' = Filled(num_reqs, clamped, selector_tokens)
      BY <1>4 DEF LaunchCache
    <3> HIDE DEF clamped
    <3>3. num_reqs \in Int /\ selector_tokens \in [Rows -> [Steps -> Token]]
      BY DEF TypeOK
    <3>4. QED
      BY <3>1, <3>2, <3>3, FilledType
  <2>2. pending' \subseteq Rows \X Steps
    BY <1>4, SizesAssumption DEF LaunchCache, Rows, TypeOK
  <2>3. QED
    BY <1>4, <2>1, <2>2 DEF LaunchCache, TypeOK, inputs
<1>5. ASSUME NEW r \in Rows, NEW i \in Steps, CacheFlat(r, i) PROVE TypeOK'
  <2>1. /\ draft_logits' \in [Slots -> [Steps -> [Token -> StoredScore]]]
        /\ cached_candidate_ids' \in [Slots -> [Steps -> [Lanes -> Token]]]
    <3> DEFINE s == sample_idx_mapping[r]
    <3>1. CASE s = Padding
      BY <1>5, <3>1 DEF CacheFlat, TypeOK
    <3>2. CASE s # Padding
      <4>1. s \in Slots /\ candidate_ids[r][i] \in [Lanes -> Token]
              /\ selector_scores[r][i] \in [Lanes -> StoredScore]
              /\ draft_logits[s][i] \in [Token -> StoredScore]
        BY <3>2 DEF TypeOK, Padding
      <4>2. PICK pick \in LastStore(candidate_ids[r][i]) :
              /\ draft_logits' = [draft_logits EXCEPT ![s][i] =
                    CachedRow(draft_logits[s][i], cached_candidate_ids[s][i],
                              candidate_ids[r][i], selector_scores[r][i], pick)]
              /\ cached_candidate_ids' = [cached_candidate_ids EXCEPT
                    ![s][i] = candidate_ids[r][i]]
        BY <1>5, <3>2 DEF CacheFlat
      <4>3. pick \in [Token -> Lanes]
        BY DEF LastStore
      <4>4. CachedRow(draft_logits[s][i], cached_candidate_ids[s][i],
                      candidate_ids[r][i], selector_scores[r][i], pick)
              \in [Token -> StoredScore]
        BY <4>1, <4>3 DEF CachedRow, Scatter, Cleared, StoredScore, Score
      <4>5. QED
        BY <4>1, <4>2, <4>4 DEF TypeOK
    <3>3. QED
      BY <3>1, <3>2
  <2>2. QED
    BY <1>5, <2>1 DEF CacheFlat, TypeOK, inputs
<1>6. CASE CopyTokens
  <2>1. draft_tokens' \in [Rows -> [Steps -> Token]]
    <3>1. num_reqs \in Int /\ \A r \in Rows : selector_tokens[r] \in [Steps -> Token]
      BY DEF TypeOK
    <3>2. QED
      BY <1>6, <3>1, FilledType DEF CopyTokens, TypeOK
  <2>2. QED
    BY <1>6, <2>1 DEF CopyTokens, TypeOK, inputs
<1>7. CASE TakeDraft
  <2>1. /\ NoAnchors \in [Rows -> Token]
        /\ NoEdges \in [Rows -> [Token -> [Token -> RawScore]]]
        /\ NoIds \in [Rows -> [Steps -> [Lanes -> Int]]]
        /\ NoIds \in [Rows -> [Steps -> [Lanes -> Token]]]
        /\ NoScores \in [Rows -> [Steps -> [Lanes -> [Lanes -> RawScore]]]]
    BY Zeros DEF NoAnchors, NoEdges, NoIds, NoScores, RawScore
  <2>2. /\ 0 \in 0 .. MaxNumReqs
        /\ NoMapping \in [Rows -> Slots \union {Padding}]
        /\ NoTemperature \in [Slots -> Nat]
        /\ Unwritten \in [Rows -> [Steps -> [Lanes -> StoredScore]]]
    BY SizesAssumption DEF NoMapping, NoTemperature, Unwritten, StoredScore
  <2>3. QED
    BY <1>7, <2>1, <2>2 DEF TakeDraft, TypeOK
<1>8. CASE UNCHANGED vars
  BY <1>8 DEF vars, inputs, TypeOK
<1>9. QED
  BY <1>1, <1>2, <1>3, <1>4, <1>5, <1>6, <1>7, <1>8 DEF Next

(* No tensor of the speculator ever holds an id outside the vocabulary or  *)
(* a score outside its buffer, whatever the network returns.               *)
THEOREM TypeCorrect == Spec => []TypeOK
BY TypeInit, TypeStep, PTL DEF Spec
-----------------------------------------------------------------------------
(***************************************************************************)
(* The remembered candidates are enough to clear a slot.                   *)
(***************************************************************************)

(* What a program of the cache kernel leaves in its row: the lanes it      *)
(* stored, and -inf everywhere else if the old row's support was cached.   *)
LEMMA CachedRowScatters ==
    ASSUME NEW old, NEW ids, NEW sc, NEW pick \in LastStore(ids), NEW row,
           \A t \in Token : row[t] # NegInf => t \in Named(old)
    PROVE  \A t \in Token :
              \/ t \in Named(ids) /\ ids[pick[t]] = t
                   /\ pick[t] \in Lanes /\ CachedRow(row, old, ids, sc, pick)[t] = sc[pick[t]]
              \/ t \notin Named(ids) /\ CachedRow(row, old, ids, sc, pick)[t] = NegInf
BY DEF CachedRow, Scatter, Cleared, LastStore

LEMMA SupportStep == TypeOK /\ SupportCached /\ [Next]_vars => SupportCached'
<1> SUFFICES ASSUME TypeOK, SupportCached, [Next]_vars PROVE SupportCached'
  OBVIOUS
<1>1. ASSUME NEW r \in Rows, NEW i \in Steps, CacheFlat(r, i), sample_idx_mapping[r] # Padding
      PROVE  SupportCached'
  <2> DEFINE s == sample_idx_mapping[r]
  <2>1. s \in Slots
    BY <1>1 DEF TypeOK
  <2>2. PICK pick \in LastStore(candidate_ids[r][i]) :
          /\ draft_logits' = [draft_logits EXCEPT ![s][i] =
                CachedRow(draft_logits[s][i], cached_candidate_ids[s][i],
                          candidate_ids[r][i], selector_scores[r][i], pick)]
          /\ cached_candidate_ids' = [cached_candidate_ids EXCEPT ![s][i] = candidate_ids[r][i]]
    BY <1>1 DEF CacheFlat
  <2>3. /\ draft_logits'[s][i] = CachedRow(draft_logits[s][i], cached_candidate_ids[s][i],
                                    candidate_ids[r][i], selector_scores[r][i], pick)
        /\ cached_candidate_ids'[s][i] = candidate_ids[r][i]
    BY <2>1, <2>2 DEF TypeOK
  <2>4. \A t \in Token : draft_logits'[s][i][t] # NegInf => t \in Named(cached_candidate_ids'[s][i])
    <3>1. \A t \in Token : draft_logits'[s][i][t] # NegInf => t \in Named(candidate_ids[r][i])
      <4>1. \A t \in Token : draft_logits[s][i][t] # NegInf
                                => t \in Named(cached_candidate_ids[s][i])
        BY <2>1 DEF SupportCached
      <4>2. QED
        BY <2>3, <4>1 DEF CachedRow, Scatter, Cleared
    <3>2. QED
      BY <2>3, <3>1
  <2>5. ASSUME NEW q \in Slots, NEW j \in Steps, <<q, j>> # <<s, i>>
        PROVE  /\ draft_logits'[q][j] = draft_logits[q][j]
               /\ cached_candidate_ids'[q][j] = cached_candidate_ids[q][j]
    BY <2>1, <2>2, <2>5 DEF TypeOK
  <2>6. QED
    BY <2>4, <2>5 DEF SupportCached
<1>2. CASE UNCHANGED <<draft_logits, cached_candidate_ids>>
  BY <1>2 DEF SupportCached
<1>3. QED
  BY <1>1, <1>2 DEF Next, ProfileRun, ComputeScores, WalkRow, LaunchCache, CacheFlat,
     CopyTokens, TakeDraft, vars

(* Every token that has a logit is remembered, in every reachable state.   *)
THEOREM SupportIsCached == Spec => []SupportCached
<1>1. Init => SupportCached
  BY DEF Init, SupportCached
<1>2. QED
  BY <1>1, TypeCorrect, SupportStep, PTL DEF Spec

(* One call of the speculator leaves the proposal a dense one would: the   *)
(* sparse clearing is a correct implementation of refilling with -inf.     *)
LEMMA DenseStep ==
    TypeOK /\ SupportCached /\ [Next]_vars => [Dense!DraftNext]_(Dense!dvars)
<1> SUFFICES ASSUME TypeOK, SupportCached, [Next]_vars PROVE Dense!DraftNext
  OBVIOUS
<1>1. ASSUME NEW r \in Rows, NEW i \in Steps, CacheFlat(r, i), sample_idx_mapping[r] # Padding
      PROVE  Dense!Propose(r, i)
  <2> DEFINE s == sample_idx_mapping[r]
  <2>1. s \in Slots
    BY <1>1 DEF TypeOK
  <2>2. PICK pick \in LastStore(candidate_ids[r][i]) :
          draft_logits' = [draft_logits EXCEPT ![s][i] =
                CachedRow(draft_logits[s][i], cached_candidate_ids[s][i],
                          candidate_ids[r][i], selector_scores[r][i], pick)]
    BY <1>1 DEF CacheFlat
  <2>3. draft_logits'[s][i] = CachedRow(draft_logits[s][i], cached_candidate_ids[s][i],
                                    candidate_ids[r][i], selector_scores[r][i], pick)
    BY <2>1, <2>2 DEF TypeOK
  <2>4. Dense!IsScatter(draft_logits'[s][i], Dense!Blank,
                        candidate_ids[r][i], selector_scores[r][i])
    BY <2>1, <2>3, CachedRowScatters DEF Dense!IsScatter, Dense!Blank, SupportCached, Named
  <2>5. \A q \in Slots, j \in Steps : <<q, j>> # <<s, i>> => draft_logits'[q][j] = draft_logits[q][j]
    BY <2>1, <2>2 DEF TypeOK
  <2>6. QED
    BY <2>1, <2>4, <2>5 DEF Dense!Propose
<1>2. CASE UNCHANGED draft_logits
  BY <1>2 DEF Dense!DraftNext
<1>3. QED
  BY <1>1, <1>2 DEF Next, ProfileRun, ComputeScores, WalkRow, LaunchCache, CacheFlat,
     CopyTokens, TakeDraft, vars, Dense!DraftNext

(* Clearing what a slot remembers is as good as filling its proposal with  *)
(* -inf: each step of the kernels is one of DraftProposals, or none.       *)
THEOREM ImplementsDense == Spec => RefinesDense
<1>1. Init => Dense!DraftInit
  BY DEF Init, Dense!DraftInit, Dense!Blank
<1>2. QED
  BY <1>1, TypeCorrect, SupportIsCached, DenseStep, PTL DEF Spec, RefinesDense, Dense!DraftSpec
-----------------------------------------------------------------------------
(***************************************************************************)
(* The score buffer is written before it is read.                          *)
(***************************************************************************)
Computed(r) == selector_scores[r] \in [Steps -> [Lanes -> RawScore]]

(* Rows whose walk is done hold computed scores; all rows of the batch do  *)
(* once the cache kernel runs, and it runs on rows of the batch only.      *)
WrittenBeforeRead ==
    /\ \A r \in Rows :
          /\ r < num_reqs /\ sample_idx_mapping[r] # Padding
          /\ pc \in {"walk", "cache"}
          /\ pc = "walk" => <<r, 0>> \notin pending
          => Computed(r)
    /\ pc = "cache" => pending \subseteq (0 .. num_reqs - 1) \X Steps
    /\ draft_logits \in [Slots -> [Steps -> [Token -> Score]]]

LEMMA WrittenStep == TypeOK /\ WrittenBeforeRead /\ [Next]_vars => WrittenBeforeRead'
<1> SUFFICES ASSUME TypeOK, WrittenBeforeRead, [Next]_vars PROVE WrittenBeforeRead'
  OBVIOUS
<1>1. CASE ProfileRun
  BY <1>1 DEF ProfileRun, inputs, WrittenBeforeRead, Computed
<1>2. CASE ComputeScores
  <2>1. PICK n \in 1 .. MaxNumReqs, temp \in Temperatures :
          \E anchor \in [0 .. n - 1 -> Token], table \in [0 .. n - 1 -> EdgeTables],
             res \in [0 .. n - 1 -> [Steps -> TopKResults]] :
             ScoreBatch(n, temp, anchor, table, res)
    BY <1>2 DEF ComputeScores
  <2>2. num_reqs' = n /\ pending' = {<<r, 0>> : r \in 0 .. n - 1}
    BY <2>1 DEF ScoreBatch
  <2>3. \A r \in Rows : r < num_reqs' => <<r, 0>> \in pending'
    BY <2>2, SizesAssumption DEF Rows
  <2>4. QED
    BY <1>2, <2>3 DEF ComputeScores, WrittenBeforeRead
<1>3. ASSUME NEW r \in Rows, WalkRow(r) PROVE WrittenBeforeRead'
  <2>1. CASE sample_idx_mapping[r] = Padding
    BY <1>3, <2>1 DEF WalkRow, inputs, WrittenBeforeRead, Computed
  <2>2. CASE sample_idx_mapping[r] # Padding
    <3>1. PICK sc \in [Steps -> [Lanes -> RawScore]] :
            selector_scores' = [selector_scores EXCEPT ![r] = sc]
      BY <1>3, <2>2, WalkRowStores
    <3>2. selector_scores'[r] = sc /\ \A q \in Rows : q # r => selector_scores'[q] = selector_scores[q]
      BY <3>1 DEF TypeOK
    <3>3. QED
      BY <1>3, <3>2 DEF WalkRow, inputs, WrittenBeforeRead, Computed
  <2>3. QED
    BY <2>1, <2>2
<1>4. CASE LaunchCache
  BY <1>4 DEF LaunchCache, StreamDrained, inputs, WrittenBeforeRead, Computed
<1>5. ASSUME NEW r \in Rows, NEW i \in Steps, CacheFlat(r, i) PROVE WrittenBeforeRead'
  <2> DEFINE s == sample_idx_mapping[r]
  <2>1. draft_logits' \in [Slots -> [Steps -> [Token -> Score]]]
    <3>1. CASE s = Padding
      BY <1>5, <3>1 DEF CacheFlat, WrittenBeforeRead
    <3>2. CASE s # Padding
      <4>1. PICK pick \in LastStore(candidate_ids[r][i]) :
              draft_logits' = [draft_logits EXCEPT ![s][i] =
                CachedRow(draft_logits[s][i], cached_candidate_ids[s][i],
                          candidate_ids[r][i], selector_scores[r][i], pick)]
        BY <1>5, <3>2 DEF CacheFlat
      <4>2. s \in Slots /\ pick \in [Token -> Lanes]
        BY <3>2 DEF TypeOK, LastStore
      <4>3. Computed(r)
        <5>1. r \in 0 .. num_reqs - 1
          BY <1>5 DEF CacheFlat, WrittenBeforeRead
        <5>2. r < num_reqs
          BY <5>1 DEF TypeOK
        <5>3. pc = "cache"
          BY <1>5 DEF CacheFlat
        <5>4. QED
          BY <3>2, <5>2, <5>3 DEF WrittenBeforeRead
      <4>4. draft_logits[s][i] \in [Token -> Score]
        BY <4>2 DEF WrittenBeforeRead
      <4>5. CachedRow(draft_logits[s][i], cached_candidate_ids[s][i],
                      candidate_ids[r][i], selector_scores[r][i], pick) \in [Token -> Score]
        BY <4>2, <4>3, <4>4 DEF CachedRow, Scatter, Cleared, Computed, Score, RawScore
      <4>6. QED
        BY <4>1, <4>2, <4>5 DEF WrittenBeforeRead
    <3>3. QED
      BY <3>1, <3>2
  <2>2. QED
    <3>1. /\ pc' = pc /\ pc = "cache" /\ pending' \subseteq pending
          /\ UNCHANGED <<num_reqs, sample_idx_mapping, selector_scores>>
      BY <1>5 DEF CacheFlat, inputs
    <3>2. QED
      BY <2>1, <3>1 DEF WrittenBeforeRead, Computed
<1>6. CASE CopyTokens
  BY <1>6 DEF CopyTokens, inputs, WrittenBeforeRead
<1>7. CASE TakeDraft
  BY <1>7 DEF TakeDraft, WrittenBeforeRead
<1>8. CASE UNCHANGED vars
  BY <1>8 DEF vars, inputs, WrittenBeforeRead, Computed
<1>9. QED
  BY <1>1, <1>2, <1>3, <1>4, <1>5, <1>6, <1>7, <1>8 DEF Next

LEMMA WrittenFirst == Spec => []WrittenBeforeRead
<1>1. Init => WrittenBeforeRead
  BY DEF Init, WrittenBeforeRead, Score
<1>2. QED
  BY <1>1, TypeCorrect, WrittenStep, PTL DEF Spec

(* What torch.empty left in _selector_scores never reaches the proposal.   *)
THEOREM NoGarbage == Spec => []NoGarbageProposed
<1>1. WrittenBeforeRead => NoGarbageProposed
  BY ScoresAssumption DEF WrittenBeforeRead, NoGarbageProposed, Score
<1>2. QED
  BY <1>1, WrittenFirst, PTL
-----------------------------------------------------------------------------
(***************************************************************************)
(* A draft is a path through the candidates and its proposals are          *)
(* conditioned on it.                                                      *)
(***************************************************************************)
Slot(r) == sample_idx_mapping[r]

(* Row r belongs to a request of the batch under way.                      *)
Live(r) == pc # "idle" /\ r < num_reqs /\ Slot(r) # Padding

(* The walk of row r is done; its step i has been published.               *)
Walked(r) == Live(r) /\ (pc = "walk" => <<r, 0>> \notin pending)
Cached(r, i) == Live(r) /\ pc # "walk" /\ <<r, i>> \notin pending

(* The lanes of `path' are what the walk of row r has chosen.              *)
WalkOf(r, path) ==
    \A i \in Steps :
        /\ path[i] \in WalkIndices(scores[r][i][Previous(path, i)], temperature[Slot(r)])
        /\ selector_scores[r][i] = scores[r][i][Previous(path, i)]
        /\ selector_tokens[r][i] = candidate_ids[r][i][path[i]]

OwnSlots == \A q, r \in Rows : Live(q) /\ Live(r) /\ q # r => Slot(q) # Slot(r)
Scored == \A r \in Rows : Live(r) =>
    scores[r] = ScoreEdges(anchor_token_ids[r], candidate_ids[r], unary_logits[r], edges[r])
Walks == \A r \in Rows : Walked(r) => \E path \in [Steps -> Lanes] : WalkOf(r, path)
Scattered == \A r \in Rows, i \in Steps : Cached(r, i) =>
    Dense!IsScatter(Proposal(r, i), Dense!Blank, candidate_ids[r][i], selector_scores[r][i])
Copied == pc = "drafted" =>
    pending = {} /\ \A r \in Rows : Live(r) => draft_tokens[r] = selector_tokens[r]

(* What the kernels of a call have done so far.                            *)
PathInv == OwnSlots /\ Scored /\ Walks /\ Scattered /\ Copied

LEMMA PathInit == Init => PathInv
BY DEF Init, PathInv, OwnSlots, Scored, Walks, Scattered, Copied, Live, Walked, Cached

(* A batch starts with scores of its own, rows on slots of their own and   *)
(* every walk still to come.                                               *)
LEMMA BatchIsScored ==
    ASSUME ComputeScores
    PROVE  /\ \A r \in Rows : r < num_reqs' => <<r, 0>> \in pending'
           /\ \A q, r \in Rows : q # r /\ sample_idx_mapping'[q] # Padding
                 => sample_idx_mapping'[q] # sample_idx_mapping'[r]
           /\ \A r \in Rows : r < num_reqs' =>
                 scores'[r] = ScoreEdges(anchor_token_ids'[r], candidate_ids'[r],
                                         unary_logits'[r], edges'[r])
<1>1. PICK n \in 1 .. MaxNumReqs, temp \in Temperatures :
        \E anchor \in [0 .. n - 1 -> Token], table \in [0 .. n - 1 -> EdgeTables],
           res \in [0 .. n - 1 -> [Steps -> TopKResults]] :
           ScoreBatch(n, temp, anchor, table, res)
  BY DEF ComputeScores
<1>2. PICK anchor \in [0 .. n - 1 -> Token], table \in [0 .. n - 1 -> EdgeTables],
           res \in [0 .. n - 1 -> [Steps -> TopKResults]] :
           ScoreBatch(n, temp, anchor, table, res)
  BY <1>1
<1> DEFINE unary == [r \in 0 .. n - 1 |-> [i \in Steps |-> [k \in Lanes |->
                        res[r][i][k].unary]]]
           ids == [r \in 0 .. n - 1 |-> [i \in Steps |-> [k \in Lanes |->
                        ClampId(res[r][i][k].id)]]]
           sc == [r \in 0 .. n - 1 |-> ScoreEdges(anchor[r], ids[r], unary[r], table[r])]
<1>3. /\ num_reqs' = n
      /\ sample_idx_mapping' \in BatchMappings(n)
      /\ anchor_token_ids' = Filled(n, anchor, NoAnchors)
      /\ edges' = Filled(n, table, NoEdges)
      /\ unary_logits' = Filled(n, unary, NoIds)
      /\ candidate_ids' = Filled(n, ids, NoIds)
      /\ scores' = Filled(n, sc, NoScores)
      /\ pending' = {<<r, 0>> : r \in 0 .. n - 1}
  BY <1>2 DEF ScoreBatch
<1>4. \A r \in Rows : r < n => r \in 0 .. n - 1
  BY SizesAssumption DEF Rows
<1>5. ASSUME NEW r \in Rows, r < n
      PROVE  sc[r] = ScoreEdges(anchor[r], ids[r], unary[r], table[r])
  <2> HIDE DEF ids, unary
  <2>1. QED
    BY <1>4, <1>5
<1> HIDE DEF ids, unary, sc
<1>6. QED
  BY <1>3, <1>4, <1>5 DEF Filled, BatchMappings

(* Once its walk is done, what a row stands for does not change until the  *)
(* draft is taken.                                                         *)
LEMMA WalkKept ==
    ASSUME NEW r \in Rows, NEW path,
           UNCHANGED <<scores, temperature, sample_idx_mapping, candidate_ids>>,
           UNCHANGED <<selector_scores, selector_tokens>>,
           WalkOf(r, path)
    PROVE  WalkOf(r, path)'
BY DEF WalkOf, Slot

LEMMA WalksStep == TypeOK /\ PathInv /\ [Next]_vars => Walks'
<1> SUFFICES ASSUME TypeOK, PathInv, [Next]_vars PROVE Walks'
  OBVIOUS
<1> USE DEF PathInv
<1>1. ASSUME NEW r \in Rows, WalkRow(r), sample_idx_mapping[r] # Padding PROVE Walks'
  <2>1. PICK path \in [Steps -> Lanes] :
          /\ \A i \in Steps :
                path[i] \in WalkIndices(scores[r][i][Previous(path, i)],
                                        temperature[sample_idx_mapping[r]])
          /\ selector_scores' = [selector_scores EXCEPT
                ![r] = [i \in Steps |-> scores[r][i][Previous(path, i)]]]
          /\ selector_tokens' = [selector_tokens EXCEPT
                ![r] = [i \in Steps |-> candidate_ids[r][i][path[i]]]]
    BY <1>1, WalkRowWalks
  <2>2. /\ UNCHANGED <<scores, temperature, sample_idx_mapping, candidate_ids, num_reqs, pc>>
        /\ pending' = pending \ {<<r, 0>>} /\ pc = "walk"
    BY <1>1 DEF WalkRow, inputs
  <2>3. WalkOf(r, path)'
    <3>1. /\ selector_scores'[r] = [i \in Steps |-> scores[r][i][Previous(path, i)]]
          /\ selector_tokens'[r] = [i \in Steps |-> candidate_ids[r][i][path[i]]]
      BY <2>1 DEF TypeOK
    <3>2. QED
      BY <2>1, <2>2, <3>1 DEF WalkOf, Slot
  <2>4. ASSUME NEW q \in Rows, q # r, Walked(q)'
        PROVE  \E p \in [Steps -> Lanes] : WalkOf(q, p)'
    <3>1. Walked(q)
      BY <2>2, <2>4 DEF Walked, Live, Slot
    <3>2. PICK p \in [Steps -> Lanes] : WalkOf(q, p)
      BY <3>1 DEF Walks
    <3>3. selector_scores'[q] = selector_scores[q] /\ selector_tokens'[q] = selector_tokens[q]
      BY <2>1, <2>4 DEF TypeOK
    <3>4. WalkOf(q, p)'
      BY <2>2, <3>2, <3>3 DEF WalkOf, Slot
    <3>5. QED
      BY <3>4
  <2>5. QED
    BY <2>3, <2>4 DEF Walks
<1>2. CASE LaunchCache
  <2>1. /\ pc = "walk" /\ pending = {} /\ UNCHANGED <<inputs, selector_scores>>
        /\ selector_tokens' = Filled(num_reqs,
              [r \in Rows |-> [i \in Steps |-> Clamp(selector_tokens[r][i], 0, VocabSize - 1)]],
              selector_tokens)
    BY <1>2 DEF LaunchCache, StreamDrained
  <2>2. \A t \in Token : Clamp(t, 0, VocabSize - 1) = t
    BY SizesAssumption DEF Clamp, Token
  <2>3. \A r \in Rows : [i \in Steps |-> Clamp(selector_tokens[r][i], 0, VocabSize - 1)]
                             = selector_tokens[r]
    BY <2>2 DEF TypeOK
  <2>4. \A r \in Rows : selector_tokens'[r] = selector_tokens[r]
    BY <2>1, <2>3 DEF Filled
  <2>5. ASSUME NEW r \in Rows, Walked(r)'
        PROVE  \E p \in [Steps -> Lanes] : WalkOf(r, p)'
    <3>1. Walked(r)
      BY <2>1, <2>5 DEF Walked, Live, Slot, inputs
    <3>2. PICK p \in [Steps -> Lanes] : WalkOf(r, p)
      BY <3>1 DEF Walks
    <3>3. WalkOf(r, p)'
      BY <2>1, <2>4, <3>2 DEF WalkOf, Slot, inputs
    <3>4. QED
      BY <3>3
  <2>6. QED
    BY <2>5 DEF Walks
<1>3. CASE ComputeScores
  BY <1>3, BatchIsScored DEF ComputeScores, Walks, Walked, Live
<1>4. CASE TakeDraft \/ ProfileRun
  BY <1>4 DEF TakeDraft, ProfileRun, Walks, Walked, Live, inputs
<1>5. ASSUME UNCHANGED <<inputs, selector_scores, selector_tokens>>,
             pc' # "idle" => pc # "idle",
             \A r \in Rows : (pc' = "walk" => <<r, 0>> \notin pending') /\ Walked(r)'
                              => (pc = "walk" => <<r, 0>> \notin pending)
      PROVE  Walks'
  <2>1. ASSUME NEW r \in Rows, Walked(r)'
        PROVE  \E p \in [Steps -> Lanes] : WalkOf(r, p)'
    <3>1. Walked(r)
      BY <1>5, <2>1 DEF Walked, Live, Slot, inputs
    <3>2. PICK p \in [Steps -> Lanes] : WalkOf(r, p)
      BY <3>1 DEF Walks
    <3>3. WalkOf(r, p)'
      BY <1>5, <3>2, WalkKept DEF inputs
    <3>4. QED
      BY <3>3
  <2>2. QED
    BY <2>1 DEF Walks
<1>6. ASSUME NEW r \in Rows, WalkRow(r), sample_idx_mapping[r] = Padding PROVE Walks'
  <2>1. /\ UNCHANGED <<inputs, selector_scores, selector_tokens, pc>>
        /\ pending' = pending \ {<<r, 0>>}
    BY <1>6 DEF WalkRow
  <2>2. \A q \in Rows : Walked(q)' => q # r
    BY <1>6, <2>1 DEF Walked, Live, Slot, inputs
  <2>3. QED
    BY <1>5, <2>1, <2>2
<1>7. ASSUME NEW r \in Rows, NEW i \in Steps, CacheFlat(r, i) PROVE Walks'
  BY <1>5, <1>7 DEF CacheFlat
<1>8. CASE CopyTokens
  BY <1>5, <1>8 DEF CopyTokens
<1>9. CASE UNCHANGED vars
  BY <1>5, <1>9 DEF vars
<1>10. QED
  BY <1>1, <1>2, <1>3, <1>4, <1>6, <1>7, <1>8, <1>9 DEF Next

LEMMA BatchStep == TypeOK /\ PathInv /\ [Next]_vars => OwnSlots' /\ Scored'
<1> SUFFICES ASSUME TypeOK, PathInv, [Next]_vars PROVE OwnSlots' /\ Scored'
  OBVIOUS
<1>1. CASE ComputeScores
  BY <1>1, BatchIsScored DEF OwnSlots, Scored, Live, Slot
<1>2. CASE TakeDraft
  BY <1>2 DEF TakeDraft, OwnSlots, Scored, Live
<1>3. ASSUME UNCHANGED inputs, pc' # "idle" => pc # "idle" PROVE OwnSlots' /\ Scored'
  <2>1. \A r \in Rows : Live(r)' => Live(r)
    BY <1>3 DEF Live, Slot, inputs
  <2>2. QED
    BY <1>3, <2>1 DEF PathInv, OwnSlots, Scored, Slot, inputs
<1>4. CASE ProfileRun \/ LaunchCache \/ CopyTokens \/ UNCHANGED vars
  BY <1>3, <1>4 DEF ProfileRun, LaunchCache, CopyTokens, vars
<1>5. ASSUME NEW r \in Rows, NEW i \in Steps, WalkRow(r) \/ CacheFlat(r, i)
      PROVE  OwnSlots' /\ Scored'
  BY <1>3, <1>5 DEF WalkRow, CacheFlat
<1>6. QED
  <2>1. 0 \in Steps
    BY SizesAssumption DEF Steps
  <2>2. QED
    BY <1>1, <1>2, <1>4, <1>5, <2>1 DEF Next

(* What a program of the cache kernel publishes is a scatter; rows that    *)
(* were published before it stand on other slots or steps.                 *)
LEMMA ScatteredStep ==
    TypeOK /\ SupportCached /\ WrittenBeforeRead /\ PathInv /\ [Next]_vars => Scattered'
<1> SUFFICES ASSUME TypeOK, SupportCached, WrittenBeforeRead, PathInv, [Next]_vars PROVE Scattered'
  OBVIOUS
<1> USE DEF PathInv
<1>1. ASSUME NEW r \in Rows, NEW i \in Steps, CacheFlat(r, i), Slot(r) # Padding
      PROVE  Scattered'
  <2>1. /\ UNCHANGED <<inputs, selector_scores, pc>>
        /\ pending' = pending \ {<<r, i>>} /\ pc = "cache"
    BY <1>1 DEF CacheFlat
  <2>2. Slot(r) \in Slots
    BY <1>1 DEF TypeOK, Slot
  <2>3. PICK pick \in LastStore(candidate_ids[r][i]) :
          draft_logits' = [draft_logits EXCEPT ![Slot(r)][i] =
                CachedRow(draft_logits[Slot(r)][i], cached_candidate_ids[Slot(r)][i],
                          candidate_ids[r][i], selector_scores[r][i], pick)]
    BY <1>1 DEF CacheFlat, Slot
  <2>4. draft_logits'[Slot(r)][i] = CachedRow(draft_logits[Slot(r)][i],
            cached_candidate_ids[Slot(r)][i], candidate_ids[r][i], selector_scores[r][i], pick)
    BY <2>2, <2>3 DEF TypeOK
  <2>5. Dense!IsScatter(draft_logits'[Slot(r)][i], Dense!Blank,
                        candidate_ids[r][i], selector_scores[r][i])
    <3>1. \A t \in Token : draft_logits[Slot(r)][i][t] # NegInf
                              => t \in Named(cached_candidate_ids[Slot(r)][i])
      BY <2>2 DEF SupportCached
    <3> HIDE DEF PathInv
    <3>2. QED
      BY <2>4, <3>1, CachedRowScatters DEF Dense!IsScatter, Dense!Blank, Named
  <2>6. ASSUME NEW q \in Rows, NEW j \in Steps, Cached(q, j)'
        PROVE  Dense!IsScatter(Proposal(q, j)', Dense!Blank,
                               candidate_ids[q][j], selector_scores[q][j])
    <3>1. Slot(q)' = Slot(q) /\ Live(q) /\ Slot(q) \in Slots
      BY <2>1, <2>6 DEF Cached, Live, Slot, inputs, TypeOK
    <3>2. CASE q = r /\ j = i
      BY <2>1, <2>5, <3>2 DEF Proposal, Slot, inputs
    <3>3. CASE q # r \/ j # i
      <4>1. Cached(q, j)
        BY <2>1, <2>6, <3>1, <3>3 DEF Cached
      <4>2. q # r => Slot(q) # Slot(r) \/ ~Live(r)
        BY <3>1 DEF OwnSlots
      <4>3. CASE Slot(q) # Slot(r) \/ j # i
        <5>1. draft_logits'[Slot(q)][j] = draft_logits[Slot(q)][j]
          BY <2>2, <2>3, <3>1, <4>3 DEF TypeOK
        <5>2. Proposal(q, j)' = Proposal(q, j)
          BY <2>1, <5>1 DEF Proposal, Slot, inputs
        <5>3. QED
          BY <4>1, <5>2 DEF Scattered
      <4>4. CASE ~Live(r) /\ q # r
        <5>1. ~(r < num_reqs)
          BY <1>1, <2>1, <4>4 DEF Live
        <5>2. r \in 0 .. num_reqs - 1
          BY <1>1, <2>1 DEF CacheFlat, WrittenBeforeRead
        <5>3. QED
          BY <5>1, <5>2 DEF TypeOK
      <4>5. QED
        BY <3>3, <4>2, <4>3, <4>4
    <3>4. QED
      BY <3>2, <3>3
  <2>7. QED
    BY <2>1, <2>6 DEF Scattered, inputs
<1>2. ASSUME UNCHANGED <<inputs, selector_scores, draft_logits>>,
             \A r \in Rows, i \in Steps : Cached(r, i)' => Cached(r, i)
      PROVE  Scattered'
  BY <1>2 DEF Scattered, Proposal, inputs
<1>3. ASSUME NEW r \in Rows, NEW i \in Steps, CacheFlat(r, i), Slot(r) = Padding
      PROVE  Scattered'
  <2>1. /\ UNCHANGED <<inputs, selector_scores, draft_logits, pc>>
        /\ pending' = pending \ {<<r, i>>}
    BY <1>3 DEF CacheFlat, Slot
  <2>2. \A q \in Rows, j \in Steps : Cached(q, j)' => Cached(q, j)
    BY <1>3, <2>1 DEF Cached, Live, Slot, inputs
  <2>3. QED
    BY <1>2, <2>1, <2>2
<1>4. CASE CopyTokens
  <2>1. \A q \in Rows, j \in Steps : Cached(q, j)' => Cached(q, j)
    BY <1>4 DEF CopyTokens, StreamDrained, Cached, Live, Slot, inputs
  <2>2. QED
    BY <1>2, <1>4, <2>1 DEF CopyTokens
<1>5. CASE LaunchCache
  <2>1. pending' = (0 .. num_reqs - 1) \X Steps /\ UNCHANGED inputs
    BY <1>5 DEF LaunchCache
  <2>2. \A q \in Rows, j \in Steps : q < num_reqs => <<q, j>> \in pending'
    BY <2>1 DEF Rows, TypeOK
  <2>3. QED
    BY <2>1, <2>2 DEF Scattered, Cached, Live, inputs
<1>6. CASE ComputeScores \/ TakeDraft \/ ProfileRun
  BY <1>6 DEF ComputeScores, TakeDraft, ProfileRun, Scattered, Cached, Live
<1>7. ASSUME NEW r \in Rows, WalkRow(r) PROVE Scattered'
  BY <1>7 DEF WalkRow, Scattered, Cached
<1>8. CASE UNCHANGED vars
  BY <1>2, <1>8 DEF vars, inputs, Cached, Live, Slot
<1>9. QED
  BY <1>1, <1>3, <1>4, <1>5, <1>6, <1>7, <1>8 DEF Next

LEMMA CopiedStep == TypeOK /\ PathInv /\ [Next]_vars => Copied'
<1> SUFFICES ASSUME TypeOK, PathInv, [Next]_vars PROVE Copied'
  OBVIOUS
<1>1. CASE CopyTokens
  BY <1>1 DEF CopyTokens, StreamDrained, Filled, Copied, Live, inputs
<1>2. CASE UNCHANGED vars
  BY <1>2 DEF vars, inputs, PathInv, Copied, Live, Slot
<1>3. QED
  BY <1>1, <1>2 DEF Next, ProfileRun, ComputeScores, WalkRow, LaunchCache, CacheFlat, TakeDraft,
     Copied

LEMMA PathIsInvariant == Spec => []PathInv
<1>1. TypeOK /\ SupportCached /\ WrittenBeforeRead /\ PathInv /\ [Next]_vars => PathInv'
  BY BatchStep, WalksStep, ScatteredStep, CopiedStep DEF PathInv
<1>2. QED
  BY <1>1, PathInit, TypeCorrect, SupportIsCached, WrittenFirst, PTL DEF Spec

(* The predecessor of a step of a drafted row, and the scores after it.    *)
Given(r, i) == IF i = 0 THEN anchor_token_ids[r] ELSE draft_tokens[r][i - 1]
After(r, i) == [c \in Lanes |-> AddScore(unary_logits[r][i][c],
                                         edges[r][Given(r, i)][candidate_ids[r][i][c]])]

(* A finished draft: at each step the token of a lane that won the scores  *)
(* after the token before it, and those scores as the proposal.            *)
LEMMA DraftIsPath ==
    ASSUME TypeOK, PathInv, NEW r \in Rows, NEW i \in Steps, Drafted(r)
    PROVE  /\ \E k \in Lanes : /\ k \in WalkIndices(After(r, i), temperature[Slot(r)])
                               /\ draft_tokens[r][i] = candidate_ids[r][i][k]
           /\ Dense!IsScatter(Proposal(r, i), Dense!Blank, candidate_ids[r][i], After(r, i))
           /\ Given(r, i) \in Token
           /\ After(r, i) \in [Lanes -> RawScore]
<1> USE DEF PathInv
<1>1. Live(r) /\ Walked(r) /\ Cached(r, i)
  BY DEF Drafted, Live, Walked, Cached, Copied, Slot
<1>2. PICK path \in [Steps -> Lanes] : WalkOf(r, path)
  BY <1>1 DEF Walks
<1>3. \A j \in Steps : draft_tokens[r][j] = candidate_ids[r][j][path[j]]
  BY <1>1, <1>2 DEF Copied, Drafted, WalkOf
<1>4. scores[r] = ScoreEdges(anchor_token_ids[r], candidate_ids[r], unary_logits[r], edges[r])
  BY <1>1 DEF Scored
<1>5. (i # 0 => i - 1 \in Steps) /\ path \in [Steps -> Int]
  BY SizesAssumption DEF Steps, Lanes
<1>6. Previous(path, i) \in Lanes
  BY <1>5, PreviousIsLane
<1>7. Predecessor(anchor_token_ids[r], candidate_ids[r], i, Previous(path, i)) = Given(r, i)
  BY <1>3, <1>5 DEF Predecessor, Given, Previous
<1>8. scores[r][i][Previous(path, i)] = After(r, i)
  BY <1>4, <1>6, <1>7 DEF ScoreEdges, After
<1>9. scores[r][i][Previous(path, i)] \in [Lanes -> RawScore]
  BY <1>6 DEF TypeOK
<1>10. Given(r, i) \in Token
  BY <1>5 DEF Given, TypeOK
<1>11. selector_scores[r][i] = After(r, i)
       /\ path[i] \in WalkIndices(After(r, i), temperature[Slot(r)])
  BY <1>2, <1>8 DEF WalkOf
<1>12. Dense!IsScatter(Proposal(r, i), Dense!Blank, candidate_ids[r][i], After(r, i))
  BY <1>1, <1>11 DEF Scattered
<1>13. QED
  BY <1>3, <1>8, <1>9, <1>10, <1>11, <1>12

(* Every drafted token is proposed, and is NaN only if all are.            *)
THEOREM PathsAreProposed == Spec => []PathIsProposed
<1>1. TypeOK /\ PathInv => PathIsProposed
  <2> SUFFICES ASSUME TypeOK, PathInv, NEW r \in Rows, NEW i \in Steps, Drafted(r)
               PROVE  /\ draft_tokens[r][i] \in Named(candidate_ids[r][i])
                      /\ Proposal(r, i)[draft_tokens[r][i]] # NegInf
                      /\ Proposal(r, i)[draft_tokens[r][i]] = NaN =>
                            \A t \in Named(candidate_ids[r][i]) : Proposal(r, i)[t] = NaN
    BY DEF PathIsProposed
  <2>1. PICK k \in Lanes : /\ k \in WalkIndices(After(r, i), temperature[Slot(r)])
                           /\ draft_tokens[r][i] = candidate_ids[r][i][k]
    BY DraftIsPath
  <2>2. Dense!IsScatter(Proposal(r, i), Dense!Blank, candidate_ids[r][i], After(r, i))
    BY DraftIsPath
  <2>3. After(r, i) \in [Lanes -> RawScore] /\ Given(r, i) \in Token
    BY DraftIsPath
  <2>4. /\ candidate_ids[r][i] \in [Lanes -> Token]
        /\ unary_logits[r][i] \in [Lanes -> Int]
        /\ edges[r][Given(r, i)] \in [Token -> RawScore]
    BY <2>3 DEF TypeOK
  <2>5. draft_tokens[r][i] \in Named(candidate_ids[r][i]) /\ draft_tokens[r][i] \in Token
    BY <2>1, <2>4 DEF Named
  <2>6. \A t \in Named(candidate_ids[r][i]) :
           \E m \in Lanes : candidate_ids[r][i][m] = t /\ Proposal(r, i)[t] = After(r, i)[m]
    BY <2>2, <2>4 DEF Dense!IsScatter, Named
  <2>7. Proposal(r, i)[draft_tokens[r][i]] # NegInf
    BY <2>3, <2>5, <2>6, ScoresAssumption DEF RawScore
  <2>8. ASSUME NEW m \in Lanes, NEW n \in Lanes,
               candidate_ids[r][i][m] = candidate_ids[r][i][n], After(r, i)[m] = NaN
        PROVE  After(r, i)[n] = NaN
    BY <2>4, <2>8, ScoresAssumption DEF After, AddScore, RawScore
  <2>9. ASSUME Proposal(r, i)[draft_tokens[r][i]] = NaN
        PROVE  \A m \in Lanes : After(r, i)[m] = NaN
    <3>1. After(r, i)[k] = NaN
      BY <2>1, <2>5, <2>6, <2>8, <2>9
    <3>2. Finite(After(r, i)) = {}
      <4> SUFFICES ASSUME Finite(After(r, i)) # {} PROVE FALSE
        OBVIOUS
      <4>1. RawIndices(After(r, i), temperature[Slot(r)]) \subseteq Finite(After(r, i))
        BY DEF RawIndices, FirstBest
      <4>2. k \in Finite(After(r, i))
        BY <2>1, <4>1, SizesAssumption DEF WalkIndices, ClampIndex, Finite, Lanes
      <4>3. QED
        BY <3>1, <4>2 DEF Finite
    <3>3. QED
      BY <3>2 DEF Finite
  <2>10. QED
    BY <2>5, <2>6, <2>7, <2>9
<1>2. QED
  BY <1>1, TypeCorrect, PathIsInvariant, PTL

(* What is proposed is conditioned on the token drafted before it.         *)
THEOREM ProposalsFollowPath == Spec => []ConditionedOnPath
<1>1. TypeOK /\ PathInv => ConditionedOnPath
  <2> SUFFICES ASSUME TypeOK, PathInv, NEW r \in Rows, NEW i \in Steps, NEW t \in Token,
                      Drafted(r)
               PROVE  IF t \in Named(candidate_ids[r][i])
                      THEN \E k \in Lanes :
                              /\ candidate_ids[r][i][k] = t
                              /\ Proposal(r, i)[t] = AddScore(unary_logits[r][i][k],
                                                              edges[r][Given(r, i)][t])
                      ELSE Proposal(r, i)[t] = NegInf
    BY DEF ConditionedOnPath, Given
  <2>1. Dense!IsScatter(Proposal(r, i), Dense!Blank, candidate_ids[r][i], After(r, i))
    BY DraftIsPath
  <2>2. QED
    BY <2>1 DEF Dense!IsScatter, Dense!Blank, Named, After
<1>2. QED
  BY <1>1, TypeCorrect, PathIsInvariant, PTL

(* At temperature 0 the drafted token is a mode of its proposal.           *)
THEOREM GreedyTokensAreModes == Spec => []GreedyIsMode
<1>1. TypeOK /\ PathInv => GreedyIsMode
  <2> SUFFICES ASSUME TypeOK, PathInv, NEW r \in Rows, NEW i \in Steps, Drafted(r),
                      temperature[Slot(r)] = 0,
                      \A k, m \in Lanes : k # m => candidate_ids[r][i][k] # candidate_ids[r][i][m],
                      NEW t \in Named(candidate_ids[r][i]), Proposal(r, i)[t] # NaN
               PROVE  Proposal(r, i)[t] <= Proposal(r, i)[draft_tokens[r][i]]
    BY DEF GreedyIsMode, Slot
  <2>1. PICK k \in Lanes : /\ k \in WalkIndices(After(r, i), temperature[Slot(r)])
                           /\ draft_tokens[r][i] = candidate_ids[r][i][k]
    BY DraftIsPath
  <2>2. Dense!IsScatter(Proposal(r, i), Dense!Blank, candidate_ids[r][i], After(r, i))
    BY DraftIsPath
  <2>3. After(r, i) \in [Lanes -> RawScore]
    BY DraftIsPath
  <2>4. candidate_ids[r][i] \in [Lanes -> Token]
    BY DEF TypeOK
  <2>5. \A m \in Lanes : Proposal(r, i)[candidate_ids[r][i][m]] = After(r, i)[m]
    BY <2>2, <2>4 DEF Dense!IsScatter
  <2>6. PICK m \in Lanes : candidate_ids[r][i][m] = t
    BY DEF Named
  <2>7. m \in Finite(After(r, i))
    BY <2>5, <2>6 DEF Finite
  <2>8. k \in FirstBest(After(r, i))
    <3>1. RawIndices(After(r, i), temperature[Slot(r)]) = FirstBest(After(r, i))
      BY <2>7 DEF RawIndices
    <3>2. QED
      BY <2>1, <3>1, SizesAssumption DEF WalkIndices, ClampIndex, FirstBest, Finite, Lanes
  <2>9. After(r, i)[m] <= After(r, i)[k]
    BY <2>3, <2>7, <2>8 DEF FirstBest, Finite, RawScore
  <2>10. QED
    BY <2>1, <2>5, <2>6, <2>9
<1>2. QED
  BY <1>1, TypeCorrect, PathIsInvariant, PTL
=============================================================================
