------------------------- MODULE DFlash2Speculator -------------------------
(***************************************************************************)
(* DFlash2Speculator._generate_draft: one call drafts NumSteps tokens for  *)
(* every request of a batch, with the candidate selector of                *)
(* qwen3_dflash2.py, and leaves in draft_logits the proposal distribution  *)
(* the rejection sampler needs.                                            *)
(*                                                                         *)
(* Simplifications.                                                        *)
(*  - A score is an integer, NaN or NegInf: the properties compare scores  *)
(*    and tell finite ones from the others, nothing else.                  *)
(*  - What the neural network returns is an input: TopKResults are the     *)
(*    lane tuples top-k may return, EdgeTables the successor terms of the  *)
(*    selector for one request's hidden states.                            *)
(*  - The programs of one kernel launch run in any order; one program is   *)
(*    a step, since a program of num_warps=1 issues its loads and stores   *)
(*    in program order and no two programs share a cell.                   *)
(*  - The batch (rows, slots, anchors, temperatures) comes from the base   *)
(*    class, which is outside this repository: every row of a batch has a  *)
(*    slot of its own or is padding, and a temperature belongs to a slot.  *)
(***************************************************************************)
EXTENDS Integers

CONSTANTS MaxNumReqs,     \* max_num_reqs
          NumSteps,       \* num_speculative_steps
          TopK,           \* selector_top_k
          BlockK,         \* triton.next_power_of_2(selector_top_k)
          VocabSize,      \* vocab_size of the draft
          LogitsWidth,    \* padded width of the target lm_head logits
          TopKResults,    \* what _topk may return for one draft position
          EdgeTables,     \* edge terms [predecessor][successor]
          Temperatures,   \* temperature tensors, by slot
          NaN, NegInf, Garbage

Slots == 0 .. MaxNumReqs - 1
Rows == 0 .. MaxNumReqs - 1
Steps == 0 .. NumSteps - 1
Lanes == 0 .. TopK - 1
Token == 0 .. VocabSize - 1
Padding == -1
Score == Int \union {NaN, NegInf}
RawScore == Int \union {NaN}

ASSUME SizesAssumption ==
    /\ MaxNumReqs \in Nat \ {0} /\ NumSteps \in Nat \ {0}
    /\ TopK \in Nat \ {0} /\ VocabSize \in Nat \ {0}
    /\ BlockK \in Nat /\ BlockK >= TopK
    /\ LogitsWidth \in Nat /\ LogitsWidth >= VocabSize

ASSUME ScoresAssumption ==
    /\ NaN \notin Int /\ NegInf \notin Int /\ Garbage \notin Int
    /\ NaN # NegInf /\ Garbage # NaN /\ Garbage # NegInf

ASSUME InputsAssumption ==
    /\ TopKResults \subseteq [Lanes -> [id : Int, unary : Int]]
    /\ EdgeTables \subseteq [Token -> [Token -> RawScore]]
    /\ Temperatures \subseteq [Slots -> Nat]

VARIABLES
    pc,                    \* which kernel of the stream is running
    num_reqs,              \* rows of the batch
    sample_idx_mapping,    \* slot of each row, Padding for a padded row
    temperature,           \* temperature of each slot
    anchor_token_ids,      \* last accepted token of each row
    unary_logits,          \* local: unary score of each lane
    edges,                 \* local: edge table of each row
    candidate_ids,         \* local: token of each lane
    scores,                \* local: scores[row][step][predecessor lane][lane]
    pending,               \* programs of the running kernel still to execute
    selector_tokens,       \* _selector_tokens
    selector_scores,       \* _selector_scores
    draft_tokens,          \* draft_tokens
    draft_logits,          \* draft_logits
    cached_candidate_ids   \* _cached_candidate_ids

inputs == <<num_reqs, sample_idx_mapping, temperature, anchor_token_ids,
            unary_logits, edges, candidate_ids, scores>>
vars == <<pc, inputs, pending, selector_tokens, selector_scores,
          draft_tokens, draft_logits, cached_candidate_ids>>

Clamp(x, lo, hi) == IF x < lo THEN lo ELSE IF x > hi THEN hi ELSE x

(***************************************************************************)
(* compute_candidates and _score_edges.                                    *)
(***************************************************************************)

(* ids.clamp_ to the padded logits row in compute_candidates, then the     *)
(* clamp to the draft vocabulary in _generate_draft.                       *)
ClampId(id) == Clamp(Clamp(id, 0, LogitsWidth - 1), 0, VocabSize - 1)

AddScore(unary, edge) == IF edge = NaN THEN NaN ELSE unary + edge

(* Predecessor of lane p at step i: the anchor at step 0, else the         *)
(* candidate of lane p one step earlier.                                   *)
Predecessor(anchor, ids, i, p) == IF i = 0 THEN anchor ELSE ids[i - 1][p]

ScoreEdges(anchor, ids, unary, table) ==
    [i \in Steps |-> [p \in Lanes |-> [c \in Lanes |->
        AddScore(unary[i][c], table[Predecessor(anchor, ids, i, p)][ids[i][c]])]]]

(***************************************************************************)
(* _selector_walk_kernel: argmax over one score row.                       *)
(***************************************************************************)
Finite(row) == {k \in Lanes : row[k] # NaN}

(* Smallest lane of maximal score (temperature 0).                         *)
FirstBest(row) ==
    {k \in Finite(row) : \A m \in Finite(row) :
        row[m] < row[k] \/ (row[m] = row[k] /\ k <= m)}

(* No score of the row compares equal to the maximum: the first masked     *)
(* lane wins with its own -inf, or every lane loses and BLOCK_K is left.   *)
LosingIndex == IF BlockK > TopK THEN TopK ELSE BlockK

(* Noise that is added at temperature 0 as well.                           *)
AlwaysNoisy(row, temp) == IF Finite(row) = {} THEN {LosingIndex} ELSE Finite(row)

(* Gumbel noise can make any finite lane the winner.                       *)
RawIndices(row, temp) ==
    IF Finite(row) = {} THEN {LosingIndex}
    ELSE IF temp = 0 THEN FirstBest(row) ELSE Finite(row)

(* The kernel before its bound check.                                      *)
UnclampedIndex(index) == index

(* tl.minimum(index, top_k - 1)                                            *)
ClampIndex(index) == IF index > TopK - 1 THEN TopK - 1 ELSE index

WalkIndices(row, temp) == {ClampIndex(index) : index \in RawIndices(row, temp)}

(* Loads past a row: the word of the next row, or, past the last one, an   *)
(* id that is no token and scores that are NaN.                            *)
LoadCandidate(ids, i, k) ==
    IF k < TopK THEN ids[i][k]
    ELSE IF i + 1 \in Steps THEN ids[i + 1][k - TopK] ELSE VocabSize
LoadScores(sc, i, p) ==
    IF p < TopK THEN sc[i][p]
    ELSE IF i + 1 \in Steps THEN sc[i + 1][p - TopK] ELSE [k \in Lanes |-> NaN]

(* A walk that never moves off the first predecessor.                      *)
PreviousStuck(path, i) == 0

(* `previous' at step i of a walk that chose the lanes `path'.             *)
Previous(path, i) == IF i = 0 THEN 0 ELSE path[i - 1]

(***************************************************************************)
(* _cache_draft_logits_kernel: -inf over the remembered candidates, then   *)
(* the new scores.  pick[t] is the lane whose store to token t came last.  *)
(***************************************************************************)
Named(ids) == {ids[k] : k \in Lanes}

LastStore(ids) ==
    {pick \in [Token -> Lanes] :
        \A t \in Token : IF t \in Named(ids) THEN ids[pick[t]] = t ELSE pick[t] = 0}

(* A kernel that trusts the new scores to overwrite the old ones.          *)
NothingCleared(row, old) == row

Cleared(row, old) == [t \in Token |-> IF t \in Named(old) THEN NegInf ELSE row[t]]

Scatter(base, ids, sc, pick) ==
    [t \in Token |-> IF t \in Named(ids) THEN sc[pick[t]] ELSE base[t]]

(* The two stores of the kernel swapped.                                   *)
ClearedLast(row, old, ids, sc, pick) == Cleared(Scatter(row, ids, sc, pick), old)

CachedRow(row, old, ids, sc, pick) == Scatter(Cleared(row, old), ids, sc, pick)
-----------------------------------------------------------------------------
NoIds == [r \in Rows |-> [i \in Steps |-> [k \in Lanes |-> 0]]]
NoScores == [r \in Rows |-> [i \in Steps |-> [p \in Lanes |-> [k \in Lanes |-> NaN]]]]
Unwritten == [r \in Rows |-> [i \in Steps |-> [k \in Lanes |-> Garbage]]]
NoTokens == [r \in Rows |-> [i \in Steps |-> 0]]

NoMapping == [r \in Rows |-> Padding]
NoTemperature == [s \in Slots |-> 0]
NoAnchors == [r \in Rows |-> 0]
NoEdges == [r \in Rows |-> [p \in Token |-> [c \in Token |-> NaN]]]

Init ==
    /\ pc = "idle"
    /\ num_reqs = 0 /\ sample_idx_mapping = NoMapping
    /\ temperature = NoTemperature /\ anchor_token_ids = NoAnchors
    /\ unary_logits = NoIds /\ edges = NoEdges
    /\ candidate_ids = NoIds /\ scores = NoScores
    /\ pending = {}
    /\ selector_tokens = NoTokens
    /\ selector_scores = Unwritten
    /\ draft_tokens = NoTokens
    /\ draft_logits = [s \in Slots |-> [i \in Steps |-> [t \in Token |-> NegInf]]]
    /\ cached_candidate_ids = [s \in Slots |-> [i \in Steps |-> [k \in Lanes |-> 0]]]

(* A tensor of n rows in a buffer that held `rest'.                        *)
Filled(n, rows, rest) == [r \in Rows |-> IF r < n THEN rows[r] ELSE rest[r]]

(* No attention metadata (memory profiling): the selector is skipped.      *)
ProfileRun ==
    /\ pc = "idle"
    /\ \E n \in 1 .. MaxNumReqs :
          draft_tokens' = Filled(n, NoTokens, draft_tokens)
    /\ UNCHANGED <<pc, inputs, pending, selector_tokens, selector_scores,
                   draft_logits, cached_candidate_ids>>

(* Rows of a batch: slots of their own, padding behind the last request.   *)
BatchMappings(n) ==
    {m \in [Rows -> Slots \union {Padding}] :
        /\ \A r \in Rows : r >= n => m[r] = Padding
        /\ \A q, r \in Rows : q # r /\ m[q] # Padding => m[q] # m[r]}

(* compute_candidates, the clamps and the selector, for a batch of n rows. *)
ScoreBatch(n, temp, anchor, table, res) ==
    LET batch == 0 .. n - 1
        unary == [r \in batch |-> [i \in Steps |-> [k \in Lanes |-> res[r][i][k].unary]]]
        ids == [r \in batch |-> [i \in Steps |-> [k \in Lanes |-> ClampId(res[r][i][k].id)]]]
        sc == [r \in batch |-> ScoreEdges(anchor[r], ids[r], unary[r], table[r])]
    IN  /\ num_reqs' = n
        /\ sample_idx_mapping' \in BatchMappings(n)
        /\ temperature' = temp
        /\ anchor_token_ids' = Filled(n, anchor, NoAnchors)
        /\ edges' = Filled(n, table, NoEdges)
        /\ unary_logits' = Filled(n, unary, NoIds)
        /\ candidate_ids' = Filled(n, ids, NoIds)
        /\ scores' = Filled(n, sc, NoScores)
        /\ pending' = {<<r, 0>> : r \in batch}

(* The draft forward; then the walk is launched, one program per row.      *)
ComputeScores ==
    /\ pc = "idle"
    /\ pc' = "walk"
    /\ \E n \in 1 .. MaxNumReqs, temp \in Temperatures :
       \E anchor \in [0 .. n - 1 -> Token], table \in [0 .. n - 1 -> EdgeTables],
          res \in [0 .. n - 1 -> [Steps -> TopKResults]] :
          ScoreBatch(n, temp, anchor, table, res)
    /\ UNCHANGED <<selector_tokens, selector_scores, draft_tokens,
                   draft_logits, cached_candidate_ids>>

(* One program of _selector_walk_kernel; a padded row stores nothing.      *)
WalkRow(r) ==
    /\ pc = "walk"
    /\ <<r, 0>> \in pending
    /\ pending' = pending \ {<<r, 0>>}
    /\ IF sample_idx_mapping[r] = Padding
       THEN UNCHANGED <<selector_tokens, selector_scores>>
       ELSE \E path \in [Steps -> 0 .. BlockK] :
              LET row(i) == LoadScores(scores[r], i, Previous(path, i))
              IN  /\ \A i \in Steps :
                        path[i] \in WalkIndices(row(i), temperature[sample_idx_mapping[r]])
                  /\ selector_scores' = [selector_scores EXCEPT
                        ![r] = [i \in Steps |-> row(i)]]
                  /\ selector_tokens' = [selector_tokens EXCEPT
                        ![r] = [i \in Steps |-> LoadCandidate(candidate_ids[r], i, path[i])]]
    /\ UNCHANGED <<pc, inputs, draft_tokens, draft_logits, cached_candidate_ids>>

(* Kernels on streams of their own.                                        *)
StreamIgnored == TRUE

(* A kernel starts when the one launched before it on the stream is done.  *)
StreamDrained == pending = {}

(* _selector_tokens[:num_reqs].clamp_, then the second kernel is launched  *)
(* on num_reqs * num_steps programs.                                       *)
LaunchCache ==
    /\ pc = "walk"
    /\ StreamDrained
    /\ pc' = "cache"
    /\ pending' = (0 .. num_reqs - 1) \X Steps
    /\ selector_tokens' = Filled(num_reqs,
            [r \in Rows |-> [i \in Steps |-> Clamp(selector_tokens[r][i], 0, VocabSize - 1)]],
            selector_tokens)
    /\ UNCHANGED <<inputs, selector_scores, draft_tokens, draft_logits,
                   cached_candidate_ids>>

(* One program of _cache_draft_logits_kernel.                              *)
CacheFlat(r, i) ==
    /\ pc = "cache"
    /\ <<r, i>> \in pending
    /\ pending' = pending \ {<<r, i>>}
    /\ LET s == sample_idx_mapping[r]
       IN  IF s = Padding
           THEN UNCHANGED <<draft_logits, cached_candidate_ids>>
           ELSE \E pick \in LastStore(candidate_ids[r][i]) :
                  /\ draft_logits' = [draft_logits EXCEPT ![s][i] =
                        CachedRow(draft_logits[s][i], cached_candidate_ids[s][i],
                                  candidate_ids[r][i], selector_scores[r][i], pick)]
                  /\ cached_candidate_ids' = [cached_candidate_ids EXCEPT
                        ![s][i] = candidate_ids[r][i]]
    /\ UNCHANGED <<pc, inputs, selector_tokens, selector_scores, draft_tokens>>

(* draft_tokens[:num_reqs].copy_(_selector_tokens[:num_reqs])              *)
CopyTokens ==
    /\ pc = "cache"
    /\ StreamDrained
    /\ pc' = "drafted"
    /\ draft_tokens' = Filled(num_reqs, selector_tokens, draft_tokens)
    /\ UNCHANGED <<inputs, pending, selector_tokens, selector_scores,
                   draft_logits, cached_candidate_ids>>

(* The engine takes the draft and the locals of the call are gone.  What   *)
(* _selector_scores still holds must not be read before it is written      *)
(* again: it is poisoned here, so that a stale read shows as Garbage.      *)
TakeDraft ==
    /\ pc = "drafted"
    /\ pc' = "idle"
    /\ num_reqs' = 0 /\ sample_idx_mapping' = NoMapping
    /\ temperature' = NoTemperature /\ anchor_token_ids' = NoAnchors
    /\ unary_logits' = NoIds /\ edges' = NoEdges
    /\ candidate_ids' = NoIds /\ scores' = NoScores
    /\ selector_scores' = Unwritten
    /\ UNCHANGED <<pending, selector_tokens, draft_tokens, draft_logits,
                   cached_candidate_ids>>

Next ==
    \/ ProfileRun
    \/ ComputeScores
    \/ \E r \in Rows : WalkRow(r)
    \/ LaunchCache
    \/ \E r \in Rows, i \in Steps : CacheFlat(r, i)
    \/ CopyTokens
    \/ TakeDraft

Spec == Init /\ [][Next]_vars
-----------------------------------------------------------------------------
(***************************************************************************)
(* Correctness.                                                            *)
(***************************************************************************)
StoredScore == Score \union {Garbage}

TypeOK ==
    /\ pc \in {"idle", "walk", "cache", "drafted"}
    /\ num_reqs \in 0 .. MaxNumReqs
    /\ sample_idx_mapping \in [Rows -> Slots \union {Padding}]
    /\ temperature \in [Slots -> Nat]
    /\ anchor_token_ids \in [Rows -> Token]
    /\ unary_logits \in [Rows -> [Steps -> [Lanes -> Int]]]
    /\ edges \in [Rows -> [Token -> [Token -> RawScore]]]
    /\ scores \in [Rows -> [Steps -> [Lanes -> [Lanes -> RawScore]]]]
    /\ pending \subseteq Rows \X Steps
    /\ candidate_ids \in [Rows -> [Steps -> [Lanes -> Token]]]
    /\ selector_tokens \in [Rows -> [Steps -> Token]]
    /\ selector_scores \in [Rows -> [Steps -> [Lanes -> StoredScore]]]
    /\ draft_tokens \in [Rows -> [Steps -> Token]]
    /\ draft_logits \in [Slots -> [Steps -> [Token -> StoredScore]]]
    /\ cached_candidate_ids \in [Slots -> [Steps -> [Lanes -> Token]]]

(* The kernel clears only the candidates it remembers, so every token with *)
(* a logit has to be remembered, whichever request owned the slot before.  *)
SupportCached ==
    \A s \in Slots, i \in Steps, t \in Token :
        draft_logits[s][i][t] # NegInf => t \in Named(cached_candidate_ids[s][i])

(* The row r of a finished draft that belongs to a request.                *)
Drafted(r) == pc = "drafted" /\ r < num_reqs /\ sample_idx_mapping[r] # Padding
Proposal(r, i) == draft_logits[sample_idx_mapping[r]][i]

(* Nothing torch.empty left in the score buffer reaches the sampler.       *)
NoGarbageProposed ==
    \A s \in Slots, i \in Steps, t \in Token : draft_logits[s][i][t] # Garbage

(* Every drafted token is one the sampler finds proposed: it is a candidate*)
(* of its position, its logit is not -inf, and it is NaN only if the       *)
(* selector gave every candidate of the position a NaN.                    *)
PathIsProposed ==
    \A r \in Rows, i \in Steps : Drafted(r) =>
        /\ draft_tokens[r][i] \in Named(candidate_ids[r][i])
        /\ Proposal(r, i)[draft_tokens[r][i]] # NegInf
        /\ Proposal(r, i)[draft_tokens[r][i]] = NaN =>
              \A t \in Named(candidate_ids[r][i]) : Proposal(r, i)[t] = NaN

(* What the slot proposes at position i is conditioned on the token drafted*)
(* at position i-1 (on the anchor at position 0), not on another lane of   *)
(* the predecessor axis, another row or an earlier draft.                  *)
ConditionedOnPath ==
    \A r \in Rows, i \in Steps, t \in Token : Drafted(r) =>
        LET given == IF i = 0 THEN anchor_token_ids[r] ELSE draft_tokens[r][i - 1]
        IN  IF t \in Named(candidate_ids[r][i])
            THEN \E k \in Lanes :
                    /\ candidate_ids[r][i][k] = t
                    /\ Proposal(r, i)[t] = AddScore(unary_logits[r][i][k],
                                                    edges[r][given][t])
            ELSE Proposal(r, i)[t] = NegInf

(* At temperature 0 the drafted token is a mode of the proposal, so that a *)
(* greedy verifier and the draft agree on what was proposed.  A position   *)
(* that names one token twice is left out: either score may be the logit.  *)
GreedyIsMode ==
    \A r \in Rows, i \in Steps :
        LET logit == Proposal(r, i)
            ids == candidate_ids[r][i]
            finite == {t \in Named(ids) : logit[t] # NaN}
        IN  /\ Drafted(r)
            /\ temperature[sample_idx_mapping[r]] = 0
            /\ \A k, m \in Lanes : k # m => ids[k] # ids[m]
            /\ finite # {}
            => \A t \in finite : logit[t] <= logit[draft_tokens[r][i]]

(* The remembered-candidates buffer implements a dense proposal refilled   *)
(* with -inf before every draft.                                           *)
Dense == INSTANCE DraftProposals WITH
            reqState <- sample_idx_mapping, candidates <- candidate_ids,
            realized <- selector_scores, proposal <- draft_logits

RefinesDense == Dense!DraftSpec
=============================================================================
