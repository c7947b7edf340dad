--------------------------- MODULE DraftProposals ---------------------------
(***************************************************************************)
(* What the rejection sampler may rely on when it verifies a DFlash2       *)
(* draft: for every request slot and draft position there is one dense row *)
(* of proposal logits, and that row is always either blank (-inf on the    *)
(* whole vocabulary) or the scatter of ONE realized candidate row, nothing *)
(* of any earlier draft being left in it.                                  *)
(*                                                                         *)
(* The specification is written as if the whole row were refilled with     *)
(* -inf before every draft.  DFlash2Speculator, which clears only the      *)
(* candidates it remembers, is shown to implement it.                      *)
(***************************************************************************)
EXTENDS Integers

CONSTANTS Slots,   \* request states of the engine
          Rows,    \* rows of a draft batch
          Steps,   \* draft positions of a request
          Lanes,   \* candidates of a draft position
          Token,   \* the vocabulary
          NegInf   \* the logit of a token that is not proposed

VARIABLES reqState,      \* reqState[r]: the slot row r drafts for, -1 for padding
          candidates,    \* candidates[r][i][k]: token of lane k
          realized,      \* realized[r][i][k]: score of lane k
          proposal       \* proposal[s][i][t]: the logit the sampler reads

dvars == <<reqState, candidates, realized, proposal>>

Blank == [t \in Token |-> NegInf]

(***************************************************************************)
(* A row is the scatter of the lanes (ids, sc) onto the row base: a token  *)
(* named by several lanes keeps the score of one of them, whichever store  *)
(* came last; every other token keeps its base value.                      *)
(***************************************************************************)
IsScatter(row, base, ids, sc) ==
    \A t \in Token :
        \/ \E k \in Lanes : ids[k] = t /\ row[t] = sc[k]
        \/ (\A k \in Lanes : ids[k] # t) /\ row[t] = base[t]

DraftInit == proposal = [s \in Slots |-> [i \in Steps |-> Blank]]

(* Row r publishes draft position i of its slot; no other row changes.     *)
Propose(r, i) ==
    /\ reqState[r] \in Slots
    /\ IsScatter(proposal'[reqState[r]][i], Blank,
                 candidates[r][i], realized[r][i])
    /\ \A s \in Slots, j \in Steps :
          <<s, j>> # <<reqState[r], i>> => proposal'[s][j] = proposal[s][j]

(* The batch under construction may change at will between publications.   *)
DraftNext == \/ \E r \in Rows, i \in Steps : Propose(r, i)
             \/ proposal' = proposal

DraftSpec == DraftInit /\ [][DraftNext]_dvars
=============================================================================
