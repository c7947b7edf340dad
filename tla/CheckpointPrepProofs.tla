-------------------------- MODULE CheckpointPrepProofs --------------------------
(***************************************************************************)
(* Proofs about CheckpointPrep, for bases of any number of shards but      *)
(* four, heads of any size and any number of kills: the base is never      *)
(* written through its links, a tree the launcher accepts is whole, a      *)
(* final index finds every tensor, a finished tree is kept, what is        *)
(* uploaded is what was hashed, and a draft the launcher accepts is whole. *)
(***************************************************************************)
EXTENDS CheckpointPrep, FiniteSetTheorems, TLAPS

(* Until the new shard is opened the tree holds links to the base alone,   *)
(* so that opening it creates a file; what is written is that file.        *)
TreeOfLinks ==
    /\ base \in BaseCounts
    /\ data = [f \in Files |-> data[f]]
    /\ mpc \in {"absent", "link", "open"} => DOMAIN out \subseteq BaseShards
    /\ mpc = "write" => out[NewShard] = NewFile

BaseInv == TreeOfLinks /\ BaseUntouched

(* The final index is written last.                                        *)
IndexIsLast == index = "final" => mpc \in {"audit", "done", "stopped"}

(* The config is rewritten when all other files are whole, and stays as    *)
(* the source has it before.                                               *)
Adapted == /\ \A k \in Forced : config[k] = "adapted"
           /\ \A k \in Defaulted : config[k] # "absent"

DraftInv ==
    \/ config \in SourceConfigs /\ dpc \in {"absent", "copy", "stopped"}
    \/ /\ Adapted
       /\ \A f \in Weights : Whole(f)
       /\ dpc \in {"rewrite", "done", "stopped"}

(* The file a shard of the merged tree is a link to, and the shards' old   *)
(* names: what the tree holds before the renaming.                         *)
FileOf(s) == IF s = NewShard THEN NewFile ELSE s

Linked ==
    /\ turn = 0 /\ index # "final"
    /\ DOMAIN out \subseteq Merged
    /\ \A s \in DOMAIN out : out[s] = FileOf(s)

At(n, s) == n \in DOMAIN out /\ out[n] = FileOf(s)

(* While shards are renamed, those that had their turn are found by their  *)
(* new name and the others by their old one; the one whose old name is     *)
(* about to be removed has both.                                           *)
Renaming ==
    /\ data[NewFile] = Mtp
    /\ \A n \in DOMAIN out : out[n] \in Files
    /\ \A s \in Merged : At(IF Rank(s) <= turn THEN NewName(s) ELSE s, s)
    /\ mpc = "unlink" =>
           \A s \in Merged : Turn(s) => s # NewName(s) /\ At(NewName(s), s)
    /\ mpc \in {"rename", "unlink"} => index # "final"
    /\ mpc = "index" \/ index = "final" => Renamed

TreeInv ==
    /\ turn \in Nat
    /\ \/ /\ Linked /\ mpc \in {"absent", "link", "open"}
          /\ DOMAIN out \subseteq BaseShards
          /\ mpc = "open" => DOMAIN out = BaseShards
       \/ /\ Linked /\ mpc = "write"
          /\ DOMAIN out = Merged
          /\ data[NewFile] \subseteq Mtp
       \/ Linked /\ mpc = "stopped"
       \/ Renaming /\ mpc \in {"rename", "unlink", "index", "audit", "done", "stopped"}

(* What was hashed stays as it was until it is uploaded.                   *)
HashInv ==
    /\ hashed \in 0 .. 4
    /\ ppc = "hash" => \A i \in 1 .. hashed : HashMatches(i)
-----------------------------------------------------------------------------
(* No shard of the base has the new shard's name or is the new file.       *)
LEMMA NewIsNew ==
    ASSUME base \in BaseCounts
    PROVE  NewShard \notin BaseShards /\ NewFile \notin BaseShards
BY PrepAssumption DEF NewShard, NewFile, BaseShards

(* The names of the shards change with the base alone.                     *)
LEMMA SameNames ==
    ASSUME base' = base
    PROVE  /\ BaseShards' = BaseShards /\ Files' = Files
           /\ NewShard' = NewShard /\ NewFile' = NewFile
BY DEF BaseShards, Files, NewShard, NewFile

LEMMA InitBase == Init => BaseInv
BY NewIsNew DEF Init, BaseInv, TreeOfLinks, BaseUntouched, NoFiles, Files

LEMMA LinkKeeps == BaseInv /\ LinkShard => BaseInv'
<1> SUFFICES ASSUME BaseInv, LinkShard PROVE BaseInv'
    OBVIOUS
<1>1. mpc = "link" /\ mpc' = "link" /\ UNCHANGED <<base, data>>
    BY DEF LinkShard, MergeStep
<1>2. DOMAIN out' \subseteq BaseShards
    BY <1>1 DEF LinkShard, BaseInv, TreeOfLinks
<1> QED
    BY <1>1, <1>2, SameNames DEF BaseInv, TreeOfLinks, BaseUntouched

LEMMA OpenKeeps == BaseInv /\ OpenShard => BaseInv'
<1> SUFFICES ASSUME BaseInv, OpenShard PROVE BaseInv'
    OBVIOUS
<1>1. mpc = "open" /\ mpc' = "write" /\ base' = base
    BY DEF OpenShard, MergeStep
<1>2. NewShard \notin DOMAIN out /\ NewFile \notin BaseShards
    BY <1>1, NewIsNew DEF BaseInv, TreeOfLinks
<1>3. out'[NewShard] = NewFile /\ data' = [data EXCEPT ![NewFile] = {}]
    BY <1>2 DEF OpenShard, Present
<1> QED
    BY <1>1, <1>2, <1>3, SameNames DEF BaseInv, TreeOfLinks, BaseUntouched

LEMMA WriteKeeps == BaseInv /\ WriteTensor => BaseInv'
<1> SUFFICES ASSUME BaseInv, WriteTensor PROVE BaseInv'
    OBVIOUS
<1>1. mpc = "write" /\ mpc' = "write" /\ UNCHANGED <<base, out>>
    BY DEF WriteTensor, MergeStep
<1>2. NewFile \notin BaseShards /\ out[NewShard] = NewFile
    BY <1>1, NewIsNew DEF BaseInv, TreeOfLinks
<1>3. \E S : data' = [data EXCEPT ![NewFile] = S]
    BY <1>2 DEF WriteTensor
<1> QED
    BY <1>1, <1>2, <1>3, SameNames DEF BaseInv, TreeOfLinks, BaseUntouched

LEMMA DiscardKeeps == BaseInv /\ DiscardTree => BaseInv'
<1> SUFFICES ASSUME BaseInv, DiscardTree PROVE BaseInv'
    OBVIOUS
<1>1. mpc' = "absent" /\ base' = base /\ out' = NoFiles
      /\ data' = [data EXCEPT ![NewFile] = {}]
    BY DEF DiscardTree, MergeStep
<1>2. NewFile \notin BaseShards
    BY NewIsNew DEF BaseInv, TreeOfLinks
<1>3. DOMAIN out' = {}
    BY <1>1 DEF NoFiles
<1>4. TreeOfLinks'
    BY <1>1, <1>3, SameNames DEF BaseInv, TreeOfLinks
<1>5. BaseUntouched'
    BY <1>1, <1>2, SameNames DEF BaseInv, TreeOfLinks, BaseUntouched, Files
<1> QED
    BY <1>4, <1>5 DEF BaseInv

(* The other steps write no shard, and come before the opening with the    *)
(* tree as it was.                                                         *)
LEMMA OthersKeep ==
    ASSUME UNCHANGED <<base, data>>, mpc' # "write",
           mpc' \in {"absent", "link", "open"} =>
               mpc \in {"absent", "link", "open"} /\ out' = out
    PROVE  BaseInv => BaseInv'
BY SameNames DEF BaseInv, TreeOfLinks, BaseUntouched

LEMMA NextBase == BaseInv /\ [Next]_vars => BaseInv'
<1> SUFFICES ASSUME BaseInv, [Next]_vars PROVE BaseInv'
    OBVIOUS
<1>1. CASE StartMerge \/ CopyIndex \/ ShortRead \/ CloseShard
    BY <1>1, OthersKeep DEF StartMerge, CopyIndex, ShortRead, CloseShard, MergeStep
<1>2. CASE LinkNewName \/ UnlinkOldName \/ KeepName \/ WriteIndex \/ Audit
    BY <1>2, OthersKeep DEF LinkNewName, UnlinkOldName, KeepName, WriteIndex, Audit, MergeStep
<1>3. CASE MergeKilled
    BY <1>3, OthersKeep DEF MergeKilled
<1>4. CASE UNCHANGED mergeVars
    BY <1>4, SameNames DEF mergeVars, BaseInv, TreeOfLinks, BaseUntouched, BaseShards, Files
<1>5. CASE DraftNext \/ DraftKilled \/ DiscardDraft
    <2>1. UNCHANGED mergeVars
        BY <1>5 DEF DraftNext, StartDraft, CopyDraftFile, RewriteConfig, DraftKilled,
                    DiscardDraft, DraftStep
    <2> QED
        BY <1>4, <2>1
<1>6. CASE PublishNames \/ PublishHash \/ Upload \/ UNCHANGED vars
    <2>1. UNCHANGED mergeVars
        BY <1>6 DEF PublishNames, PublishHash, Upload, PublishStep, vars
    <2> QED
        BY <1>4, <2>1
<1> QED
    BY <1>1, <1>2, <1>3, <1>5, <1>6, LinkKeeps, OpenKeeps, WriteKeeps, DiscardKeeps
       DEF Next, MergeNext

(* The base keeps its content, though the tree is made of links to it.     *)
THEOREM LinksAreNotWritten == Spec => []BaseUntouched
<1>1. BaseInv => BaseUntouched
    BY DEF BaseInv
<1> QED
    BY InitBase, NextBase, <1>1, PTL DEF Spec
-----------------------------------------------------------------------------
(* What a step does of the merge's variables beside its place.             *)
LEMMA NextIndex ==
    IndexIsLast /\ [Next]_vars =>
        /\ IndexIsLast'
        /\ index = "final" /\ mpc' # "absent" => UNCHANGED <<out, data, index>>
<1> SUFFICES ASSUME IndexIsLast, [Next]_vars
             PROVE  /\ IndexIsLast'
                    /\ index = "final" /\ mpc' # "absent" => UNCHANGED <<out, data, index>>
    OBVIOUS
<1>1. CASE MergeNext
    <2>1. CASE StartMerge \/ LinkShard \/ CopyIndex \/ OpenShard \/ WriteTensor \/ ShortRead
        BY <2>1 DEF IndexIsLast, StartMerge, LinkShard, CopyIndex, OpenShard, WriteTensor,
                    ShortRead, MergeStep
    <2>2. CASE \/ CloseShard \/ LinkNewName \/ UnlinkOldName \/ KeepName \/ WriteIndex
               \/ Audit
        BY <2>2 DEF IndexIsLast, CloseShard, LinkNewName, UnlinkOldName, KeepName,
                    WriteIndex, Audit, MergeStep
    <2> QED
        BY <1>1, <2>1, <2>2 DEF MergeNext
<1>2. CASE MergeKilled \/ DiscardTree
    BY <1>2 DEF IndexIsLast, MergeKilled, DiscardTree, MergeStep
<1>3. CASE UNCHANGED mergeVars
    BY <1>3 DEF mergeVars, IndexIsLast
<1>4. CASE DraftNext \/ DraftKilled \/ DiscardDraft
    <2>1. UNCHANGED mergeVars
        BY <1>4 DEF DraftNext, StartDraft, CopyDraftFile, RewriteConfig, DraftKilled,
                    DiscardDraft, DraftStep
    <2> QED
        BY <1>3, <2>1
<1>5. CASE PublishNames \/ PublishHash \/ Upload \/ UNCHANGED vars
    <2>1. UNCHANGED mergeVars
        BY <1>5 DEF PublishNames, PublishHash, Upload, PublishStep, vars
    <2> QED
        BY <1>3, <2>1
<1> QED
    BY <1>1, <1>2, <1>4, <1>5 DEF Next

(* A tree that has its final index is not written again.                   *)
THEOREM FinishedTreeStays == Spec => FinishedTreeKept
<1>1. Init => IndexIsLast
    BY DEF Init, IndexIsLast
<1>2. IndexIsLast /\ [Next]_vars =>
          /\ IndexIsLast'
          /\ [index = "final" /\ mpc' # "absent" => UNCHANGED <<out, data, index>>]_vars
    BY NextIndex
<1> QED
    BY <1>1, <1>2, PTL DEF Spec, FinishedTreeKept
-----------------------------------------------------------------------------
(***************************************************************************)
(* The order in which the merged shards are renamed.                       *)
(***************************************************************************)
Lower(s) == {t \in Merged : Before(t, s)}

LEMMA MergedPairs ==
    ASSUME base \in BaseCounts, NEW s \in Merged
    PROVE  /\ s = <<s[1], s[2]>> /\ s[1] \in Nat /\ s[2] \in Nat
           /\ s # NewShard => s[1] \in 1 .. base /\ s[2] = base
BY PrepAssumption DEF Merged, BaseShards, NewShard

LEMMA MergedFinite ==
    ASSUME base \in BaseCounts
    PROVE  IsFiniteSet(Merged) /\ Cardinality(Merged) \in Nat
<1> DEFINE f == [i \in 1 .. base |-> <<i, base>>]
<1>1. f \in Surjection(1 .. base, BaseShards)
    BY DEF Surjection, BaseShards
<1>2. IsFiniteSet(1 .. base)
    BY FS_Interval, PrepAssumption
<1>3. IsFiniteSet(BaseShards)
    BY <1>1, <1>2, FS_Surjection
<1>4. IsFiniteSet(Merged)
    BY <1>3, FS_AddElement DEF Merged
<1> QED
    BY <1>4, FS_CardinalityType

(* Ranks count from one to the number of shards.                           *)
LEMMA RankRange ==
    ASSUME base \in BaseCounts, NEW s \in Merged
    PROVE  /\ IsFiniteSet(Lower(s))
           /\ Rank(s) \in Nat /\ 1 <= Rank(s) /\ Rank(s) <= Cardinality(Merged)
<1>1. Lower(s) \subseteq Merged /\ Lower(s) # Merged
    BY MergedPairs DEF Lower, Before
<1>2. IsFiniteSet(Lower(s)) /\ Cardinality(Lower(s)) <= Cardinality(Merged)
      /\ Cardinality(Lower(s)) # Cardinality(Merged)
    BY <1>1, MergedFinite, FS_Subset
<1>3. Cardinality(Lower(s)) \in Nat
    BY <1>2, FS_CardinalityType
<1>4. Rank(s) = Cardinality(Lower(s)) + 1
    BY DEF Rank, Lower
<1> QED
    BY <1>2, <1>3, <1>4, MergedFinite

(* A shard that sorts before another one has a lower rank, and no two have *)
(* the same.                                                               *)
LEMMA RankOrders ==
    ASSUME base \in BaseCounts, NEW s \in Merged, NEW t \in Merged, Before(s, t)
    PROVE  Rank(s) < Rank(t)
<1>1. Lower(s) \subseteq Lower(t) /\ s \in Lower(t) /\ s \notin Lower(s)
    <2>1. ASSUME NEW u \in Lower(s) PROVE u \in Lower(t)
        BY <2>1, MergedPairs DEF Lower, Before
    <2> QED
        BY <2>1, MergedPairs DEF Lower, Before
<1>2. Cardinality(Lower(s)) <= Cardinality(Lower(t))
      /\ Cardinality(Lower(s)) # Cardinality(Lower(t))
    BY <1>1, RankRange, FS_Subset
<1>3. Rank(s) = Cardinality(Lower(s)) + 1 /\ Rank(t) = Cardinality(Lower(t)) + 1
    BY DEF Rank, Lower
<1>4. Cardinality(Lower(s)) \in Nat /\ Cardinality(Lower(t)) \in Nat
    BY RankRange, FS_CardinalityType
<1> QED
    BY <1>2, <1>3, <1>4

LEMMA OneRank ==
    ASSUME base \in BaseCounts, NEW s \in Merged, NEW t \in Merged, Rank(s) = Rank(t)
    PROVE  s = t
<1>1. Before(s, t) \/ Before(t, s) \/ s = t
    BY MergedPairs DEF Before
<1> QED
    BY <1>1, RankOrders, RankRange

(* At most three shards of the base sort before the new one, and of a base *)
(* of three all do.                                                        *)
LEMMA NewShardRank ==
    ASSUME base \in BaseCounts
    PROVE  Rank(NewShard) <= 4 /\ (base = 3 => Rank(NewShard) = 4)
<1> DEFINE none == {}
           one == none \union {<<1, base>>}
           two == one \union {<<2, base>>}
           three == two \union {<<3, base>>}
<1>1. IsFiniteSet(three) /\ Cardinality(three) = 3
    <2>1. IsFiniteSet(none) /\ Cardinality(none) = 0
        BY FS_EmptySet
    <2>2. <<1, base>> \notin none /\ <<2, base>> \notin one /\ <<3, base>> \notin two
        OBVIOUS
    <2> HIDE DEF none
    <2>3. IsFiniteSet(one) /\ Cardinality(one) = 1
        BY <2>1, <2>2, FS_AddElement
    <2> HIDE DEF one
    <2>4. IsFiniteSet(two) /\ Cardinality(two) = 2
        BY <2>2, <2>3, FS_AddElement
    <2> HIDE DEF two
    <2> QED
        BY <2>2, <2>4, FS_AddElement
<1>2. NewShard \in Merged
    BY DEF Merged
<1>3. Lower(NewShard) \subseteq three
    <2> SUFFICES ASSUME NEW t \in Merged, Before(t, NewShard) PROVE t \in three
        BY DEF Lower
    <2>1. t # NewShard
        BY DEF Before, NewShard
    <2>2. t = <<t[1], base>> /\ t[1] \in 1 .. base /\ base \in Nat \ {4}
        BY <2>1, MergedPairs, PrepAssumption
    <2>3. t[1] \in 1 .. 3
        BY <2>2 DEF Before, NewShard
    <2> QED
        BY <2>2, <2>3
<1>4. Cardinality(Lower(NewShard)) <= 3
    BY <1>1, <1>3, FS_Subset
<1>5. Cardinality(Lower(NewShard)) \in Nat
    BY <1>2, RankRange, FS_CardinalityType
<1>6. Rank(NewShard) = Cardinality(Lower(NewShard)) + 1
    BY DEF Rank, Lower
<1>7. ASSUME base = 3 PROVE Lower(NewShard) = three
    <2>1. three \subseteq Lower(NewShard)
        BY <1>7 DEF Lower, Merged, BaseShards, Before, NewShard
    <2> QED
        BY <1>3, <2>1
<1> QED
    BY <1>1, <1>4, <1>5, <1>6, <1>7

(* A new name is not the old name of a shard that is still to come.        *)
LEMMA NewNamesAreFree ==
    ASSUME base \in BaseCounts, NEW s \in Merged, NEW t \in Merged, Rank(t) < Rank(s)
    PROVE  NewName(t) # s
<1>1. CASE s = NewShard
    <2>1. Rank(t) \in Nat /\ Rank(t) < 4
        BY <1>1, NewShardRank, RankRange
    <2> QED
        BY <1>1, <2>1 DEF NewName, NewShard
<1>2. CASE s # NewShard
    BY <1>2, MergedPairs, PrepAssumption DEF NewName
<1> QED
    BY <1>1, <1>2

LEMMA SameRanks ==
    ASSUME base' = base, NEW s
    PROVE  /\ Merged' = Merged /\ Rank(s)' = Rank(s) /\ NewName(s)' = NewName(s)
           /\ FileOf(s)' = FileOf(s) /\ Mtp' = Mtp
BY SameNames DEF Merged, Rank, NewName, Before, FileOf, Mtp

(* What the tree looks like does not depend on where the merge has come to *)
(* but for the name about to be removed and the index.                     *)
LEMMA LinkedStays ==
    ASSUME UNCHANGED <<base, out, turn>>, Linked, index' # "final"
    PROVE  Linked'
BY SameRanks, SameNames DEF Linked, FileOf

LEMMA RenamingStays ==
    ASSUME UNCHANGED <<base, out, data, turn>>, Renaming,
           mpc' = "unlink" => mpc = "unlink",
           mpc' \in {"rename", "unlink"} => index' # "final",
           mpc' = "index" \/ index' = "final" => Renamed
    PROVE  Renaming'
<1>1. ASSUME NEW s \in Merged'
      PROVE  /\ s \in Merged /\ Rank(s)' = Rank(s) /\ NewName(s)' = NewName(s)
             /\ \A n : At(n, s)' <=> At(n, s)
    BY SameRanks DEF At
<1>2. Renamed' <=> Renamed
    BY SameRanks DEF Renamed
<1>3. \A s \in Merged' : (At(IF Rank(s) <= turn THEN NewName(s) ELSE s, s))'
    BY <1>1 DEF Renaming
<1>4. mpc' = "unlink" =>
          \A s \in Merged' : (Turn(s) => s # NewName(s) /\ At(NewName(s), s))'
    BY <1>1 DEF Renaming, Turn
<1> QED
    BY <1>2, <1>3, <1>4, SameNames, SameRanks DEF Renaming

LEMMA SameState ==
    ASSUME UNCHANGED mergeVars
    PROVE  TreeInv => TreeInv'
<1>1. UNCHANGED <<base, mpc, out, data, index, turn>>
    BY DEF mergeVars
<1>2. BaseShards' = BaseShards /\ Merged' = Merged /\ Mtp' = Mtp
    BY <1>1, SameNames, SameRanks
<1>3. Linked => Linked'
    BY <1>1, LinkedStays DEF Linked
<1>4. Renaming => Renaming'
    BY <1>1, RenamingStays DEF Renaming
<1> QED
    BY <1>1, <1>2, <1>3, <1>4, SameNames DEF TreeInv

(* Before the renaming.                                                    *)
LEMMA LinkingKeeps ==
    ASSUME BaseInv, TreeInv, StartMerge \/ LinkShard \/ CopyIndex
    PROVE  TreeInv'
<1>1. CASE StartMerge
    BY <1>1, SameNames, SameRanks DEF StartMerge, MergeStep, TreeInv, Linked, FileOf
<1>2. CASE LinkShard
    <2>1. /\ Linked /\ DOMAIN out \subseteq BaseShards
          /\ mpc' = "link" /\ UNCHANGED <<base, data, index, turn>>
        BY <1>2 DEF LinkShard, MergeStep, TreeInv
    <2>2. PICK s \in BaseShards :
              out' = [t \in DOMAIN out \union {s} |-> IF t = s THEN s ELSE out[t]]
        BY <1>2 DEF LinkShard
    <2>3. FileOf(s) = s /\ s \in Merged
        BY NewIsNew DEF FileOf, BaseInv, TreeOfLinks, Merged
    <2>4. DOMAIN out' \subseteq BaseShards' /\ DOMAIN out' \subseteq Merged'
        BY <2>1, <2>2, <2>3, SameNames, SameRanks DEF Linked
    <2>5. \A t \in DOMAIN out' : out'[t] = FileOf(t)'
        BY <2>1, <2>2, <2>3, SameNames DEF Linked, FileOf
    <2> QED
        BY <2>1, <2>4, <2>5 DEF TreeInv, Linked
<1>3. CASE CopyIndex
    <2>1. /\ Linked /\ DOMAIN out \subseteq BaseShards
          /\ mpc' \in {"link", "open"} /\ UNCHANGED <<base, data, out, turn>>
          /\ BaseShards \subseteq DOMAIN out /\ index' # "final"
        BY <1>3 DEF CopyIndex, MergeStep, TreeInv
    <2> QED
        BY <2>1, SameNames, SameRanks DEF TreeInv, Linked, FileOf
<1> QED
    BY <1>1, <1>2, <1>3

LEMMA OpeningKeeps ==
    ASSUME BaseInv, TreeInv, OpenShard
    PROVE  TreeInv'
<1>1. /\ Linked /\ DOMAIN out = BaseShards
      /\ mpc' = "write" /\ UNCHANGED <<base, index, turn>>
    BY DEF OpenShard, MergeStep, TreeInv
<1>2. NewShard \notin DOMAIN out /\ NewFile \in DOMAIN data
    BY <1>1, NewIsNew DEF BaseInv, TreeOfLinks, Files
<1>3. /\ out' = [t \in DOMAIN out \union {NewShard} |->
                    IF t = NewShard THEN NewFile ELSE out[t]]
      /\ data' = [data EXCEPT ![NewFile] = {}]
    BY <1>2 DEF OpenShard, Present
<1>4. DOMAIN out' = Merged' /\ data'[NewFile] = {}
    BY <1>1, <1>2, <1>3, SameRanks DEF Merged
<1>5. \A t \in DOMAIN out' : out'[t] = FileOf(t)'
    BY <1>1, <1>3, SameNames DEF Linked, FileOf
<1> QED
    BY <1>1, <1>4, <1>5, SameNames DEF TreeInv, Linked

(* The tree of links while, and when, the new shard is written.            *)
LEMMA FullTree ==
    ASSUME BaseInv, TreeInv, mpc = "write"
    PROVE  /\ Linked /\ DOMAIN out = Merged /\ data[NewFile] \subseteq Mtp
           /\ NewShard \in Merged /\ out[NewShard] = NewFile /\ NewFile \in DOMAIN data
BY DEF TreeInv, Linked, BaseInv, TreeOfLinks, Merged, FileOf, Files

LEMMA WritingKeeps ==
    ASSUME BaseInv, TreeInv, WriteTensor \/ ShortRead
    PROVE  TreeInv'
<1>1. mpc = "write" /\ UNCHANGED <<base, out, index, turn>>
    BY DEF WriteTensor, ShortRead, MergeStep
<1>2. Linked' /\ DOMAIN out' = Merged'
    BY <1>1, FullTree, SameNames, SameRanks DEF Linked, FileOf
<1>3. CASE WriteTensor
    <2>1. PICK k \in Mtp : data' = [data EXCEPT ![NewFile] = @ \union {k}]
        BY <1>1, <1>3, FullTree DEF WriteTensor
    <2>2. data'[NewFile] \subseteq Mtp
        BY <1>1, <2>1, FullTree
    <2> QED
        BY <1>1, <1>2, <1>3, <2>2, FullTree, SameNames, SameRanks
           DEF TreeInv, WriteTensor, MergeStep, Linked
<1>4. CASE ShortRead
    BY <1>1, <1>2, <1>4, FullTree DEF TreeInv, ShortRead, MergeStep, Linked
<1> QED
    BY <1>3, <1>4

LEMMA ClosingKeeps ==
    ASSUME BaseInv, TreeInv, CloseShard
    PROVE  TreeInv'
<1>1. /\ mpc = "write" /\ mpc' = "rename" /\ UNCHANGED <<base, out, data, index, turn>>
      /\ Content(NewShard) = Mtp
    BY DEF CloseShard, MergeStep, Written
<1>2. data[NewFile] = Mtp /\ turn = 0 /\ index # "final"
    BY <1>1, FullTree DEF Content, Linked
<1>3. \A n \in DOMAIN out : out[n] \in Files
    BY <1>1, FullTree DEF Linked, FileOf, Files, Merged
<1>4. ASSUME NEW s \in Merged PROVE At(IF Rank(s) <= turn THEN NewName(s) ELSE s, s)
    <2>1. ~(Rank(s) <= turn)
        BY <1>2, RankRange DEF BaseInv, TreeOfLinks
    <2> QED
        BY <1>1, <2>1, FullTree DEF At, Linked
<1>5. Renaming'
    <2>1. ASSUME NEW s \in Merged'
          PROVE  At(IF Rank(s) <= turn THEN NewName(s) ELSE s, s)'
        <3>1. s \in Merged /\ Rank(s)' = Rank(s) /\ NewName(s)' = NewName(s)
              /\ FileOf(s)' = FileOf(s)
            BY <1>1, SameRanks
        <3> QED
            BY <1>1, <1>4, <3>1 DEF At
    <2> QED
        BY <1>1, <1>2, <1>3, <2>1, SameNames, SameRanks DEF Renaming
<1> QED
    BY <1>1, <1>2, <1>5 DEF TreeInv

(* While the shards are renamed.                                           *)
LEMMA LinkNameKeeps ==
    ASSUME BaseInv, TreeInv, LinkNewName
    PROVE  TreeInv'
<1>1. /\ Renaming /\ mpc' = "unlink" /\ UNCHANGED <<base, data, index, turn>>
      /\ turn \in Nat /\ base \in BaseCounts /\ index # "final"
    BY DEF LinkNewName, MergeStep, TreeInv, Renaming, BaseInv, TreeOfLinks
<1>2. PICK s \in Merged :
          /\ Turn(s) /\ s # NewName(s) /\ NewName(s) \notin DOMAIN out
          /\ out' = [t \in DOMAIN out \union {NewName(s)} |->
                        IF t = NewName(s) THEN out[s] ELSE out[t]]
    BY DEF LinkNewName, Present
<1>3. At(s, s)
    BY <1>1, <1>2, RankRange DEF Renaming, Turn
<1>4. \A n, t : At(n, t) => At(n, t)'
    BY <1>1, <1>2, SameRanks DEF At
<1>5. \A n \in DOMAIN out' : out'[n] \in Files
    BY <1>1, <1>2, <1>3 DEF Renaming, At
<1>6. ASSUME NEW t \in Merged'
      PROVE  /\ At(IF Rank(t) <= turn THEN NewName(t) ELSE t, t)'
             /\ (Turn(t) => t # NewName(t) /\ At(NewName(t), t))'
    <2>1. t \in Merged /\ Rank(t)' = Rank(t) /\ NewName(t)' = NewName(t)
          /\ FileOf(t)' = FileOf(t)
        BY <1>1, SameRanks
    <2>2. Turn(t)' => t = s
        BY <1>1, <1>2, <2>1, OneRank DEF Turn
    <2>3. At(NewName(s), s)'
        BY <1>1, <1>2, <1>3, SameRanks DEF At
    <2> QED
        BY <1>1, <1>2, <1>4, <2>1, <2>2, <2>3 DEF Renaming
<1>7. Renaming'
    BY <1>1, <1>5, <1>6, SameNames, SameRanks DEF Renaming
<1> QED
    BY <1>1, <1>7 DEF TreeInv

LEMMA UnlinkKeeps ==
    ASSUME BaseInv, TreeInv, UnlinkOldName
    PROVE  TreeInv'
<1>1. /\ Renaming /\ mpc = "unlink" /\ mpc' = "rename" /\ UNCHANGED <<base, data, index>>
      /\ turn \in Nat /\ turn' = turn + 1 /\ base \in BaseCounts /\ index # "final"
    BY DEF UnlinkOldName, MergeStep, TreeInv, Renaming, BaseInv, TreeOfLinks
<1>2. PICK s \in Merged : Turn(s) /\ out' = [t \in DOMAIN out \ {s} |-> out[t]]
    BY DEF UnlinkOldName
<1>3. \A n, t : At(n, t) /\ n # s => At(n, t)'
    BY <1>1, <1>2, SameRanks DEF At
<1>4. \A n \in DOMAIN out' : out'[n] \in Files
    BY <1>1, <1>2 DEF Renaming
<1>5. ASSUME NEW t \in Merged'
      PROVE  At(IF Rank(t) <= turn THEN NewName(t) ELSE t, t)'
    <2>1. t \in Merged /\ Rank(t)' = Rank(t) /\ NewName(t)' = NewName(t)
        BY <1>1, SameRanks
    <2>2. Rank(t) \in Nat /\ Rank(s) = turn + 1
        BY <1>1, <1>2, <2>1, RankRange DEF Turn
    <2>3. CASE Rank(t) <= turn
        <3>1. NewName(t) # s
            BY <1>1, <2>1, <2>2, <2>3, NewNamesAreFree
        <3> QED
            BY <1>1, <1>3, <2>1, <2>2, <2>3, <3>1 DEF Renaming
    <2>4. CASE Rank(t) = turn + 1
        <3>1. t = s
            BY <1>1, <2>1, <2>2, <2>4, OneRank
        <3>2. NewName(t) # s /\ At(NewName(t), t)
            BY <1>1, <1>2, <3>1 DEF Renaming
        <3> QED
            BY <1>1, <1>3, <2>1, <2>4, <3>2
    <2>5. CASE Rank(t) > turn + 1
        <3>1. t # s /\ At(t, t)
            BY <1>1, <2>1, <2>2, <2>5 DEF Renaming
        <3> QED
            BY <1>1, <1>3, <2>1, <2>2, <2>5, <3>1
    <2> QED
        BY <1>1, <2>2, <2>3, <2>4, <2>5
<1>6. Renaming'
    BY <1>1, <1>4, <1>5, SameNames, SameRanks DEF Renaming
<1> QED
    BY <1>1, <1>6 DEF TreeInv

LEMMA KeepNameKeeps ==
    ASSUME BaseInv, TreeInv, KeepName
    PROVE  TreeInv'
<1>1. /\ Renaming /\ mpc' = "rename" /\ UNCHANGED <<base, out, data, index>>
      /\ turn \in Nat /\ turn' = turn + 1 /\ base \in BaseCounts /\ index # "final"
    BY DEF KeepName, MergeStep, TreeInv, Renaming, BaseInv, TreeOfLinks
<1>2. PICK s \in Merged : Turn(s) /\ s = NewName(s)
    BY DEF KeepName
<1>3. ASSUME NEW t \in Merged'
      PROVE  At(IF Rank(t) <= turn THEN NewName(t) ELSE t, t)'
    <2>1. t \in Merged /\ Rank(t)' = Rank(t) /\ NewName(t)' = NewName(t)
        BY <1>1, SameRanks
    <2>2. Rank(t) \in Nat /\ Rank(s) = turn + 1
        BY <1>1, <1>2, <2>1, RankRange DEF Turn
    <2>3. Rank(t) = turn + 1 => t = NewName(t)
        BY <1>1, <1>2, <2>1, <2>2, OneRank
    <2>4. At(IF Rank(t) <= turn + 1 THEN NewName(t) ELSE t, t)
        BY <1>1, <2>1, <2>2, <2>3 DEF Renaming
    <2> QED
        BY <1>1, <2>1, <2>4, SameRanks DEF At
<1>4. Renaming'
    BY <1>1, <1>3, SameNames, SameRanks DEF Renaming
<1> QED
    BY <1>1, <1>4 DEF TreeInv

LEMMA EndKeeps ==
    ASSUME BaseInv, TreeInv, WriteIndex \/ Audit
    PROVE  TreeInv'
<1>1. Renaming /\ turn \in Nat /\ UNCHANGED <<base, out, data, turn>>
    BY DEF WriteIndex, Audit, MergeStep, TreeInv
<1>2. /\ mpc' \in {"index", "audit", "done", "stopped"}
      /\ mpc' = "index" \/ index' = "final" => Renamed
    BY <1>1 DEF WriteIndex, Audit, MergeStep, Renaming
<1> QED
    BY <1>1, <1>2, RenamingStays DEF TreeInv

(* Kills, and the operator.                                                *)
LEMMA StoppingKeeps ==
    ASSUME BaseInv, TreeInv, MergeKilled \/ DiscardTree
    PROVE  TreeInv'
<1>1. CASE MergeKilled
    <2>1. mpc' = "stopped" /\ UNCHANGED <<base, out, data, index, turn>>
        BY <1>1 DEF MergeKilled
    <2>2. Linked => Linked'
        BY <2>1, LinkedStays DEF Linked
    <2>3. Renaming => Renaming'
        BY <2>1, RenamingStays DEF Renaming
    <2> QED
        BY <2>1, <2>2, <2>3 DEF TreeInv
<1>2. CASE DiscardTree
    BY <1>2 DEF DiscardTree, MergeStep, NoFiles, TreeInv, Linked
<1> QED
    BY <1>1, <1>2

LEMMA NextTree == BaseInv /\ TreeInv /\ [Next]_vars => TreeInv'
<1> SUFFICES ASSUME BaseInv, TreeInv, [Next]_vars PROVE TreeInv'
    OBVIOUS
<1>1. CASE MergeNext
    BY <1>1, LinkingKeeps, OpeningKeeps, WritingKeeps, ClosingKeeps, LinkNameKeeps,
       UnlinkKeeps, KeepNameKeeps, EndKeeps DEF MergeNext
<1>2. CASE MergeKilled \/ DiscardTree
    BY <1>2, StoppingKeeps
<1>3. CASE DraftNext \/ DraftKilled \/ DiscardDraft
    <2>1. UNCHANGED mergeVars
        BY <1>3 DEF DraftNext, StartDraft, CopyDraftFile, RewriteConfig, DraftKilled,
                    DiscardDraft, DraftStep
    <2> QED
        BY <2>1, SameState
<1>4. CASE PublishNames \/ PublishHash \/ Upload \/ UNCHANGED vars
    <2>1. UNCHANGED mergeVars
        BY <1>4 DEF PublishNames, PublishHash, Upload, PublishStep, vars
    <2> QED
        BY <2>1, SameState
<1> QED
    BY <1>1, <1>2, <1>3, <1>4 DEF Next

LEMMA InitTree == Init => TreeInv
BY DEF Init, TreeInv, Linked, NoFiles

LEMMA TreeIsInvariant == Spec => [](BaseInv /\ TreeInv)
BY InitBase, NextBase, InitTree, NextTree, PTL DEF Spec

(* What the files hold once the renaming has begun.                        *)
LEMMA FilesHold ==
    ASSUME BaseInv, data[NewFile] = Mtp
    PROVE  /\ \A s \in BaseShards : data[FileOf(s)] = {s}
           /\ data[FileOf(NewShard)] = Mtp
           /\ UNION {data[f] : f \in Files} = BaseShards \union Mtp
<1>1. NewShard \notin BaseShards /\ \A s \in BaseShards : data[s] = {s}
    BY NewIsNew DEF BaseInv, TreeOfLinks, BaseUntouched
<1>2. UNION {data[f] : f \in Files} = BaseShards \union Mtp
    BY <1>1 DEF Files
<1> QED
    BY <1>1, <1>2 DEF FileOf

(* A tree that has the first of the four names is being renamed, or was,   *)
(* and every file of the base and the new one have a name in it.           *)
LEMMA FirstNameIsLate ==
    ASSUME BaseInv, TreeInv, <<1, 4>> \in DOMAIN out
    PROVE  Renaming
<1>1. <<1, 4>> \notin Merged
    BY PrepAssumption DEF BaseInv, TreeOfLinks, Merged, BaseShards, NewShard
<1> QED
    BY <1>1 DEF TreeInv, Linked

LEMMA RenamedTreeIsWhole ==
    ASSUME BaseInv, Renaming
    PROVE  UNION {Content(s) : s \in DOMAIN out} = BaseShards \union Mtp
<1>1. ASSUME NEW s \in DOMAIN out PROVE Content(s) \subseteq BaseShards \union Mtp
    <2>1. out[s] \in Files
        BY <1>1 DEF Renaming
    <2> QED
        BY <2>1, FilesHold DEF Content, Renaming
<1>2. ASSUME NEW f \in Files PROVE \E n \in DOMAIN out : out[n] = f
    <2>1. \E s \in Merged : FileOf(s) = f
        BY NewIsNew DEF Files, Merged, FileOf, BaseInv, TreeOfLinks
    <2> QED
        BY <2>1 DEF Renaming, At
<1>3. ASSUME NEW k \in BaseShards \union Mtp
      PROVE  \E n \in DOMAIN out : k \in Content(n)
    <2>1. \E f \in Files : k \in data[f]
        BY FilesHold DEF Renaming
    <2> QED
        BY <2>1, <1>2 DEF Content
<1> QED
    BY <1>1, <1>3

(* No kill leaves a tree that has the launcher's four names and lacks a    *)
(* tensor, or has the new shard half written.                              *)
THEOREM AcceptedTreesAreWhole == Spec => []AcceptedIsWhole
<1>1. BaseInv /\ TreeInv => AcceptedIsWhole
    <2> SUFFICES ASSUME BaseInv, TreeInv, LauncherAccepts
                 PROVE  UNION {Content(s) : s \in DOMAIN out} = BaseShards \union Mtp
        BY DEF AcceptedIsWhole
    <2>1. <<1, 4>> \in DOMAIN out
        BY DEF LauncherAccepts, FourShards
    <2> QED
        BY <2>1, FirstNameIsLate, RenamedTreeIsWhole
<1> QED
    BY <1>1, TreeIsInvariant, PTL

(* A final index names for each tensor a file that is there and holds it.  *)
THEOREM FinalIndexFinds == Spec => []IndexFindsTensors
<1>1. BaseInv /\ TreeInv => IndexFindsTensors
    <2> SUFFICES ASSUME BaseInv, TreeInv, index = "final", NEW k \in BaseShards \union Mtp
                 PROVE  Present(FinalMap(k)) /\ k \in Content(FinalMap(k))
        BY DEF IndexFindsTensors
    <2> DEFINE s == IF k \in Mtp THEN NewShard ELSE k
    <2>1. Renaming /\ turn = Cardinality(Merged)
        BY DEF TreeInv, Linked, Renaming, Renamed
    <2>2. s \in Merged /\ FinalMap(k) = NewName(s)
        BY DEF Merged, FinalMap
    <2>3. Rank(s) <= turn
        BY <2>1, <2>2, RankRange DEF BaseInv, TreeOfLinks
    <2>4. At(NewName(s), s)
        BY <2>1, <2>2, <2>3 DEF Renaming
    <2>5. k \in data[FileOf(s)]
        BY <2>1, FilesHold DEF Renaming
    <2> QED
        BY <2>2, <2>4, <2>5 DEF At, Present, Content
<1> QED
    BY <1>1, TreeIsInvariant, PTL
-----------------------------------------------------------------------------
(* The first hash tells that the base has three shards, so that the new    *)
(* shard keeps its name.                                                   *)
LEMMA FirstHash ==
    ASSUME BaseInv, TreeInv, HashMatches(1)
    PROVE  /\ Renaming /\ base = 3
           /\ \A i \in 1 .. 4 : <<i, 4>> \in Merged => <<i, 4>> = NewName(<<i, 4>>)
<1>1. Renaming /\ out[<<1, 4>>] \in Files /\ data[out[<<1, 4>>]] = {<<1, 3>>}
    <2>1. <<1, 4>> \in DOMAIN out /\ Content(<<1, 4>>) = {<<1, 3>>}
        BY DEF HashMatches, Present, Expected
    <2>2. Renaming
        BY <2>1, FirstNameIsLate
    <2> QED
        BY <2>1, <2>2 DEF Renaming, Content
<1>2. <<1, 3>> \in BaseShards \union Mtp
    BY <1>1, FilesHold DEF Renaming
<1>3. base = 3
    BY <1>2 DEF BaseShards, Mtp
<1>4. \A i \in 1 .. 4 : <<i, 4>> \in Merged => <<i, 4>> = NewShard
    BY <1>3 DEF Merged, BaseShards
<1>5. NewName(NewShard) = NewShard
    BY <1>3, NewShardRank DEF NewName, NewShard, BaseInv, TreeOfLinks
<1> QED
    BY <1>1, <1>3, <1>4, <1>5

(* While a tree is hashed the merge may rename on, but what was hashed     *)
(* keeps its name and its content.                                         *)
LEMMA HashedStays ==
    ASSUME BaseInv, TreeInv, [Next]_vars, HashMatches(1), ppc = "hash",
           NEW i \in 1 .. 4, HashMatches(i)
    PROVE  HashMatches(i)'
<1>1. Renaming /\ Present(<<i, 4>>) /\ Content(<<i, 4>>) = Expected(i)
    BY FirstHash DEF HashMatches
<1>2. ASSUME data' = data, <<i, 4>> \in DOMAIN out', out'[<<i, 4>>] = out[<<i, 4>>]
      PROVE  HashMatches(i)'
    BY <1>1, <1>2 DEF HashMatches, Present, Content, Expected, Mtp
<1>3. mpc \in {"rename", "unlink", "index", "audit", "done", "stopped"}
    <2>1. <<1, 4>> \notin Merged
        BY PrepAssumption DEF BaseInv, TreeOfLinks, Merged, BaseShards, NewShard
    <2>2. <<1, 4>> \in DOMAIN out
        BY DEF HashMatches, Present
    <2> QED
        BY <2>1, <2>2 DEF TreeInv, Linked
<1>4. CASE UNCHANGED <<out, data>>
    BY <1>1, <1>2, <1>4 DEF Present
<1>5. CASE LinkNewName
    <2>1. data' = data /\ \E s : /\ NewName(s) \notin DOMAIN out
                                /\ out' = [t \in DOMAIN out \union {NewName(s)} |->
                                              IF t = NewName(s) THEN out[s] ELSE out[t]]
        BY <1>5 DEF LinkNewName, Present
    <2> QED
        BY <1>1, <1>2, <2>1 DEF Present
<1>6. CASE UnlinkOldName
    <2>1. PICK s \in Merged : Turn(s) /\ out' = [t \in DOMAIN out \ {s} |-> out[t]]
        BY <1>6 DEF UnlinkOldName
    <2>2. s # NewName(s) /\ data' = data
        BY <1>1, <1>6, <2>1 DEF Renaming, UnlinkOldName, MergeStep
    <2>3. s # <<i, 4>>
        BY <2>1, <2>2, FirstHash
    <2> QED
        BY <1>1, <1>2, <2>1, <2>2, <2>3 DEF Present
<1>7. CASE MergeNext
    <2>1. CASE StartMerge \/ LinkShard \/ CopyIndex \/ OpenShard \/ WriteTensor
               \/ ShortRead \/ CloseShard
        BY <1>3, <2>1 DEF StartMerge, LinkShard, CopyIndex, OpenShard, WriteTensor,
                          ShortRead, CloseShard, MergeStep
    <2>2. CASE KeepName \/ WriteIndex \/ Audit
        BY <1>4, <2>2 DEF KeepName, WriteIndex, Audit
    <2> QED
        BY <1>5, <1>6, <1>7, <2>1, <2>2 DEF MergeNext
<1>8. CASE MergeKilled \/ DiscardTree
    BY <1>4, <1>8 DEF MergeKilled, DiscardTree
<1>9. CASE DraftNext \/ DraftKilled \/ DiscardDraft
    BY <1>4, <1>9 DEF DraftNext, StartDraft, CopyDraftFile, RewriteConfig, DraftKilled,
                      DiscardDraft, DraftStep, mergeVars
<1>10. CASE PublishNames \/ PublishHash \/ Upload \/ UNCHANGED vars
    BY <1>4, <1>10 DEF PublishNames, PublishHash, Upload, PublishStep, mergeVars, vars
<1> QED
    BY <1>7, <1>8, <1>9, <1>10 DEF Next

PublishInv == HashInv /\ PublishedIsWhole

LEMMA NextPublish ==
    BaseInv /\ TreeInv /\ PublishInv /\ [Next]_vars => PublishInv'
<1> SUFFICES ASSUME BaseInv, TreeInv, PublishInv, [Next]_vars PROVE PublishInv'
    OBVIOUS
<1>0. HashInv /\ PublishedIsWhole
    BY DEF PublishInv
<1>1. ASSUME ppc = "hash", NEW i \in 1 .. hashed PROVE HashMatches(i)'
    BY <1>0, <1>1, HashedStays DEF HashInv
<1>2. ASSUME hub' = hub PROVE PublishedIsWhole'
    BY <1>0, <1>2 DEF PublishedIsWhole, Published, Expected, Mtp
<1>3. CASE UNCHANGED publishVars
    <2>1. UNCHANGED <<ppc, hashed, hub>>
        BY <1>3 DEF publishVars
    <2> QED
        BY <1>0, <1>1, <1>2, <2>1 DEF HashInv, PublishInv
<1>4. CASE PublishNames
    <2>1. hashed' = 0 /\ hub' = hub
        BY <1>4 DEF PublishNames
    <2> QED
        BY <1>2, <2>1 DEF HashInv, PublishInv
<1>5. CASE PublishHash
    <2>1. hub' = hub /\ hashed \in 0 .. 4 /\ hashed < 4 /\ ppc = "hash" /\ UNCHANGED mergeVars
        BY <1>0, <1>5 DEF PublishHash, PublishStep, HashInv
    <2>2. CASE ppc' = "hash"
        <3>1. HashMatches(hashed + 1) /\ hashed' = hashed + 1
            BY <1>5, <2>2 DEF PublishHash, PublishStep
        <3>2. \A i \in 1 .. hashed + 1 : HashMatches(i)
            BY <1>0, <2>1, <3>1 DEF HashInv
        <3>3. \A i \in 1 .. hashed + 1 : HashMatches(i)'
            BY <2>1, <3>2 DEF HashMatches, Present, Content, Expected, Mtp, mergeVars
        <3> QED
            BY <1>2, <2>1, <3>1, <3>3 DEF HashInv, PublishInv
    <2>3. CASE ppc' = "idle"
        BY <1>2, <1>5, <2>1, <2>3 DEF HashInv, PublishInv, PublishHash, PublishStep
    <2> QED
        BY <1>5, <2>2, <2>3 DEF PublishHash, PublishStep
<1>6. CASE Upload
    <2>1. /\ ppc = "hash" /\ ppc' = "idle" /\ hashed = 4 /\ hashed' = 4
          /\ hub' = [shards |-> [s \in DOMAIN out |-> Content(s)], index |-> index]
        BY <1>6 DEF Upload, PublishStep
    <2>2. \A i \in 1 .. 4 : HashMatches(i)
        BY <1>0, <2>1 DEF HashInv
    <2>3. PublishedIsWhole'
        BY <2>1, <2>2 DEF PublishedIsWhole, HashMatches, Present, Expected, Mtp
    <2> QED
        BY <2>1, <2>3 DEF HashInv, PublishInv
<1>7. CASE MergeNext \/ MergeKilled \/ DiscardTree
    <2>1. UNCHANGED publishVars
        BY <1>7 DEF MergeNext, StartMerge, LinkShard, CopyIndex, OpenShard, WriteTensor,
                    ShortRead, CloseShard, LinkNewName, UnlinkOldName, KeepName, WriteIndex,
                    Audit, MergeKilled, DiscardTree, MergeStep
    <2> QED
        BY <1>3, <2>1
<1>8. CASE DraftNext \/ DraftKilled \/ DiscardDraft \/ UNCHANGED vars
    <2>1. UNCHANGED publishVars
        BY <1>8 DEF DraftNext, StartDraft, CopyDraftFile, RewriteConfig, DraftKilled,
                    DiscardDraft, DraftStep, vars
    <2> QED
        BY <1>3, <2>1
<1> QED
    BY <1>4, <1>5, <1>6, <1>7, <1>8 DEF Next

(* What was uploaded last holds the four shards the script expects, though *)
(* the merge may go on between the first hash and the upload.              *)
THEOREM UploadsAreWhole == Spec => []PublishedIsWhole
<1>1. Init => PublishInv
    BY DEF Init, PublishInv, HashInv, PublishedIsWhole, Published
<1>2. PublishInv => PublishedIsWhole
    BY DEF PublishInv
<1> QED
    BY <1>1, <1>2, InitBase, NextBase, InitTree, NextTree, NextPublish, PTL DEF Spec
-----------------------------------------------------------------------------
LEMMA NextDraft == DraftInv /\ [Next]_vars => DraftInv'
<1> SUFFICES ASSUME DraftInv, [Next]_vars PROVE DraftInv'
    OBVIOUS
<1> USE DEF DraftInv, Adapted, Whole
<1>1. CASE UNCHANGED draftVars
    BY <1>1 DEF draftVars, SourceConfigs
<1>2. CASE StartDraft \/ CopyDraftFile \/ DraftKilled
    <2>1. config' = config /\ SourceConfigs' = SourceConfigs
        BY <1>2 DEF StartDraft, CopyDraftFile, DraftKilled, SourceConfigs
    <2>2. CASE StartDraft \/ CopyDraftFile
        BY <2>1, <2>2 DEF StartDraft, CopyDraftFile, DraftStep
    <2>3. CASE DraftKilled
        BY <2>1, <2>3 DEF DraftKilled
    <2> QED
        BY <1>2, <2>2, <2>3
<1>3. CASE DraftStep("copy", "rewrite") /\ AllCopied /\ PutDraft("config.json", "torn")
           /\ config' = AdaptConfig(config)
    <2>1. config \in SourceConfigs
        BY <1>3 DEF DraftStep
    <2>2. Adapted'
        BY <1>3, <2>1 DEF AdaptConfig, SourceConfigs, Keys, Forced, Defaulted
    <2>3. ASSUME NEW f \in Weights PROVE f \in DOMAIN draft' /\ draft'[f] = "whole"
        <3>1. f # "config.json" /\ f \in DOMAIN draft /\ draft[f] = "whole"
            BY <1>3, PrepAssumption DEF AllCopied, DraftFiles
        <3> QED
            BY <1>3, <3>1 DEF PutDraft
    <2> QED
        BY <1>3, <2>2, <2>3 DEF DraftStep
<1>4. CASE DraftStep("rewrite", "done") /\ PutDraft("config.json", "whole")
           /\ config' = config
    <2>1. Adapted'
        BY <1>4 DEF DraftStep
    <2>2. ASSUME NEW f \in Weights PROVE f \in DOMAIN draft' /\ draft'[f] = "whole"
        BY <1>4 DEF PutDraft, DraftStep
    <2> QED
        BY <1>4, <2>1, <2>2 DEF DraftStep
<1>5. CASE DiscardDraft
    BY <1>5 DEF DiscardDraft, DraftStep, SourceConfigs
<1>6. CASE MergeNext \/ MergeKilled \/ DiscardTree
    <2>1. UNCHANGED draftVars
        BY <1>6 DEF MergeNext, StartMerge, LinkShard, CopyIndex, OpenShard, WriteTensor,
                    ShortRead, CloseShard, LinkNewName, UnlinkOldName, KeepName, WriteIndex,
                    Audit, MergeKilled, DiscardTree, MergeStep
    <2> QED
        BY <1>1, <2>1
<1>7. CASE PublishNames \/ PublishHash \/ Upload \/ UNCHANGED vars
    <2>1. UNCHANGED draftVars
        BY <1>7 DEF PublishNames, PublishHash, Upload, PublishStep, vars
    <2> QED
        BY <1>1, <2>1
<1> QED
    BY <1>2, <1>3, <1>4, <1>5, <1>6, <1>7 DEF Next, DraftNext, RewriteConfig

(* No kill leaves a draft that passes the launcher's look at its config    *)
(* with a file that is missing or torn, or a key that is not adapted.      *)
THEOREM AcceptedDraftsAreWhole == Spec => []AcceptedDraftIsWhole
<1>1. Init => DraftInv
    BY DEF Init, DraftInv
<1>2. DraftInv => AcceptedDraftIsWhole
    <2> SUFFICES ASSUME DraftInv, LauncherAcceptsDraft
                 PROVE  /\ \A f \in DraftFiles : Whole(f)
                        /\ \A k \in Forced : config[k] = "adapted"
                        /\ \A k \in Defaulted : config[k] # "absent"
        BY DEF AcceptedDraftIsWhole
    <2>1. config \notin SourceConfigs
        BY DEF LauncherAcceptsDraft, SourceConfigs, Keys, Forced
    <2> QED
        BY <2>1 DEF DraftInv, Adapted, LauncherAcceptsDraft, DraftFiles
<1> QED
    BY <1>1, <1>2, NextDraft, PTL DEF Spec
=============================================================================
