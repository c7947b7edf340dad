---------------------------- MODULE CheckpointPrep ----------------------------
(***************************************************************************)
(* What is prepared before anything is served: merge_mtp_head.py makes a   *)
(* tree of hard links to the quantized base and adds a shard with the MTP  *)
(* head, adapt_dspark_draft.py copies a draft and rewrites its config, and *)
(* publish_hf.sh uploads the merged tree.  Each of them may be killed      *)
(* between any two system calls, and the tree may be published or launched *)
(* while it is being made.                                                 *)
(*                                                                         *)
(* Simplifications.                                                        *)
(*  - The shard "model-i-of-n" is <<i, n>>; names sort as pairs do.        *)
(*  - A shard's content is the set of tensors in it; each shard of the     *)
(*    base holds one tensor, which is called like the shard.               *)
(*  - Base and source never change by themselves and pass the checks of    *)
(*    lines 34-47.  Of the copied files only the index is told apart.      *)
(*  - The draft's source is as it was downloaded, that is, not adapted.    *)
(***************************************************************************)
EXTENDS Integers, FiniteSets

CONSTANTS
    BaseCounts,      \* the numbers of shards a base may have
    MtpTensors,      \* how many tensors the MTP head has; 15 in the script
    Weights,         \* files of the draft beside config.json
    MaxCrashes       \* how often a script is killed

(* A base of four shards has one of the new shard's name; the script is    *)
(* for bases of three.                                                     *)
ASSUME PrepAssumption ==
    /\ BaseCounts \subseteq Nat \ {0, 4}
    /\ MtpTensors \in Nat \ {0}
    /\ IsFiniteSet(Weights) /\ "config.json" \notin Weights
    /\ MaxCrashes \in Nat

VARIABLES
    base,        \* how many shards the base has
    readable,    \* how many tensors of the head the source can deliver
    mpc,         \* where the merge has come to
    out,         \* OUT: name of a shard -> file, which links may share
    data,        \* file -> tensors in it
    index,       \* OUT/model.safetensors.index.json
    turn,        \* how many shards the renaming has dealt with
    dpc,         \* where the adaptation has come to
    draft,       \* the draft's directory: name -> "torn" or "whole"
    config,      \* the content of its config.json, key by key
    ppc, hashed, \* where the publication has come to
    hub,         \* what was uploaded last
    crashes

mergeVars == <<base, readable, mpc, out, data, index, turn>>
draftVars == <<dpc, draft, config>>
publishVars == <<ppc, hashed, hub>>
vars == <<mergeVars, draftVars, publishVars, crashes>>
-----------------------------------------------------------------------------
(***************************************************************************)
(* merge_mtp_head.py                                                       *)
(***************************************************************************)
BaseShards == {<<i, base>> : i \in 1 .. base}
Mtp == {<<0, k>> : k \in 1 .. MtpTensors}

(* A name made with the base's own number of shards.                       *)
LastOfBase == <<base, base>>

NewShard == <<4, 4>>
NewFile == <<0, 0>>          \* the file that opening a new name creates

Before(s, t) == s[1] < t[1] \/ (s[1] = t[1] /\ s[2] < t[2])

(* Every shard of the new index, under the name it has before renaming,    *)
(* and the name sorted() gives it.                                         *)
Merged == BaseShards \union {NewShard}
Rank(s) == Cardinality({t \in Merged : Before(t, s)}) + 1
NewName(s) == <<Rank(s), 4>>

(* final_map: where the new index says that tensor k is.                   *)
FinalMap(k) == NewName(IF k \in Mtp THEN NewShard ELSE k)

Files == BaseShards \union {NewFile}
NoFiles == [s \in {} |-> NewFile]
Present(s) == s \in DOMAIN out
Content(s) == data[out[s]]

MergeStep(from, to) ==
    /\ mpc = from
    /\ mpc' = to
    /\ UNCHANGED <<base, readable, draftVars, publishVars, crashes>>

(* makedirs with exist_ok.                                                 *)
StartOver ==
    /\ mpc \in {"absent", "done"} /\ mpc' = "link"
    /\ UNCHANGED <<base, readable, draftVars, publishVars, crashes, out, data, index, turn>>

(* A directory that exists is refused, which leaves everything as it is.   *)
StartMerge ==
    /\ MergeStep("absent", "link")
    /\ UNCHANGED <<out, data, index, turn>>

LinkShard ==
    /\ MergeStep("link", "link")
    /\ \E s \in BaseShards \ DOMAIN out :
          /\ \A t \in BaseShards \ DOMAIN out : t = s \/ Before(s, t)
          /\ out' = [t \in DOMAIN out \union {s} |-> IF t = s THEN s ELSE out[t]]
    /\ UNCHANGED <<data, index, turn>>

(* The base's own index sorts behind its shards.                           *)
CopyIndex ==
    /\ BaseShards \subseteq DOMAIN out
    /\ \/ index = "none" /\ index' = "torn" /\ MergeStep("link", "link")
       \/ index = "torn" /\ index' = "base" /\ MergeStep("link", "open")
    /\ UNCHANGED <<out, data, turn>>

(* open(out_path, "wb") truncates a file that has the name already.        *)
OpenShard ==
    /\ MergeStep("open", "write")
    /\ LET file == IF Present(NewShard) THEN out[NewShard] ELSE NewFile
       IN  /\ out' = [t \in DOMAIN out \union {NewShard} |->
                         IF t = NewShard THEN file ELSE out[t]]
           /\ data' = [data EXCEPT ![file] = {}]
    /\ UNCHANGED <<index, turn>>

NextTensor(k) ==
    k \notin Content(NewShard) /\ \A j \in Mtp \ Content(NewShard) : k[2] <= j[2]

WriteTensor ==
    /\ MergeStep("write", "write")
    /\ \E k \in Mtp : /\ NextTensor(k) /\ k[2] <= readable
                     /\ data' = [data EXCEPT ![out[NewShard]] = @ \union {k}]
    /\ UNCHANGED <<out, index, turn>>

(* A loop that reads on at the end of the source file.                     *)
KeepReading ==
    /\ MergeStep("write", "write")
    /\ \E k \in Mtp : NextTensor(k) /\ k[2] > readable
    /\ UNCHANGED <<out, data, index, turn>>

ShortRead ==
    /\ MergeStep("write", "stopped")
    /\ \E k \in Mtp : NextTensor(k) /\ k[2] > readable
    /\ UNCHANGED <<out, data, index, turn>>

(* A loop that takes the end of the source file for the end of the head.   *)
WrittenSome == Content(NewShard) # {}

Written == Content(NewShard) = Mtp

CloseShard ==
    /\ MergeStep("write", "rename")
    /\ Written
    /\ UNCHANGED <<out, data, index, turn>>

Turn(s) == Rank(s) = turn + 1

(* os.link does not replace a name that is taken.                          *)
LinkNewName ==
    /\ MergeStep("rename", "unlink")
    /\ \E s \in Merged :
          /\ Turn(s) /\ s # NewName(s) /\ ~Present(NewName(s))
          /\ out' = [t \in DOMAIN out \union {NewName(s)} |->
                        IF t = NewName(s) THEN out[s] ELSE out[t]]
    /\ UNCHANGED <<data, index, turn>>

UnlinkOldName ==
    /\ MergeStep("unlink", "rename")
    /\ \E s \in Merged :
          /\ Turn(s)
          /\ out' = [t \in DOMAIN out \ {s} |-> out[t]]
    /\ turn' = turn + 1
    /\ UNCHANGED <<data, index>>

KeepName ==
    /\ MergeStep("rename", "rename")
    /\ \E s \in Merged : Turn(s) /\ s = NewName(s)
    /\ turn' = turn + 1
    /\ UNCHANGED <<out, data, index>>

(* An index written before the names it uses exist.                        *)
RenamedSome == turn > 0

Renamed == turn = Cardinality(Merged)

WriteIndex ==
    /\ \/ MergeStep("rename", "index") /\ Renamed /\ index' = "torn"
       \/ MergeStep("index", "audit") /\ index' = "final"
    /\ UNCHANGED <<out, data, turn>>

(* The size of the new shard is asked under its first name, and so is the  *)
(* hash; both fail when it was renamed.                                    *)
Audit ==
    /\ MergeStep("audit", IF Present(NewShard) THEN "done" ELSE "stopped")
    /\ UNCHANGED <<out, data, index, turn>>

Merging == mpc \in {"link", "open", "write", "rename", "unlink", "index", "audit"}

MergeKilled ==
    /\ Merging /\ crashes < MaxCrashes
    /\ mpc' = "stopped"
    /\ crashes' = crashes + 1
    /\ UNCHANGED <<base, readable, out, data, index, turn, draftVars, publishVars>>

(* The operator removes what an interrupted merge has left.                *)
DiscardTree ==
    /\ MergeStep("stopped", "absent")
    /\ ppc = "idle"
    /\ out' = NoFiles /\ index' = "none" /\ turn' = 0
    /\ data' = [data EXCEPT ![NewFile] = {}]
-----------------------------------------------------------------------------
(***************************************************************************)
(* adapt_dspark_draft.py                                                   *)
(***************************************************************************)
(* Some of the keys that are always written, and one of those that are     *)
(* only written when the source has none.                                  *)
Forced == {"architectures", "model_type"}
Defaulted == {"mask_token_id"}
Keys == Forced \union Defaulted

(* A config says nothing of a key, says what the source says, or what the  *)
(* script writes.                                                          *)
SourceConfigs == {cfg \in [Keys -> {"absent", "source"}] :
                     \A k \in Forced : cfg[k] = "source"}

AdaptConfig(cfg) ==
    [k \in Keys |-> IF k \in Forced \/ cfg[k] = "absent" THEN "adapted" ELSE cfg[k]]

DraftFiles == Weights \union {"config.json"}
NoDraft == [f \in {} |-> "torn"]
Whole(f) == f \in DOMAIN draft /\ draft[f] = "whole"
(* A copy that takes the config for the whole tree.                        *)
ConfigCopied == Whole("config.json")

AllCopied == \A f \in DraftFiles : Whole(f)
PutDraft(f, state) == draft' = [g \in DOMAIN draft \union {f} |->
                                   IF g = f THEN state ELSE draft[g]]

DraftStep(from, to) ==
    /\ dpc = from
    /\ dpc' = to
    /\ UNCHANGED <<mergeVars, publishVars, crashes>>

StartDraft ==
    /\ DraftStep("absent", "copy")
    /\ UNCHANGED <<draft, config>>

(* copytree copies one file after the other, in the directory's order.     *)
CopyDraftFile ==
    /\ DraftStep("copy", "copy")
    /\ \/ /\ \A f \in DOMAIN draft : draft[f] = "whole"
          /\ \E f \in DraftFiles \ DOMAIN draft : PutDraft(f, "torn")
       \/ \E f \in DOMAIN draft : draft[f] = "torn" /\ PutDraft(f, "whole")
    /\ UNCHANGED config

(* write_text truncates, then writes.                                      *)
RewriteConfig ==
    \/ /\ DraftStep("copy", "rewrite")
       /\ AllCopied
       /\ PutDraft("config.json", "torn")
       /\ config' = AdaptConfig(config)
    \/ /\ DraftStep("rewrite", "done")
       /\ PutDraft("config.json", "whole")
       /\ UNCHANGED config

DraftKilled ==
    /\ dpc \in {"copy", "rewrite"} /\ crashes < MaxCrashes
    /\ dpc' = "stopped"
    /\ crashes' = crashes + 1
    /\ UNCHANGED <<mergeVars, publishVars, draft, config>>

(* The operator removes what is left and downloads the source again.       *)
DiscardDraft ==
    /\ DraftStep("stopped", "absent")
    /\ draft' = NoDraft
    /\ config' \in SourceConfigs
-----------------------------------------------------------------------------
(***************************************************************************)
(* publish_hf.sh, and the checks of serve.sh.                              *)
(***************************************************************************)
FourShards == {<<i, 4>> : i \in 1 .. 4}

(* The checkpoint whose hashes the script expects has three base shards.   *)
Expected(i) == IF i = 4 THEN Mtp ELSE {<<i, 3>>}

PublishStep(from, to) ==
    /\ ppc = from
    /\ ppc' = to
    /\ UNCHANGED <<mergeVars, draftVars, crashes>>

(* The names alone, without the hashes.                                    *)
NamesOnly(i) == Present(<<i, 4>>)

HashMatches(i) == Present(<<i, 4>>) /\ Content(<<i, 4>>) = Expected(i)

PublishNames ==
    /\ PublishStep("idle", "hash")
    /\ FourShards \subseteq DOMAIN out
    /\ hashed' = 0
    /\ UNCHANGED hub

PublishHash ==
    /\ hashed < 4
    /\ IF HashMatches(hashed + 1) THEN PublishStep("hash", "hash") /\ hashed' = hashed + 1
       ELSE PublishStep("hash", "idle") /\ UNCHANGED hashed
    /\ UNCHANGED hub

Upload ==
    /\ PublishStep("hash", "idle")
    /\ hashed = 4
    /\ hub' = [shards |-> [s \in DOMAIN out |-> Content(s)], index |-> index]
    /\ UNCHANGED hashed

(* serve.sh asks for the names of the four shards, and of a draft whether  *)
(* its config says what the adaptation writes.                             *)
LauncherAccepts == FourShards \subseteq DOMAIN out
LauncherAcceptsDraft ==
    /\ Whole("config.json")
    /\ config["architectures"] = "adapted" /\ config["model_type"] = "adapted"
-----------------------------------------------------------------------------
Init ==
    /\ base \in BaseCounts /\ readable \in {MtpTensors - 1, MtpTensors}
    /\ mpc = "absent" /\ out = NoFiles /\ index = "none" /\ turn = 0
    /\ data = [f \in Files |-> IF f = NewFile THEN {} ELSE {f}]
    /\ dpc = "absent" /\ draft = NoDraft /\ config \in SourceConfigs
    /\ ppc = "idle" /\ hashed = 0
    /\ hub = [shards |-> [s \in {} |-> {}], index |-> "none"]
    /\ crashes = 0

MergeNext ==
    \/ StartMerge \/ LinkShard \/ CopyIndex
    \/ OpenShard \/ WriteTensor \/ ShortRead \/ CloseShard
    \/ LinkNewName \/ UnlinkOldName \/ KeepName \/ WriteIndex \/ Audit

DraftNext == StartDraft \/ CopyDraftFile \/ RewriteConfig

Next ==
    \/ MergeNext \/ MergeKilled \/ DiscardTree
    \/ DraftNext \/ DraftKilled \/ DiscardDraft
    \/ PublishNames \/ PublishHash \/ Upload

(* A script that is not killed keeps running.                              *)
Spec == Init /\ [][Next]_vars /\ WF_vars(MergeNext) /\ WF_vars(DraftNext)
-----------------------------------------------------------------------------
(* Every file of the base keeps its content, though the tree that is       *)
(* written to is made of links to them.                                    *)
BaseUntouched == \A s \in BaseShards : data[s] = {s}

(* A tree the launcher accepts by its four names has a whole MTP shard and *)
(* all tensors of the base under some name: no crash leaves a tree that    *)
(* passes the check with a shard that is still being written.              *)
AcceptedIsWhole ==
    LauncherAccepts => UNION {Content(s) : s \in DOMAIN out} = BaseShards \union Mtp

(* Where the new index is in place, it names for each tensor a file that   *)
(* holds it.                                                               *)
IndexFindsTensors ==
    index = "final" =>
        \A k \in BaseShards \union Mtp : Present(FinalMap(k)) /\ k \in Content(FinalMap(k))

(* A draft the launcher accepts is whole and adapted in every key, though  *)
(* the adaptation copies first and rewrites in place.                      *)
AcceptedDraftIsWhole ==
    LauncherAcceptsDraft =>
        /\ \A f \in DraftFiles : Whole(f)
        /\ \A k \in Forced : config[k] = "adapted"
        /\ \A k \in Defaulted : config[k] # "absent"

(* What is uploaded holds the four shards the hashes were taken of, though *)
(* the tree may change between the hash of the first and the upload.       *)
Published == hub.index # "none"
PublishedIsWhole ==
    Published => \A i \in 1 .. 4 : <<i, 4>> \in DOMAIN hub.shards
                                      /\ hub.shards[<<i, 4>>] = Expected(i)

(* From its index on a merged tree is not written again, as long as the    *)
(* operator does not remove it: a second merge refuses to overwrite.       *)
FinishedTreeKept ==
    [][index = "final" /\ mpc' # "absent" => UNCHANGED <<out, data, index>>]_vars

(* A merge or an adaptation that is started ends, finished or stopped.     *)
PreparationEnds == (mpc = "link" ~> mpc \in {"done", "stopped"})
                   /\ (dpc = "copy" ~> dpc \in {"done", "stopped"})
=============================================================================
