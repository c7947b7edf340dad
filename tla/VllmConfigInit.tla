--------------------------- MODULE VllmConfigInit ---------------------------
(***************************************************************************)
(* VllmConfig.__post_init__: how a user's configuration is resolved in one *)
(* pass over the fields that decide which model runner, which CUDA graphs  *)
(* and which speculator serve it.  use_v2_model_runner is a property that  *)
(* is computed anew wherever it is read, from fields the pass is changing. *)
(*                                                                         *)
(* Simplifications.                                                        *)
(*  - Only the blocks that write or read compilation mode, CUDA graph mode,*)
(*    sequence parallelism, dynamic speculative decoding or the runner.    *)
(*  - The platform is CUDA: its configuration hooks leave these fields as  *)
(*    they are.  Profiler, Whisper, hybrid-cache and size checks are left  *)
(*    out, as they stop the start or touch other fields, and so is the     *)
(*    refusal of piecewise graphs for DeepSeek V4 on V1.                   *)
(*  - set_splitting_ops_for_v1, which the repository does not contain, is  *)
(*    taken to leave them as they are, too.                                *)
(*  - with_hf_config builds a new VllmConfig from the resolved fields; the *)
(*    new model is taken to be of the same kind as the old one.            *)
(***************************************************************************)
EXTENDS Naturals

CONSTANTS Users,         \* configurations a user may ask for
          MaxRebuilds    \* how often a resolved configuration is copied

Graphs == {"NONE", "PIECEWISE", "FULL", "FULL_DECODE_ONLY", "FULL_AND_PIECEWISE"}
Modes == {"none", "stock", "dynamo", "vllm"}
Switch == {"on", "off"}
Unset == {"unset"}
Methods == {"eagle", "eagle3", "mtp", "dflash", "dspark", "ngram", "medusa", "draft_model"}

Model ==
    [runner : {"generate", "pooling"}, default_arch : BOOLEAN, hybrid : BOOLEAN,
     attention_free : BOOLEAN, moe : BOOLEAN, mla : BOOLEAN, diffusion : BOOLEAN,
     encoder_decoder : BOOLEAN]

Speculative ==
    [method : Methods \union {"none"},
     draft : SUBSET {"dflash2", "mixed", "gemma4"},
     flags : SUBSET {"dynamic", "adaptive", "parallel_drafting"}]

UserConfig ==
    [env : {"unset", "0", "1"}, model : Model, spec : Speculative,
     mode : Modes \union Unset, cudagraph : Graphs \union Unset,
     sp : Switch \union Unset, gemm : Switch \union Unset,
     level : 0 .. 3, tp : Nat, pp : Nat, dp : Nat, pcp : Nat,
     flags : SUBSET {"triton", "eager", "breakable", "compile_disabled", "connector",
                     "sp_fits", "lora", "external_launcher", "other_unsupported"}]

ASSUME UsersAssumption == Users \subseteq UserConfig /\ MaxRebuilds \in Nat

VARIABLES
    pc,           \* the block __post_init__ has come to
    user,         \* what was asked for
    mode,         \* compilation_config.mode
    cudagraph,    \* compilation_config.cudagraph_mode
    sp, gemm,     \* pass_config.enable_sp, fuse_gemm_comms
    dynamic,      \* num_speculative_tokens_per_batch_size is set
    resolved,     \* what the first pass ended with
    rebuilds,
    speculator    \* what drafts in the end

fields == <<mode, cudagraph, sp, gemm, dynamic>>
vars == <<pc, user, fields, resolved, rebuilds, speculator>>

Has(flag) == flag \in user.flags
SpecHas(flag) == flag \in user.spec.flags
Drafts(method, kind) == user.spec.method = method /\ kind \in user.spec.draft
-----------------------------------------------------------------------------
(***************************************************************************)
(* Which runner.                                                           *)
(***************************************************************************)

(* CUDAGraphMode                                                           *)
HasFull(graph) == graph \in {"FULL", "FULL_DECODE_ONLY", "FULL_AND_PIECEWISE"}
HasPiecewise(graph) == graph \in {"PIECEWISE", "FULL_AND_PIECEWISE"}

DefaultV2Model(m) ==
    /\ m.runner = "generate"
    /\ m.hybrid => m.default_arch
    /\ ~m.attention_free
    /\ m.default_arch \/ ~m.moe

V2Methods == {"eagle", "eagle3", "mtp", "dflash", "dspark"}

(* _get_v2_model_runner_unsupported_features is empty.                     *)
Supported ==
    /\ user.pcp > 1 => user.model.mla
    /\ mode # "stock"
    /\ ~(sp = "on" /\ user.tp > 1)
    /\ ~(Has("external_launcher") /\ user.pp > 1)
    /\ user.spec.method \in V2Methods \union {"none"}
    /\ SpecHas("parallel_drafting") => user.spec.method \in {"dflash", "dspark", "none"}
    /\ user.spec.method = "eagle3" => user.pp <= 1
    /\ SpecHas("adaptive") /\ user.spec.method # "none" =>
          ~Has("lora") /\ cudagraph # "NONE" /\ user.pp <= 1
    /\ ~Has("other_unsupported")

(* What is forced without the overlay's DFlash2 clause.                    *)
ForcedUpstream ==
    \/ user.pcp > 1
    \/ user.spec.method = "dspark"
    \/ Drafts("dflash", "mixed")
    \/ user.model.diffusion

ForcedV2 ==
    \/ user.pcp > 1
    \/ user.spec.method = "dspark"
    \/ Drafts("dflash", "mixed")
    \/ Drafts("dflash", "dflash2")
    \/ user.model.diffusion

UseV2 ==
    IF user.env # "unset" THEN user.env = "1"
    ELSE ForcedV2 \/ (DefaultV2Model(user.model) /\ Has("triton") /\ Supported)

(* init_speculator                                                         *)
Speculator ==
    CASE Drafts("dflash", "dflash2") -> "DFlash2"
      [] user.spec.method = "dflash" /\ "dflash2" \notin user.spec.draft -> "DFlash"
      [] user.spec.method = "dspark" -> "DSpark"
      [] user.spec.method = "mtp" ->
            IF "gemma4" \in user.spec.draft THEN "Gemma4" ELSE "MTP"
      [] user.spec.method \in {"eagle", "eagle3"} -> "Eagle"
      [] OTHER -> "NotImplemented"
-----------------------------------------------------------------------------
(***************************************************************************)
(* The blocks of __post_init__, in order.                                  *)
(***************************************************************************)
Init ==
    /\ pc = "compile"
    /\ user \in Users
    /\ mode = user.mode /\ cudagraph = user.cudagraph
    /\ sp = user.sp /\ gemm = user.gemm
    /\ dynamic = (SpecHas("dynamic") /\ user.spec.method # "none")
    /\ resolved = <<>> /\ rebuilds = 0
    /\ speculator = "none"

Block(from, to) ==
    /\ pc = from
    /\ pc' = to
    /\ UNCHANGED <<user, resolved, rebuilds, speculator>>

(* enforce_eager, TORCH_COMPILE_DISABLE and breakable CUDA graphs.         *)
DisableCompile ==
    /\ Block("compile", "defaults")
    /\ mode' = IF Has("eager") \/ Has("compile_disabled") \/ Has("breakable")
               THEN "none" ELSE mode
    /\ cudagraph' = IF Has("eager") THEN "NONE" ELSE cudagraph
    /\ UNCHANGED <<sp, gemm, dynamic>>

SetDefault(value, default) == IF value = "unset" THEN default ELSE value

LevelGraphs(level) ==
    IF level = 0 THEN "NONE" ELSE IF level = 1 THEN "PIECEWISE" ELSE "FULL_AND_PIECEWISE"

(* An optimization level that turns on async TP and leaves the rest to it. *)
AsyncTP(level) == IF level >= 2 THEN "on" ELSE "off"

(* IS_DENSE is False: no level turns sequence parallelism on.              *)
LevelGemm(level) == "off"

ApplyDefaults ==
    /\ Block("defaults", "dp")
    /\ mode' = SetDefault(mode, IF user.level > 0 THEN "vllm" ELSE "none")
    /\ cudagraph' = SetDefault(cudagraph, LevelGraphs(user.level))
    /\ sp' = SetDefault(sp, "off")
    /\ gemm' = SetDefault(gemm, LevelGemm(user.level))
    /\ UNCHANGED dynamic

(* _maybe_disable_dynamic_sd_for_data_parallel                             *)
DisableDynamic ==
    /\ Block("dp", "override")
    /\ dynamic' = (dynamic /\ user.dp <= 1)
    /\ UNCHANGED <<mode, cudagraph, sp, gemm>>

(* An override that knows one kind of full graphs only.                    *)
OnlyFull == dynamic /\ cudagraph = "FULL" /\ ~UseV2

GraphsTooStatic == dynamic /\ HasFull(cudagraph) /\ ~UseV2

(* _maybe_override_dynamic_sd_cudagraph_mode                               *)
OverrideDynamic ==
    /\ Block("override", "piecewise")
    /\ cudagraph' = IF GraphsTooStatic THEN "PIECEWISE" ELSE cudagraph
    /\ UNCHANGED <<mode, sp, gemm, dynamic>>

(* A check that forgets the modes between none and vllm.                   *)
CompileOff == HasPiecewise(cudagraph) /\ mode = "none" /\ ~Has("breakable")

CompileMissing == HasPiecewise(cudagraph) /\ mode # "vllm" /\ ~Has("breakable")

DropPiecewise ==
    /\ Block("piecewise", "sp")
    /\ cudagraph' = IF CompileMissing THEN "NONE" ELSE cudagraph
    /\ UNCHANGED <<mode, sp, gemm, dynamic>>

(* Async TP turns sequence parallelism on; one rank or a small model turns *)
(* both off again.                                                         *)
SequenceParallel ==
    /\ Block("sp", "graphs")
    /\ LET asked == sp = "on" \/ gemm = "on"
           kept == user.tp # 1 /\ Has("sp_fits")
       IN  /\ sp' = IF asked /\ kept THEN "on" ELSE "off"
           /\ gemm' = IF asked /\ ~kept THEN "off" ELSE gemm
    /\ UNCHANGED <<mode, cudagraph, dynamic>>

(* Pooling and encoder-decoder models, then the KV connector.              *)
ModelGraphs ==
    IF user.model.runner = "pooling" /\ HasFull(cudagraph) THEN "PIECEWISE"
    ELSE IF user.model.encoder_decoder /\ cudagraph \notin {"NONE", "FULL_DECODE_ONLY"}
         THEN "FULL_DECODE_ONLY"
    ELSE cudagraph

StaticGraphs ==
    /\ Block("graphs", "validate")
    /\ cudagraph' =
          IF Has("eager") THEN "NONE"
          ELSE IF Has("connector") /\ HasFull(ModelGraphs) THEN "PIECEWISE"
          ELSE ModelGraphs
    /\ UNCHANGED <<mode, sp, gemm, dynamic>>

(* A validation that only looks for Triton.                                *)
TritonOnly == Has("triton")

(* _validate_v2_model_runner                                               *)
Valid == Has("triton") /\ Supported

Raise ==
    /\ pc = "validate"
    /\ IF UseV2 THEN ~Valid ELSE user.pcp > 1
    /\ pc' = "raised"
    /\ UNCHANGED <<user, fields, resolved, rebuilds, speculator>>

Validate ==
    /\ Block("validate", "final")
    /\ IF UseV2 THEN Valid ELSE user.pcp <= 1
    /\ UNCHANGED fields

(* The assertion on piecewise graphs, and the end of the pass.             *)
PiecewiseCompiled == HasPiecewise(cudagraph) => mode = "vllm" \/ Has("breakable")

Outcome == <<fields, UseV2>>

Finish ==
    /\ pc = "final"
    /\ pc' = IF PiecewiseCompiled THEN "done" ELSE "raised"
    /\ resolved' = IF resolved = <<>> THEN Outcome ELSE resolved
    /\ UNCHANGED <<user, fields, rebuilds, speculator>>

(* with_hf_config: replace() runs __post_init__ on the resolved fields.    *)
Rebuild ==
    /\ pc = "done"
    /\ rebuilds < MaxRebuilds
    /\ rebuilds' = rebuilds + 1
    /\ pc' = "compile"
    /\ UNCHANGED <<user, fields, resolved, speculator>>

(* The worker starts: V2 asks init_speculator; of V1 the overlay's comment *)
(* says that a DFlash draft runs in DFlashProposer.                        *)
StartWorker ==
    /\ pc = "done"
    /\ pc' = "serving"
    /\ speculator' = IF user.spec.method = "none" THEN "none"
                     ELSE IF UseV2 THEN Speculator
                     ELSE IF user.spec.method = "dflash" THEN "DFlashProposer"
                     ELSE "V1"
    /\ UNCHANGED <<user, fields, resolved, rebuilds>>

Next == \/ DisableCompile \/ ApplyDefaults \/ DisableDynamic \/ OverrideDynamic
        \/ DropPiecewise \/ SequenceParallel \/ StaticGraphs \/ Raise \/ Validate
        \/ Finish \/ Rebuild \/ StartWorker

Spec == Init /\ [][Next]_vars
-----------------------------------------------------------------------------
(* A draft that only the V2 runner can run is run by its own speculator,   *)
(* whatever else the configuration asks for, unless the environment        *)
(* variable has chosen the runner.                                         *)
DraftHasItsSpeculator ==
    pc = "serving" /\ user.env # "0" =>
        /\ Drafts("dflash", "dflash2") => speculator = "DFlash2"
        /\ Drafts("dflash", "mixed") => speculator \in {"DFlash2", "DFlash"}
        /\ user.spec.method = "dspark" => speculator = "DSpark"

(* The V2 runner never serves a configuration it does not support, judged  *)
(* by the fields it is started with.                                       *)
V2Supported == pc = "serving" /\ UseV2 => Has("triton") /\ Supported

(* Every method the validation lets pass is one init_speculator knows.     *)
SpeculatorExists == speculator # "NotImplemented"

(* Dynamic speculative decoding changes the verification length at run     *)
(* time: without the V2 runner it is never served with full CUDA graphs.   *)
GraphsFitRunner == pc = "serving" /\ dynamic /\ ~UseV2 => ~HasFull(cudagraph)

(* "Compilation mode should be VLLM_COMPILE when piecewise cudagraphs are  *)
(* used": the assertion at the end of the pass holds.                      *)
AssertionHolds == pc = "final" => PiecewiseCompiled

(* A copy made from the resolved configuration resolves to the same fields *)
(* and the same runner.                                                    *)
RebuildAgrees == pc = "done" => resolved = Outcome
=============================================================================
