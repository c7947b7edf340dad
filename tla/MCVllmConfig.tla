----------------------------- MODULE MCVllmConfig -----------------------------
(***************************************************************************)
(* Configurations for model checking VllmConfigInit.                       *)
(***************************************************************************)
EXTENDS VllmConfigInit, TLC

Dense == [runner |-> "generate", default_arch |-> FALSE, hybrid |-> FALSE,
          attention_free |-> FALSE, moe |-> FALSE, mla |-> FALSE, diffusion |-> FALSE,
          encoder_decoder |-> FALSE]
Hybrid == [Dense EXCEPT !.hybrid = TRUE]   \* the repository's target model
Pooling == [Dense EXCEPT !.runner = "pooling"]
EncoderDecoder == [Dense EXCEPT !.encoder_decoder = TRUE]

Models == {Dense, Hybrid, Pooling,
           [Dense EXCEPT !.moe = TRUE, !.mla = TRUE],
           [Dense EXCEPT !.moe = TRUE, !.default_arch = TRUE],
           [Dense EXCEPT !.attention_free = TRUE],
           [Hybrid EXCEPT !.diffusion = TRUE]}

NoDraft == [method |-> "none", draft |-> {}, flags |-> {}]

(* scripts/serve.sh on the repository's model: eager, one GPU.             *)
Plain == [env |-> "unset", model |-> Dense, spec |-> NoDraft, mode |-> "unset",
          cudagraph |-> "unset", sp |-> "unset", gemm |-> "unset", level |-> 2,
          tp |-> 1, pp |-> 1, dp |-> 1, pcp |-> 1, flags |-> {"triton", "sp_fits"}]

Drafters ==
    [method : Methods \union {"none"}, draft : {{}},
     flags : {{}, {"adaptive"}, {"parallel_drafting"}}]
    \union [method : {"dflash"}, draft : {{"dflash2"}, {"mixed"}, {"dflash2", "mixed"}},
            flags : {{}, {"adaptive"}}]
    \union [method : {"mtp"}, draft : {{"gemma4"}}, flags : {{}}]

(* What else a configuration may ask for that a runner may not support.    *)
Variants ==
    {Plain, [Plain EXCEPT !.mode = "stock"], [Plain EXCEPT !.cudagraph = "NONE"]}
    \union {[Plain EXCEPT !.flags = f]
              : f \in {{}, {"triton", "eager"}, {"triton", "lora"},
                       {"triton", "other_unsupported"}, {"triton", "external_launcher"}}}
    \union {[Plain EXCEPT !.pp = 2, !.pcp = q, !.flags = {"triton"} \union f]
              : q \in 1 .. 2, f \in {{}, {"external_launcher"}}}
    \union {[Plain EXCEPT !.pcp = 2, !.mode = c, !.flags = f]
              : c \in {"unset", "stock"}, f \in {{}, {"triton"}}}

(* Which runner serves which draft.                                        *)
Runners ==
    {[v EXCEPT !.env = e, !.model = m, !.spec = s]
        : v \in Variants, e \in {"unset", "0", "1"}, m \in Models, s \in Drafters}

Dynamic == [method |-> "mtp", draft |-> {}, flags |-> {"dynamic"}]

(* How the CUDA graph mode is resolved; async TP is left to the levels.    *)
GraphModes ==
    {[Plain EXCEPT !.env = e, !.model = m, !.spec = s, !.mode = c, !.cudagraph = g,
                   !.level = l, !.tp = t, !.sp = q, !.dp = d, !.flags = f]
        : e \in {"unset", "0"}, m \in {Dense, Hybrid}, s \in {NoDraft, Dynamic},
          c \in {"unset", "none", "dynamo", "vllm"}, g \in Graphs \union Unset,
          l \in {0, 1, 2}, t \in 1 .. 2, q \in {"unset", "on"}, d \in 1 .. 2,
          f \in {{"triton", "sp_fits"}, {"triton", "breakable"}}}

(* Pooling models and connectors as long as everything is compiled, and    *)
(* encoder-decoder models without dynamic speculative decoding.            *)
CompiledModes ==
    {[Plain EXCEPT !.model = m, !.spec = s, !.mode = c, !.cudagraph = g, !.flags = f]
        : m \in {Pooling, Dense}, s \in {NoDraft, Dynamic},
          c \in {"unset", "vllm"}, g \in Graphs \union Unset,
          f \in {{"triton"}, {"triton", "connector"}, {"triton", "eager"}}}
    \union
    {[Plain EXCEPT !.model = EncoderDecoder, !.mode = c, !.cudagraph = g]
        : c \in Modes \union Unset, g \in Graphs \union Unset}

Resolutions == Runners \union GraphModes \union CompiledModes

(* Async TP asked for by the user.                                         *)
AsyncTPUsers ==
    {[Plain EXCEPT !.spec = s, !.gemm = "on", !.tp = t, !.level = l]
        : s \in {NoDraft, Dynamic}, t \in 1 .. 2, l \in 0 .. 3}
=============================================================================
