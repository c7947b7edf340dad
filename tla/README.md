# A TLA+ model of the Qwen3.8-27B NVFP4 serving package

The repository packages a quantized checkpoint for one DGX Spark: an overlay on
a vLLM wheel that adds DFlash2 speculative decoding, shell and Python programs
that quantize the checkpoint, prepare its draft models and launch the server,
and the gates that decide whether a configuration may be published. This
directory models the parts of it whose correctness depends on order, on what an
earlier step left behind, or on sizes at a boundary.

## The system

| Component | State it keeps | Operations | Talks to |
|---|---|---|---|
| DFlash2 speculator (`dflash2/speculator.py`) | `_selector_tokens`, `_selector_scores`, `draft_tokens`, `draft_logits` and `_cached_candidate_ids` on the GPU | `_generate_draft`, two Triton kernels | draft model; rejection sampler, through `draft_logits` |
| DFlash2 draft model (`qwen3_dflash2.py`) | weights only | `compute_candidates`, candidate selector, grouped convolutions | target's lm_head |
| Speculator dispatch, configuration (`spec_decode/__init__.py`, `config/vllm.py`) | `VllmConfig` | `init_speculator`, `use_v2_model_runner`, validation in `__post_init__` | environment, model runner |
| DFlash model (`qwen3_dflash.py`) | weights, stacked copies of them, the mask embedding, the context's KV cache | layer attention from the config, loading, fused KV precomputation | target's hidden states, runner |
| Model registry (`registry.py`) | models, two `lru_cache`s per process; model-info files shared by all | inspection (cache file or subprocess), loading, registration | other processes, through the files |
| PTQ driver (`run-ptq.sh`) | position in its follow loop | checks, `docker rm`, `docker run`, polling, timeout | container `q38-ptq`; files PASS and FAIL |
| PTQ worker (`ptq_worker.py`) | the model in memory | configure, load, calibrate, quantize, census, export, audit | `evidence/<attempt>`, `candidates/<attempt>` |
| Quality run (`run_quality_set.py`) | rows in memory, rows file, summary | resume, ask and grade, append, rewrite, report | server |
| Gates (`run_semantic_gate.py`, `run_niah.py`, `run_max_context_gate.py`, `run_sanity_suite.py`, `run_long_generation.py`) | one result file each | prompt construction, request, verdict | server |
| Launcher (`serve.sh`, `click_run_*.sh`) | the container `qwen38-27b` | profile, shard checks, replacement, health wait | docker, server |
| MTP ladder, performance suite | one directory per rung | launch, wait, gate, probe | launcher's container, gates |
| Checkpoint preparation (`merge_mtp_head.py`, `adapt_dspark_draft.py`, `publish_hf.sh`, `assemble_rc0.sh`) | an output directory | copy, link, rewrite, upload | file system, hub |
| Builders, audits and probes | none | search and print | files |

`PROJECT.json` lists every component with its status, and every hazard at its
line with the properties that cover it or the reason why none does yet.

What is hard: the two kernels of a draft share buffers that outlive the draft
and the request (stale logits, lanes past the end of a row, unwritten memory); the
driver of a campaign looks at files and at docker in separate steps while its
worker runs, dies or finishes, and other drivers may use the same names; the
quality run can be killed anywhere and resumes from what it finds. The merge
makes hard links into a base it must not change, and can be killed between any
two system calls while somebody publishes or launches the tree. Scripts that
launch servers share one container name and result files that outlive a run.
The registry's processes share cache files, perhaps with different sources. The
draft's context is computed for all layers at once from copies of the weights.

## Modules

| Module | Role |
|---|---|
| `DraftProposals` | abstract: one dense proposal row per slot and position, refilled with -inf before every draft |
| `DFlash2Speculator` | `_generate_draft` and its two kernels, detailed; implements `DraftProposals` |
| `MCDFlash2` | inputs for model checking it |
| `DFlash2SpeculatorProofs` | its theorems |
| `PtqCampaign` | any number of drivers, the container, the worker and the files they share |
| `PtqCampaignProofs` | its theorems |
| `QualityRun` | collection, crashes and resume of the quality set |
| `VllmConfigInit` | one pass of `VllmConfig.__post_init__`, copies of its result, the start of the worker |
| `MCVllmConfig` | the slices of configurations it is checked on |
| `VllmConfigInitProofs` | its theorems |
| `LayerContext` | abstract: every layer computes and stores its own context keys and values |
| `DFlashContext`, `MCDFlashContext` | layers, loading and the fused context of a DFlash draft; implements `LayerContext` |
| `DFlashContextProofs` | its theorems |
| `CheckpointPrep`, `MCCheckpointPrep` | MTP head merge, draft adaptation, publication, the launcher's checks of trees |
| `CheckpointPrepProofs` | its theorems |
| `Serving` | click-runs, ladder and performance suite around one container |
| `ScriptProofs` | theorems about `QualityRun` and `Serving`, which share no name and so can be extended together |
| `Gates`, `MCGates` | the five gates, one after another request, with the prompts that fill a window |
| `GatesProofs` | its theorems |
| `ModelRegistry`, `MCModelRegistry` | inspection and loading in several processes that share the model-info cache |
| `ModelRegistryProofs` | its theorems |

### DFlash2Speculator

The variables are the tensors of `DFlash2Speculator` and the locals of one call.
A step is one program of a kernel: `WalkRow(r)` is the program of row `r` of
`_selector_walk_kernel`, with the whole walk over its steps, `CacheFlat(r, i)` that of
request `r` and step `i` of `_cache_draft_logits_kernel`. A program runs in one
warp and shares no cell with another program of its launch, so its loads and
stores need no finer grain; programs of a launch run in any order, and a launch
waits for the one before it on the stream (`StreamDrained`). Within a program
several lanes may store to one address; any of them may be last (`LastStore`).

A token is a number, a score an integer, NaN or -inf: the properties only
compare scores and tell apart those that no comparison selects. Gumbel noise
may make any finite lane the winner, so at a positive temperature each of them
is a possible choice (`RawIndices`). `LoadCandidate` and `LoadScores` say what a
load past the end of a row returns: the next row of the tensor. `TakeDraft` poisons
`_selector_scores`, which the code keeps: the properties then show that no stale
or unwritten score is ever read. What the base class supplies - the batch, its
slots, padding, temperatures, anchors - is chosen freely in `ComputeScores`.

`SupportCached` is the reason why the small clear in line 111 is enough: every
token with a logit is remembered by its slot. `RefinesDense` states the
consequence as an implementation of `DraftProposals` (variables mapped one to
one: `reqState <- sample_idx_mapping`, `candidates <- candidate_ids`,
`realized <- selector_scores`, `proposal <- draft_logits`).

### PtqCampaign

`dpc[d]` is the place in `run-ptq.sh` that driver `d` has come to. Each test of a
file and each docker command is an action; the worker, in the container the
driver `container.launch` started, takes its own steps in between, and `Killed`
ends a shell and leaves the container. `docker run` may fail, before or after it
has created the container, as the script ignores its result. The two constants
`FreshAttempts` and `OneAtATime` say how the operator works: whether attempt ids are
reused and whether a driver is started while another runs.

### QualityRun

The rows file is a sequence of complete lines and a tail behind the last
newline. `CrashAppending` leaves part of a row, or all of it but its newline;
`CrashRewriting` any prefix of the final file. `Collect` on a file whose tail is
not empty glues its row to it, as appending does; `Start` reads up to the first
line that does not parse, as the resume does.

### VllmConfigInit

A behaviour is one configuration, chosen from `Users`, on its way through the
blocks of `__post_init__` in the order of the file; `pc` names the block. The
variables are the fields that decide about runner and CUDA graphs: compilation
mode, CUDA graph mode, `enable_sp`, `fuse_gemm_comms`, and whether dynamic
speculative decoding is still on. Everything else the user asked for stays in
`user`. `UseV2` is a state function, as `use_v2_model_runner` is a property: it is
evaluated with the fields of the moment at the override, the validation, the end
and the start of the worker. `Rebuild` is `with_hf_config`, which runs the pass
again on the resolved fields. `Supported` and `Speculator` transcribe the two lists
of methods that have to agree. The unsupported features that no other block
touches (dual batch overlap, elastic expert parallelism, logits processors and
the like) are one flag; classes outside the repository are modelled by what
the file says of them: CUDA graph modes, the V1 proposer.

### DFlashContext and LayerContext

`draft` is the config of the draft, `layers` what `_resolve_layer_attention` makes
of it. A number that the projection computes is known by the context state and by
the row of weights it is a product with, a normalized and rotated head by its
norm's weight and its position. With that, the code's index arithmetic is kept as
it is: `Buffers` stacks the k and v rows of all layers, `Column` is the row-major
index of the five-dimensional view, `KeyRow` a row of the `L * num_ctx` that are
rotated together, `Position` the repeated positions. `weights` numbers the loads, so
that a copy of earlier weights is told from the present ones; 0 are dummy
weights, for which the first call makes the copies. `LayerContext` says what
`DFlashQwen3Attention.forward` would have computed, layer by layer.

### CheckpointPrep

`out` maps the names in the output directory to files, `data` the files to the
tensors in them: a hard link is two names for one file, and opening a name for
writing truncates the file it stands for. Each system call of the merge is an
action, `MergeKilled` may come between any two. A config is a function from keys to
where their value is from. `PublishNames`, `PublishHash` and `Upload` read the tree
as it is at that moment. A base of four shards has a shard of the new shard's
name; it is excluded by `PrepAssumption`, as the script is for bases of three (its
output is asked for four shards by everything behind it).

### Serving

The specification is `ServingSpec`. `at[s]` is the place of script `s`, `container`
the one docker container, with the number of its launch. The results of `docker rm` and of copies are ignored as in the
scripts; `Fault` is a docker command that fails or a server that dies. `alone`
says whether the operator starts a script only when no other runs. Files that
outlive a run are `verdicts` and `results`; `FreshTags` gives each ladder and suite a
tag of its own. `answers[s].from` remembers which launches answered a gate.

### Gates

One run is `FirstWrite`, in the needle's gate the loop `Pad` that replaces depths
that coincide, then for each of its `cases` the search for a prompt (context
gate), the request and the row, then the result. The search is the code's: `Grow`
doubles until the prompt is long enough, `Halve` is the binary search, on a
tokenizer `count` that is any increasing function. `Rows` says what each gate makes
of each outcome of a request.

### ModelRegistry

`Call` starts an inspection or a load with the candidates in the order of that
function; `Try`, `Begin`, `Import`, `ReadCache`, `RunInSubprocess` and `SaveCache` are its
steps, and other processes step in between. `Outcome(tree)` stands for what the
sources of a process say of a class, so that an answer from others' sources is seen.
A hash covers the module's own file, or all files when the module is a package. A
query names at least one architecture, each a string, as the code's callers do.

## Runs

| Run | Shows | Bounds |
|---|---|---|
| `dflash2_batch` | two requests and padding over two slots, in every order of programs: no stale and no unwritten logit is proposed | 2 slots, 1 step, 2 lanes, 3 tokens |
| `dflash2_path` | walks that chain two steps, ties, NaN after one predecessor, all-NaN rows, a masked lane, ids past the padded vocabulary: every drafted token is a proposed candidate, right predecessor, greedy mode, indices in range | 1 slot, 2 steps, 3 lanes in a block of 4, 4 tokens |
| `ptq_concurrent` | concurrent drivers with attempts of their own: right verdicts, finished candidates kept, also when the worker ends between the checks of a poll; every driver ends | 2 drivers, 2 attempts, 2 polls |
| `ptq_rerun_verdict` | expected violation, see below | 2 drivers, 1 attempt |
| `quality_crashes` | three crashes anywhere; no repeated work up to the second | 4 questions |
| `config_resolution` | the draft gets its speculator, the runner what it supports; CUDA graph mode, runner and assertion agree at the end and after a copy | 20,804 configurations: all methods, drafts, modes and graph modes, 8 kinds of model, levels 0-2, TP, PP, PCP and DP up to 2, 1 copy |
| `config_async_tp` | expected violation, see below | 16 configurations |
| `dflash_context` | built, loaded, loaded again and given context, a slot holds what the layer would have computed by itself; windows fit the runner; masked slots are embedded as the checkpoint says | 2 layers, 2 heads of 2, 2 tokens, 2 slots, 2 loads, 2 calls, 11 drafts |
| `checkpoint_prep` | merge, adaptation and publication killed anywhere and side by side: base untouched, accepted trees and drafts whole, index right, finished trees kept | bases of 2, 3 and 5 shards, head of 2 tensors, 1 weight file, 2 kills |
| `serving` | whatever dies or overlaps, a verdict is of no earlier server, exit 0 follows a passed gate, a throughput is of its run and rep, every script ends | 2 shards, 2 rungs, 2 reps, 2 requests, 1 probe, 2 starts, 1 fault |
| `gates` | five gates with failing requests and kills: passed means complete, prompts fill and fit the window, needle depths differ, every gate ends | windows of 3 to 14, 3 tokenizers, 2 runs, 1 kill |
| `model_registry` | two processes with equal or different sources: information is of one's own sources, inspection and loading agree, refusals have a cause, answers stay | 2 processes, 2 trees, 4 queries, 2 calls, 2 events |

Why the bounds are enough. A proposal row is stale only with respect to the last
draft of its slot, and two drafts of different batches over two slots pass through
every combination; candidate sets overlap, coincide or are disjoint, and name one
token twice. Two steps are the shortest walk with a predecessor that was
chosen. Two drivers are the fewest that interfere; after two polls (720 of 30
seconds in the script) the loop's states repeat. Three crashes tear a line, glue
a row to it, and tear the rewrite. A configuration only
matters by the comparisons the pass makes: sizes are compared with 1, levels 2
and 3 have the same defaults, and a second copy starts where the first did. The
slices leave out users who ask for async TP, which `config_async_tp` shows,
uncompiled pooling models and connectors, and encoder-decoder models with dynamic
speculative decoding (see "Other disagreements").

Two heads of two numbers and two layers make every index of the context's view
matter; two calls overwrite a slot, two loads make a copy stale. Bases of two and
five shards rename nothing, everything, or names that are taken; two kills stop
both the merge and what follows it. One probe stands for ninety: a wait ends by
health, by death or by the limit. Two starts are the fewest that overlap or leave
something behind; one fault already meets every step. The windows of `gates` lie
below, at and above each mark, and the tokenizers meet a target, step over it,
or have no prompt short enough. Two events are a restart and a failure, which the
cache needs to mislead anybody. The theorems below hold for all sizes.

Deadlock checking is off where the system really stops: a campaign or scripts
that have ended, bounds of runs, calls, starts and loads that are used up, a
configuration that is refused or serves. The quality run may always be started again.

Fairness. Each liveness property assumes weak fairness of a program's own next
step, that is, a program that is not killed keeps running and each of its requests
ends (they all have timeouts or are answered by the operating system): the driver's
loop for `DriversEnd`, each script's for `ScriptsEnd`, a gate's for `GateEnds`, merge and
adaptation for `PreparationEnds`. Nothing is assumed of the worker, of docker, of the
server (it may never become healthy), of restarts, or of the operator. All of these end because their loops are bounded.

## Disagreements found

Each of these is shown by a run:

- **A rerun believes old sentinels** (`ptq_rerun_verdict`; run-ptq.sh:53). A failed
  attempt leaves FAIL and no candidate. Started again with the same id, the
  driver passes its checks, launches a worker, finds the old FAIL at its
  first poll, removes the running worker and exits 1.
- **The runner changes after a decision for it was made** (`config_async_tp`;
  vllm.py:1430). The override that keeps dynamic speculative decoding off full
  CUDA graphs on V1 asks for the runner before async TP turns sequence
  parallelism on. With TP > 1 that makes V2 unsupported: V1 serves with full graphs.

### Other disagreements

Seen while modelling, and left to the operator or outside the instances:

- A second crash of the quality run repeats graded questions, though line 113 says that
  they are skipped: a resume appends behind the torn line (run_quality_set.py:125) and the
  next one stops reading there. Nothing is lost or counted twice, as `quality_crashes` and
  the theorem show; `NotAskedAgainAfterOneCrash` holds up to the second crash.
- The comment at qwen3_dflash.py:132 says that `use_swa` forces sliding windows on every
  layer; with layer types of both kinds, line 133 leaves it aside, and a full layer keeps
  no window.
- A container that died without a sentinel is still listed by `docker ps -a`: the branch
  for a "container vanished without sentinel" (run-ptq.sh:67) is not taken and the
  driver polls until its loop ends (`DriversEnd` holds all the same).
- run-ptq.sh:17 looks for a finished candidate before line 30 removes the container
  that an earlier, killed driver of the attempt left running, which may finish in
  between; `CandidateKept` assumes `FreshAttempts`.
- Full graphs of an uncompiled pooling model, or with a connector, become PIECEWISE
  (config/vllm.py:1486) behind the block that would have dropped them; an assertion
  further down then fails. Dynamic speculative decoding of an encoder-decoder model
  is set to FULL_DECODE_ONLY (line 1497) behind the override to PIECEWISE.
- `VLLM_USE_V2_MODEL_RUNNER=0` (line 629) comes before the forced V2 and gives a DFlash2
  draft to V1, where it drafts as DFlash1 without an error.
- With the default run tag (run_mtp_ladder.sh:7) a rung whose gate has failed to write
  reads the file an earlier ladder left (lines 50-56). `Serving` gives every run
  a tag of its own (`FreshTags`); with `FALSE`, `VerdictIsOwn` does not hold.
- A merge killed between its last rename (merge_mtp_head.py:116) and its index (120)
  leaves four whole shards beside the base's index. publish_hf.sh looks at the four
  hashes alone and uploads the tree (31); `PublishedIsWhole` speaks of the shards.
- An interrupted download that has left the first shard is never repaired
  (click_run_mtp.sh:8-13): each later run stops at the missing ones.
- A maximum depth below 768 + 64 tokens makes the context gate send an empty prompt.

## Proofs

| Theorem | Statement | Assumptions |
|---|---|---|
| `DFlash2SpeculatorProofs!TypeCorrect` | `Spec => []TypeOK` | sizes, scores and inputs as declared |
| `DFlash2SpeculatorProofs!SupportIsCached` | `Spec => []SupportCached` | same |
| `DFlash2SpeculatorProofs!ImplementsDense` | `Spec => RefinesDense` | same |
| `DFlash2SpeculatorProofs!NoGarbage` | `Spec => []NoGarbageProposed` | same |
| `DFlash2SpeculatorProofs!PathsAreProposed` | `Spec => []PathIsProposed` | same |
| `DFlash2SpeculatorProofs!ProposalsFollowPath` | `Spec => []ConditionedOnPath` | same |
| `DFlash2SpeculatorProofs!GreedyTokensAreModes` | `Spec => []GreedyIsMode` | same |
| `PtqCampaignProofs!VerdictsAreRight` | `Spec => [](PassMeansComplete /\ VerdictIsOwn)` | `FreshAttempts` |
| `PtqCampaignProofs!FinishedCandidateKept` | `Spec => CandidateKept` | `FreshAttempts` |
| `ScriptProofs!RunIsComplete` | `Spec => [](OutIsPrefix /\ ReportComplete)` | none but the ranges of N and MaxCrashes |
| `ScriptProofs!NoRowIsAskedAgain` | `Spec => NotAskedAgainAfterOneCrash` | same |
| `ScriptProofs!VerdictsAreOwn` | `ServingSpec => []VerdictIsOwn` | `FreshTags` |
| `ScriptProofs!ThroughputsAreOwn` | `ServingSpec => []ThroughputIsOwn` | `FreshTags` |
| `ScriptProofs!SuccessesAreMeasured` | `ServingSpec => []SuccessIsMeasured` | none but the ranges of the bounds |
| `VllmConfigInitProofs!DraftsAreServed` | `Spec => []DraftHasItsSpeculator` | `Users` are configurations |
| `VllmConfigInitProofs!RunnerIsSupported` | `Spec => [](V2Supported /\ SpeculatorExists)` | same |
| `VllmConfigInitProofs!GraphsFit` | `Spec => [](GraphsSettled => GraphsFitRunner)` | same |
| `VllmConfigInitProofs!CopiesAgree` | `Spec => [](GraphsSettled => RebuildAgrees)` | same |
| `VllmConfigInitProofs!AssertionNeverFails` | `Spec => [](GraphsCompiled => AssertionHolds)` | same |
| `DFlashContextProofs!FusedIsPerLayer` | `Spec => ImplementsLayers` | at least one layer, head and number |
| `DFlashContextProofs!WindowsAreAlike` | `Spec => []WindowsFitRunner` | same |
| `DFlashContextProofs!MasksAreCurrent` | `Spec => []MaskIsCurrent` | same |
| `CheckpointPrepProofs!LinksAreNotWritten` | `Spec => []BaseUntouched` | no base of four shards |
| `CheckpointPrepProofs!AcceptedTreesAreWhole` | `Spec => []AcceptedIsWhole` | same |
| `CheckpointPrepProofs!FinalIndexFinds` | `Spec => []IndexFindsTensors` | same |
| `CheckpointPrepProofs!UploadsAreWhole` | `Spec => []PublishedIsWhole` | same |
| `CheckpointPrepProofs!FinishedTreeStays` | `Spec => FinishedTreeKept` | none |
| `CheckpointPrepProofs!AcceptedDraftsAreWhole` | `Spec => []AcceptedDraftIsWhole` | `config.json` is no weight file |
| `GatesProofs!PromptIsLongest` | `Spec => []LongestPrompt` | the tokenizer grows, and its counts reach each target |
| `GatesProofs!PromptsFit` | `Spec => []FitsWindow` | same; answers and the longer question fit in `Reserve`, which is at most the window |
| `GatesProofs!DepthsAscend` | `Spec => []DepthsDiffer` | at least one fraction; `MinDepth <= MinUsable` |
| `GatesProofs!PassesAreReal` | `Spec => [](PassedIsComplete /\ SuccessIsRecorded /\ ContextFileIsWhole)` | as `PromptIsLongest` |
| `ModelRegistryProofs!InfoCorrect` | `Spec => []InfoIsOwn` | each registered class has a layout; a query has an architecture |
| `ModelRegistryProofs!InspectedClassIsLoaded` | `Spec => []InspectedIsLoaded` | same |
| `ModelRegistryProofs!RefusalsHaveCauses` | `Spec => []RefusalHasCause` | same |
| `ModelRegistryProofs!AnswersDoNotChange` | `Spec => SameAnswers` | same |

The argument for the speculator: the walk clamps its lane (`ClampIndex`), so every
load is inside its row and types are preserved; a cache program sets a row's
support to the candidates it remembers at the same time, so `SupportCached` is
inductive beside `TypeOK`; with it, clearing the remembered candidates makes the
whole row -inf, which is a step of `DraftProposals`. For `NoGarbage` the
invariant says which rows the walk has written: when the second kernel is
launched no row of the batch is pending, hence each is written. `PathInv` follows
a draft through its phases: each slot of the batch belongs to one row (`OwnSlots`),
the scores are those the model gave (`Scored`), a row that has been walked holds at
each step a maximal lane of the scores after the lane chosen before (`Walks`), and
the rows and proposals that have been copied are those (`Scattered`, `Copied`). The
three properties of the path each follow from it in one phase.

The campaign's `IInv` adds to the types: no two drivers have one attempt, a file's
author is the driver of that attempt, where the live worker stands bounds what
its candidate and sentinels can be, and a driver that has seen a sentinel has
one. Only the second conjunct makes `VerdictIsOwn` inductive, and it fails
without `FreshAttempts`, as `ptq_rerun_verdict` shows.

For the quality run the file may hold unreadable lines. `FileInv` says that the
readable part is the first questions in order and that a row without newline
is the next one; `LoopInv` ties the file to memory as long as nothing in it is
broken, so that a torn row that happens to be whole continues the prefix. `OnceTorn`
adds what one crash can have left: before it no line is broken, and the line it
breaks is glued to a row in memory, so every readable row in the file is in memory
while the run collects. With a second crash that fails (see "Other disagreements").

For the scripts around the container `ServingInv` says of each script, at the places
between its launch and its report, that the container is not older than the launch
(`ContainerIsRecent`), that whatever has answered its gate was a launch since then
(`AnswersAreRecent`), and that the file it is about to read holds such a verdict
(`VerdictIsRecent`) or, under a fresh tag, no verdict at all (`LadderIsClean`). The suite's
results are of its run and the rep that their place says, or missing (`ResultsAreOwn`).
`OneAtATime` gives the stronger statement when scripts do not overlap. The
click-run needs no tag: it writes its verdict itself before it reads it.

For the configuration the invariant remembers the validation: from there on the
fields do not change, so neither does the runner nor its support
(`RunnerUnchanged`); until then nothing serves. What is served is then a function
of the user and the fields, and the drafts that force V2 are those whose
speculator only V2 has. `SettledInv` follows the first pass block by block and ends in
fields that no block changes any more, so that a copy finds them as they are
(`CopiesAgree`) and the runner is still the one the override was for (`GraphsFit`). That
fails for two kinds of users, whom `GraphsSettled` excludes: those whose async TP turns
sequence parallelism on behind the override (`config_async_tp`), and encoder-decoder
models. The assertion holds unless a pooling model or a connector serves with
graphs and without compilation (`GraphsCompiled`). TLC finds each condition needed,
and agrees with the theorems on 28,800 configurations.

For the context the invariant is that the copies, if there are any, are of the
present weights. `MaskInv` says which drafts have a mask embedding, and that it
is of the last load. The rest is arithmetic: `DivMod` and `Inside` are proved for all
sizes, `RowOfColumn` uses them three times (layer, half, head) to find the row behind a column
of the view, `ComputedIsOwn` once more for the row of the rotation. `WindowsAreAlike`
needs that a set of as many elements as layers is the set of layers.

For the merge, no name in the tree is the new shard's until it is opened, so opening
it creates a file, and writing goes to that file only: `TreeOfLinks` says both at
the places of the merge where they matter. A draft's config is either the source's or
adapted with all weights whole (`DraftInv`), whatever was killed. `TreeInv` has two
phases: while files are linked, each name stands for the file of that name
(`Linked`); while they are renamed, the shard of rank k in the sorted list has its new
name if k is at most the number of renames done (`Renaming`). Ranks count shards
that sort before (`RankOrders`, `OneRank`), so new names are distinct, and
`NewShardRank` shows that no rename lands on a name that another shard still has:
this needs that the base does not have four shards. At the end the index maps each tensor
to the shard that was renamed to that name. `HashInv` and `PublishInv` carry the hashes
that `publish_hf.sh` compared to the tree it then uploads.

For the gates, `Growing` says that what doubling has passed is too short, `Searching`
that everything below `low` fits, everything above `high` does not, and `best` is the
count at `low - 1`; at the end of the search they meet. `Undecided` and `RowsSoFar` say
that a gate that runs has no verdict yet and, for the context gate, that all rows but
the last have passed. For the needle, `Fractional` proves that a finite set of numbers
in ascending order is what `FractionCases` makes of it: the rank is an injection into as
many numbers, hence onto them. `Padded` is then kept by each round of the loop, whose
new depth is deeper than the last and not beyond the window.

For the registry the invariant is about the files: each holds a hash taken of the
sources its content is from, and a process reads and saves under its own hash. So
what it reads is of sources with its own hash, whichever process wrote last. For the
answers, `AnswersInv` says that each is explained by the registry and the outcomes that the
process remembers: the candidates before some place are not registered or have failed, and
the one at that place gives the answer. `CallInv` says the same of a call under way and
what is left of its candidates. Outcomes are never replaced while a model is
registered, so an answer that is given again is explained in the same way, and both copies
of the order end at the same candidate unless one has failed.

Some invariants are proved and not listed by a run, for they are parts of what a theorem
says beside a property that is: `PassMeansComplete`, `OutIsPrefix`, `SpeculatorExists`,
`SuccessIsRecorded`, `ContextFileIsWhole`, and the type invariants of `PtqCampaign` and
`QualityRun`.

Model-checked only: the liveness properties `DriversEnd`, `PreparationEnds`,
`ScriptsEnd` and `GateEnds`, as liveness under fairness is out of the prover's reach. Every
other property of a run that passes is a theorem. The run `config_async_tp` has no
theorem: it shows a user outside `GraphsSettled`; `ptq_rerun_verdict` shows a campaign
without `FreshAttempts`.

## Not modelled, and the plan

Left out for good: the arithmetic of the networks and the quantizer, prompt
texts and graders, benchmarks' numbers, tensor parallelism of the candidate head
(rejected for a quantized head), Dockerfiles, `assemble_rc0.sh`, audits, probes, tests,
which only search or copy. Of `qwen3_dflash.py` the query's forward pass and the
table from draft ids to target ids, which is data of the checkpoint; of `config/vllm.py` the
fields whose blocks do not meet the ones modelled here (hashes, logging, limits of
batches).

Planned, in this order:

1. Async scheduling, lookahead tokens and CUDA graph sizes of `config/vllm.py`.
2. `QuantRecipe`: the ordered quantizer list (last match wins) and the census.
