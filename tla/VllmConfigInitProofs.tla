------------------------ MODULE VllmConfigInitProofs ------------------------
(***************************************************************************)
(* For every set of users and any number of copies: the runner that serves *)
(* supports its configuration and knows its draft.                         *)
(***************************************************************************)
EXTENDS VllmConfigInit, TLAPS

(* What a step cannot change once the pass has validated its result.       *)
Validated == pc \in {"final", "done", "serving"} /\ UseV2 => Valid

SpeculatorIsDispatched ==
    /\ pc # "serving" => speculator = "none"
    /\ pc = "serving" =>
          speculator = IF user.spec.method = "none" THEN "none"
                       ELSE IF UseV2 THEN Speculator
                       ELSE IF user.spec.method = "dflash" THEN "DFlashProposer"
                       ELSE "V1"

IInv ==
    /\ user \in UserConfig
    /\ Validated
    /\ SpeculatorIsDispatched

(* The runner and its support are functions of the user and the fields: a  *)
(* step that leaves these alone cannot change the answer.                  *)
LEMMA RunnerUnchanged ==
    ASSUME UNCHANGED <<user, fields>>
    PROVE  (UseV2' <=> UseV2) /\ (Valid' <=> Valid) /\ Speculator' = Speculator
BY DEF fields, UseV2, Valid, Supported, ForcedV2, Speculator, Has, SpecHas, Drafts

LEMMA Initially == Init => IInv
BY UsersAssumption DEF Init, IInv, Validated, SpeculatorIsDispatched

(* The blocks before the validation do not reach the states it speaks of.  *)
LEMMA BlockStep ==
    ASSUME IInv, NEW from, NEW to, Block(from, to),
           from \notin {"serving"}, to \notin {"final", "done", "serving"}
    PROVE  IInv'
BY DEF IInv, Block, Validated, SpeculatorIsDispatched

LEMMA Inductive == IInv /\ [Next]_vars => IInv'
<1> SUFFICES ASSUME IInv, [Next]_vars PROVE IInv'
  OBVIOUS
<1>1. CASE DisableCompile BY <1>1, BlockStep DEF DisableCompile
<1>2. CASE ApplyDefaults BY <1>2, BlockStep DEF ApplyDefaults
<1>3. CASE DisableDynamic BY <1>3, BlockStep DEF DisableDynamic
<1>4. CASE OverrideDynamic BY <1>4, BlockStep DEF OverrideDynamic
<1>5. CASE DropPiecewise BY <1>5, BlockStep DEF DropPiecewise
<1>6. CASE SequenceParallel BY <1>6, BlockStep DEF SequenceParallel
<1>7. CASE StaticGraphs BY <1>7, BlockStep DEF StaticGraphs
<1>8. CASE Raise
  BY <1>8 DEF Raise, IInv, Validated, SpeculatorIsDispatched
<1>9. CASE Validate
  <2>1. UNCHANGED <<user, fields>> /\ (UseV2 => Valid)
    BY <1>9 DEF Validate, Block
  <2>2. Validated'
    BY <2>1, RunnerUnchanged DEF Validated
  <2> QED
    BY <1>9, <2>2 DEF Validate, Block, IInv, SpeculatorIsDispatched
<1>10. CASE Finish
  <2>1. UNCHANGED <<user, fields>> /\ pc = "final" /\ pc' \in {"done", "raised"}
    BY <1>10 DEF Finish
  <2>2. Validated'
    BY <2>1, RunnerUnchanged DEF IInv, Validated
  <2> QED
    BY <1>10, <2>1, <2>2 DEF Finish, IInv, SpeculatorIsDispatched
<1>11. CASE Rebuild
  BY <1>11 DEF Rebuild, IInv, Validated, SpeculatorIsDispatched
<1>12. CASE StartWorker
  <2>1. UNCHANGED <<user, fields>> /\ pc = "done" /\ pc' = "serving"
    BY <1>12 DEF StartWorker
  <2>2. Validated'
    BY <2>1, RunnerUnchanged DEF IInv, Validated
  <2>3. SpeculatorIsDispatched'
    BY <1>12, <2>1, RunnerUnchanged DEF StartWorker, SpeculatorIsDispatched
  <2> QED
    BY <2>1, <2>2, <2>3 DEF IInv
<1>13. CASE UNCHANGED vars
  <2>1. UNCHANGED <<user, fields>> /\ UNCHANGED <<pc, speculator>>
    BY <1>13 DEF vars
  <2> QED
    BY <2>1, RunnerUnchanged DEF IInv, Validated, SpeculatorIsDispatched
<1> QED
  BY <1>1, <1>2, <1>3, <1>4, <1>5, <1>6, <1>7, <1>8, <1>9, <1>10, <1>11, <1>12, <1>13
  DEF Next
-----------------------------------------------------------------------------
(* A draft that needs the V2 runner is served by its own speculator unless *)
(* the environment variable says 0: vllm.py:633-659 with init_speculator.  *)
THEOREM DraftsAreServed == Spec => []DraftHasItsSpeculator
<1>1. IInv => DraftHasItsSpeculator
  <2> SUFFICES ASSUME IInv, pc = "serving", user.env # "0"
               PROVE  /\ Drafts("dflash", "dflash2") => speculator = "DFlash2"
                      /\ Drafts("dflash", "mixed") => speculator \in {"DFlash2", "DFlash"}
                      /\ user.spec.method = "dspark" => speculator = "DSpark"
    BY DEF DraftHasItsSpeculator
  <2>1. ForcedV2 => UseV2
    BY DEF IInv, UserConfig, UseV2
  <2>2. ForcedV2 /\ user.spec.method # "none" => speculator = Speculator
    BY <2>1 DEF IInv, SpeculatorIsDispatched
  <2>3. Drafts("dflash", "dflash2") => speculator = "DFlash2"
    BY <2>2 DEF ForcedV2, Speculator, Drafts
  <2>4. Drafts("dflash", "mixed") => speculator \in {"DFlash2", "DFlash"}
    BY <2>2 DEF ForcedV2, Speculator, Drafts
  <2>5. user.spec.method = "dspark" => speculator = "DSpark"
    BY <2>2 DEF ForcedV2, Speculator, Drafts
  <2> QED
    BY <2>3, <2>4, <2>5
<1> QED
  BY Initially, Inductive, <1>1, PTL DEF Spec

(* The V2 runner serves only what it supports, and the speculator it asks  *)
(* for exists: _validate_v2_model_runner with init_speculator.             *)
THEOREM RunnerIsSupported == Spec => [](V2Supported /\ SpeculatorExists)
<1>1. IInv => V2Supported
  BY DEF IInv, Validated, V2Supported, Valid
<1>2. IInv => SpeculatorExists
  <2> SUFFICES ASSUME IInv, speculator = "NotImplemented" PROVE FALSE
    BY DEF SpeculatorExists
  <2>1. pc = "serving" /\ user.spec.method # "none" /\ UseV2 /\ Speculator = "NotImplemented"
    BY DEF IInv, SpeculatorIsDispatched
  <2>2. user.spec.method \in V2Methods
    BY <2>1 DEF IInv, Validated, Valid, Supported
  <2> QED
    BY <2>1, <2>2 DEF V2Methods, Speculator, Drafts
<1> QED
  BY Initially, Inductive, <1>1, <1>2, PTL DEF Spec
-----------------------------------------------------------------------------
(***************************************************************************)
(* CUDA graphs, for users who do not ask for what a later block of the     *)
(* pass changes behind an earlier one.                                     *)
(***************************************************************************)

(* Async TP turns sequence parallelism on, which the V2 runner does not    *)
(* support, after the graph mode was chosen for the runner.                *)
AsyncTPTurnsOnSP ==
    user.gemm = "on" /\ user.sp # "on" /\ user.tp > 1 /\ Has("sp_fits")

(* Encoder-decoder models get full graphs for decoding after that choice.  *)
GraphsSettled == ~AsyncTPTurnsOnSP /\ ~user.model.encoder_decoder

(* Pooling models and connectors get piecewise graphs after the check that *)
(* there is a compilation for them.                                        *)
GraphsCompiled ==
    \/ user.model.runner # "pooling" /\ ~Has("connector")
    \/ Has("eager") \/ Has("breakable")
    \/ /\ ~Has("compile_disabled")
       /\ user.mode = "vllm" \/ (user.mode = "unset" /\ user.level > 0)

(* What a pass has established when it comes to a block.                   *)
Compile == {"compile"}
Defaults == Compile \union {"defaults"}
DataParallel == Defaults \union {"dp"}
Override == DataParallel \union {"override"}
Piecewise == Override \union {"piecewise"}
Sp == Piecewise \union {"sp"}
Static == Sp \union {"graphs"}

KeepsSp == user.tp # 1 /\ Has("sp_fits")

Disabled ==
    /\ Has("eager") \/ Has("compile_disabled") \/ Has("breakable") => mode = "none"
    /\ Has("eager") => cudagraph = "NONE"

NothingUnset == mode \in Modes /\ cudagraph \in Graphs /\ sp \in Switch /\ gemm \in Switch

Asked ==
    /\ mode \in Modes \union Unset /\ cudagraph \in Graphs \union Unset
    /\ sp \in Switch \union Unset /\ gemm \in Switch \union Unset

Fit == dynamic /\ ~UseV2 => ~HasFull(cudagraph)

SpSettled == (sp = "on" => KeepsSp) /\ (sp = "off" => gemm # "on")

StaticSettled == user.model.runner = "pooling" \/ Has("connector") => ~HasFull(cudagraph)

(* Where async TP is on, sequence parallelism was on before, or is not to  *)
(* be turned on.                                                           *)
NoNewSp == gemm = "on" => sp = "on" \/ user.tp <= 1 \/ ~Has("sp_fits")

FirstPass ==
    /\ pc \in Defaults => Asked
    /\ pc \notin Compile => Disabled
    /\ pc \notin Defaults => NothingUnset
    /\ pc \notin DataParallel => (dynamic => user.dp <= 1)
    /\ pc \notin Override => Fit
    /\ pc \notin Sp => SpSettled
    /\ pc \notin Static => StaticSettled

(* What a finished pass leaves is what another pass leaves as it is.       *)
Settled ==
    /\ Disabled /\ NothingUnset /\ (dynamic => user.dp <= 1) /\ Fit
    /\ SpSettled /\ StaticSettled /\ PiecewiseCompiled /\ dynamic \in BOOLEAN

SettledInv ==
    GraphsSettled =>
        /\ NoNewSp
        /\ dynamic \in BOOLEAN
        /\ pc # "raised" /\ resolved = <<>> =>
              FirstPass /\ pc \notin {"done", "serving"}
        /\ pc # "raised" /\ resolved # <<>> => Settled /\ resolved = Outcome
-----------------------------------------------------------------------------
(* What does not change with the fields.                                   *)
LEMMA SameUser ==
    ASSUME user' = user
    PROVE  /\ GraphsSettled' = GraphsSettled /\ GraphsCompiled' = GraphsCompiled
           /\ KeepsSp' = KeepsSp /\ \A f : Has(f)' = Has(f)
           /\ ForcedV2' = ForcedV2
BY DEF GraphsSettled, AsyncTPTurnsOnSP, GraphsCompiled, KeepsSp, Has, ForcedV2, Drafts

LEMMA SameFields ==
    ASSUME UNCHANGED <<user, fields>>
    PROVE  /\ Settled' = Settled /\ NoNewSp' = NoNewSp /\ Outcome' = Outcome
           /\ Disabled' = Disabled /\ NothingUnset' = NothingUnset /\ Fit' = Fit
           /\ SpSettled' = SpSettled /\ StaticSettled' = StaticSettled
           /\ (dynamic => user.dp <= 1)' = (dynamic => user.dp <= 1)
<1>1. UNCHANGED <<mode, cudagraph, sp, gemm, dynamic>> /\ UseV2' = UseV2
  BY RunnerUnchanged DEF fields, UseV2
<1>2. /\ NoNewSp' = NoNewSp /\ Outcome' = Outcome
      /\ Disabled' = Disabled /\ NothingUnset' = NothingUnset /\ Fit' = Fit
      /\ SpSettled' = SpSettled /\ StaticSettled' = StaticSettled
      /\ PiecewiseCompiled' = PiecewiseCompiled
  BY <1>1 DEF NoNewSp, Outcome, fields, Disabled, NothingUnset, Fit, SpSettled, KeepsSp,
              StaticSettled, PiecewiseCompiled, Has, HasFull, HasPiecewise
<1> QED
  BY <1>1, <1>2 DEF Settled

(* What the runner depends on: it is supported as long as sequence         *)
(* parallelism is not turned on and graphs not turned off.                 *)
LEMMA StaysV2 ==
    ASSUME user' = user, mode' = mode, UseV2,
           cudagraph' = "NONE" => cudagraph = "NONE",
           sp' = "on" /\ user.tp > 1 => sp = "on"
    PROVE  UseV2'
<1>1. Supported => Supported'
  BY DEF Supported, Has, SpecHas
<1> QED
  BY <1>1, SameUser DEF UseV2, DefaultV2Model, Has
-----------------------------------------------------------------------------
(* A block that a settled configuration passes through unchanged.          *)
LEMMA IdleBlock ==
    ASSUME NEW from, NEW to, Block(from, to), UNCHANGED fields, Settled,
           resolved # <<>>, to # "raised", SettledInv, from # "raised"
    PROVE  SettledInv'
<1>1. UNCHANGED <<user, fields, resolved>> /\ pc = from /\ pc' = to
  BY DEF Block
<1>2. /\ NoNewSp' = NoNewSp /\ GraphsSettled' = GraphsSettled /\ Settled' = Settled
      /\ Outcome' = Outcome /\ resolved' = resolved /\ pc' # "raised" /\ pc # "raised"
      /\ dynamic' = dynamic
  BY <1>1, SameFields, SameUser DEF fields
<1> QED
  BY <1>2 DEF SettledInv

(* A settled configuration is a fixed point of each block.                 *)
LEMMA BlocksIdle ==
    ASSUME user \in UserConfig, Settled, ~user.model.encoder_decoder,
           \/ DisableCompile \/ ApplyDefaults \/ DisableDynamic \/ OverrideDynamic
           \/ DropPiecewise \/ SequenceParallel \/ StaticGraphs
    PROVE  UNCHANGED fields
<1> USE DEF Settled, Disabled, NothingUnset, fields
<1>1. CASE DisableCompile
  BY <1>1 DEF DisableCompile
<1>2. CASE ApplyDefaults
  BY <1>2 DEF ApplyDefaults, SetDefault, Modes, Graphs, Switch
<1>3. CASE DisableDynamic
  <2>1. dynamic' = (dynamic /\ user.dp <= 1)
    BY <1>3 DEF DisableDynamic
  <2> QED
    BY <1>3, <2>1 DEF DisableDynamic
<1>4. CASE OverrideDynamic
  BY <1>4 DEF OverrideDynamic, GraphsTooStatic, Fit
<1>5. CASE DropPiecewise
  BY <1>5 DEF DropPiecewise, CompileMissing, PiecewiseCompiled
<1>6. CASE SequenceParallel
  BY <1>6 DEF SequenceParallel, SpSettled, KeepsSp, Switch
<1>7. CASE StaticGraphs
  BY <1>7 DEF StaticGraphs, ModelGraphs, StaticSettled
<1> QED
  BY <1>1, <1>2, <1>3, <1>4, <1>5, <1>6, <1>7
-----------------------------------------------------------------------------
(* The first pass, block by block.                                         *)
LEMMA FirstBlocks ==
    ASSUME user \in UserConfig, GraphsSettled, NoNewSp, dynamic \in BOOLEAN, FirstPass,
           \/ DisableCompile \/ ApplyDefaults \/ DisableDynamic
    PROVE  FirstPass' /\ NoNewSp' /\ dynamic' \in BOOLEAN
<1> USE SameUser DEF Block, FirstPass, NoNewSp, Compile, Defaults, DataParallel, Override,
                     Piecewise, Sp, Static
<1>1. CASE DisableCompile
  <2>1. pc' = "defaults" /\ user' = user /\ UNCHANGED <<sp, gemm, dynamic>>
    BY <1>1 DEF DisableCompile
  <2>2. Disabled' /\ Asked'
    BY <1>1, <2>1 DEF DisableCompile, Disabled, Asked, Modes, Graphs
  <2> QED
    BY <2>1, <2>2
<1>2. CASE ApplyDefaults
  <2>1. pc = "defaults" /\ pc' = "dp" /\ user' = user /\ dynamic' = dynamic
    BY <1>2 DEF ApplyDefaults
  <2>2. Disabled'
    BY <1>2, <2>1 DEF ApplyDefaults, Disabled, SetDefault
  <2>3. NothingUnset'
    BY <1>2 DEF ApplyDefaults, Asked, NothingUnset, SetDefault, LevelGraphs, LevelGemm, Modes,
                Graphs, Switch, Unset
  <2>4. NoNewSp'
    BY <1>2, <2>1 DEF ApplyDefaults, SetDefault, LevelGemm
  <2> QED
    BY <2>1, <2>2, <2>3, <2>4
<1>3. CASE DisableDynamic
  <2>1. /\ pc = "dp" /\ pc' = "override" /\ user' = user
        /\ UNCHANGED <<mode, cudagraph, sp, gemm>> /\ dynamic' = (dynamic /\ user.dp <= 1)
    BY <1>3 DEF DisableDynamic
  <2>2. Disabled' /\ NothingUnset' /\ NoNewSp'
    BY <2>1 DEF Disabled, NothingUnset
  <2> QED
    BY <2>1, <2>2
<1> QED
  BY <1>1, <1>2, <1>3

LEMMA LaterBlocks ==
    ASSUME user \in UserConfig, GraphsSettled, NoNewSp, dynamic \in BOOLEAN, FirstPass,
           \/ OverrideDynamic \/ DropPiecewise \/ SequenceParallel \/ StaticGraphs
    PROVE  FirstPass' /\ NoNewSp' /\ dynamic' \in BOOLEAN
<1> USE SameUser DEF Block, FirstPass, Compile, Defaults, DataParallel, Override,
                     Piecewise, Sp, Static
<1>0. pc \in {"override", "piecewise", "sp", "graphs"} /\ user' = user /\ dynamic' = dynamic
      /\ mode' = mode
  BY DEF OverrideDynamic, DropPiecewise, SequenceParallel, StaticGraphs
<1>1. Disabled /\ NothingUnset /\ (dynamic => user.dp <= 1)
  BY <1>0
<1>2. CASE OverrideDynamic
  <2>1. /\ pc' = "piecewise" /\ UNCHANGED <<sp, gemm>>
        /\ cudagraph' = IF GraphsTooStatic THEN "PIECEWISE" ELSE cudagraph
    BY <1>2 DEF OverrideDynamic
  <2>2. Disabled' /\ NothingUnset' /\ NoNewSp'
    BY <1>0, <1>1, <2>1 DEF Disabled, NothingUnset, NoNewSp, GraphsTooStatic, HasFull, Graphs
  <2>3. Fit'
    <3>1. CASE GraphsTooStatic
      BY <2>1, <3>1 DEF Fit, HasFull
    <3>2. CASE ~GraphsTooStatic
      <4>1. UNCHANGED <<user, fields>>
        BY <1>0, <2>1, <3>2 DEF fields
      <4>2. Fit
        BY <3>2 DEF Fit, GraphsTooStatic
      <4> QED
        BY <4>1, <4>2, SameFields
    <3> QED
      BY <3>1, <3>2
  <2> QED
    BY <1>0, <1>1, <2>1, <2>2, <2>3
<1>3. CASE DropPiecewise
  <2>1. /\ pc = "piecewise" /\ pc' = "sp" /\ UNCHANGED <<sp, gemm>>
        /\ cudagraph' = "NONE" \/ cudagraph' = cudagraph
    BY <1>3 DEF DropPiecewise
  <2>2. Disabled' /\ NothingUnset' /\ NoNewSp'
    BY <1>0, <1>1, <2>1 DEF Disabled, NothingUnset, NoNewSp, Graphs
  <2>3. Fit'
    <3>1. CASE cudagraph' = "NONE"
      BY <3>1 DEF Fit, HasFull
    <3>2. CASE cudagraph' = cudagraph
      <4>1. UNCHANGED <<user, fields>>
        BY <1>0, <2>1, <3>2 DEF fields
      <4> QED
        BY <2>1, <4>1, SameFields
    <3> QED
      BY <2>1, <3>1, <3>2
  <2> QED
    BY <1>0, <1>1, <2>1, <2>2, <2>3
<1>4. CASE SequenceParallel
  <2>1. /\ pc = "sp" /\ pc' = "graphs" /\ cudagraph' = cudagraph
        /\ sp' = IF (sp = "on" \/ gemm = "on") /\ KeepsSp THEN "on" ELSE "off"
        /\ gemm' = IF (sp = "on" \/ gemm = "on") /\ ~KeepsSp THEN "off" ELSE gemm
    BY <1>4 DEF SequenceParallel, KeepsSp
  <2>2. Disabled' /\ NothingUnset' /\ SpSettled'
    BY <1>0, <1>1, <2>1 DEF Disabled, NothingUnset, SpSettled, Switch
  <2>3. NoNewSp'
    BY <1>0, <2>1 DEF NoNewSp
  <2>4. sp' = "on" /\ user.tp > 1 => sp = "on"
    BY <2>1 DEF NoNewSp, KeepsSp, UserConfig
  <2>5. Fit'
    BY <1>0, <2>1, <2>4, StaysV2 DEF Fit, HasFull
  <2> QED
    BY <1>0, <1>1, <2>1, <2>2, <2>3, <2>5
<1>5. CASE StaticGraphs
  <2>1. /\ pc = "graphs" /\ pc' = "validate" /\ UNCHANGED <<sp, gemm>>
        /\ cudagraph' =
              IF Has("eager") THEN "NONE"
              ELSE IF Has("connector") /\ HasFull(ModelGraphs) THEN "PIECEWISE"
              ELSE ModelGraphs
        /\ ModelGraphs = IF user.model.runner = "pooling" /\ HasFull(cudagraph)
                         THEN "PIECEWISE" ELSE cudagraph
    BY <1>5 DEF StaticGraphs, ModelGraphs, GraphsSettled
  <2>2. Disabled' /\ NothingUnset' /\ NoNewSp' /\ SpSettled' /\ StaticSettled'
    BY <1>0, <1>1, <2>1 DEF Disabled, NothingUnset, NoNewSp, SpSettled, StaticSettled,
                            HasFull, Graphs
  <2>3. Fit'
    <3>1. CASE cudagraph' \in {"NONE", "PIECEWISE"}
      BY <3>1 DEF Fit, HasFull
    <3>2. CASE cudagraph' = cudagraph
      <4>1. UNCHANGED <<user, fields>>
        BY <1>0, <2>1, <3>2 DEF fields
      <4> QED
        BY <2>1, <4>1, SameFields
    <3> QED
      BY <2>1, <3>1, <3>2
  <2> QED
    BY <1>0, <1>1, <2>1, <2>2, <2>3
<1> QED
  BY <1>2, <1>3, <1>4, <1>5
-----------------------------------------------------------------------------
(* What a step keeps that leaves the user and the fields alone.            *)
LEMMA Onwards ==
    ASSUME SettledInv, UNCHANGED <<user, fields>>,
           pc \in {"validate", "final", "done"}, pc' # "compile" \/ pc = "done",
           resolved = <<>> => pc' \in {"validate", "final", "raised"},
           resolved' = resolved
    PROVE  SettledInv'
<1>1. /\ NoNewSp' = NoNewSp /\ GraphsSettled' = GraphsSettled /\ Settled' = Settled
      /\ Outcome' = Outcome /\ dynamic' = dynamic /\ Disabled' = Disabled
      /\ NothingUnset' = NothingUnset /\ Fit' = Fit /\ SpSettled' = SpSettled
      /\ StaticSettled' = StaticSettled /\ user' = user
  BY SameFields, SameUser DEF fields
<1>2. FirstPass /\ pc' \in {"validate", "final"} => FirstPass'
  BY <1>1 DEF FirstPass, Compile, Defaults, DataParallel, Override, Piecewise, Sp, Static
<1> QED
  BY <1>1, <1>2 DEF SettledInv

LEMMA OutcomeIsSome == Outcome # <<>>
BY DEF Outcome

(* The pass is over: what it leaves is settled, and remembered.            *)
LEMMA FinishSettles == SettledInv /\ Finish => SettledInv'
<1> SUFFICES ASSUME SettledInv, Finish PROVE SettledInv'
  OBVIOUS
<1>1. /\ UNCHANGED <<user, fields>> /\ pc = "final"
      /\ pc' = IF PiecewiseCompiled THEN "done" ELSE "raised"
      /\ resolved' = IF resolved = <<>> THEN Outcome ELSE resolved
  BY DEF Finish
<1>2. /\ NoNewSp' = NoNewSp /\ GraphsSettled' = GraphsSettled /\ Settled' = Settled
      /\ Outcome' = Outcome /\ dynamic' = dynamic
  BY <1>1, SameFields, SameUser DEF fields
<1>3. GraphsSettled /\ resolved = <<>> /\ PiecewiseCompiled => Settled
  BY <1>1 DEF SettledInv, FirstPass, Settled, Compile, Defaults, DataParallel, Override,
              Piecewise, Sp, Static
<1> QED
  BY <1>1, <1>2, <1>3, OutcomeIsSome DEF SettledInv

LEMMA InitiallySettled == Init => SettledInv
<1> SUFFICES ASSUME Init, GraphsSettled
             PROVE  NoNewSp /\ dynamic \in BOOLEAN /\ FirstPass
  BY DEF Init, SettledInv
<1>1. user \in UserConfig /\ pc = "compile"
  BY UsersAssumption DEF Init
<1>2. NoNewSp
  BY <1>1 DEF Init, NoNewSp, GraphsSettled, AsyncTPTurnsOnSP, UserConfig
<1>3. Asked
  BY <1>1 DEF Init, Asked, UserConfig
<1>4. FirstPass
  BY <1>1, <1>3 DEF FirstPass, Compile, Defaults, DataParallel, Override, Piecewise, Sp, Static
<1> QED
  BY <1>2, <1>4 DEF Init

LEMMA StaysSettled == IInv /\ SettledInv /\ [Next]_vars => SettledInv'
<1> SUFFICES ASSUME IInv, SettledInv, [Next]_vars PROVE SettledInv'
  OBVIOUS
<1> DEFINE Blocks == \/ DisableCompile \/ ApplyDefaults \/ DisableDynamic
                     \/ OverrideDynamic \/ DropPiecewise \/ SequenceParallel
                     \/ StaticGraphs
<1>1. CASE Blocks
  <2>1. /\ user' = user /\ resolved' = resolved /\ user \in UserConfig
        /\ pc \notin {"raised", "done", "serving"}
        /\ pc' \notin {"raised", "done", "serving"}
    BY <1>1 DEF IInv, Block, DisableCompile, ApplyDefaults, DisableDynamic,
                OverrideDynamic, DropPiecewise, SequenceParallel, StaticGraphs
  <2> SUFFICES ASSUME GraphsSettled PROVE SettledInv'
    BY <2>1, SameUser DEF SettledInv
  <2>2. CASE resolved = <<>>
    <3>1. FirstPass /\ NoNewSp /\ dynamic \in BOOLEAN
      BY <2>1, <2>2 DEF SettledInv
    <3>2. FirstPass' /\ NoNewSp' /\ dynamic' \in BOOLEAN
      BY <1>1, <2>1, <3>1, FirstBlocks, LaterBlocks
    <3> QED
      BY <2>1, <2>2, <3>2 DEF SettledInv
  <2>3. CASE resolved # <<>>
    <3>1. Settled
      BY <2>1, <2>3 DEF SettledInv
    <3>2. UNCHANGED fields
      BY <1>1, <2>1, <3>1, BlocksIdle DEF GraphsSettled
    <3>3. /\ NoNewSp' = NoNewSp /\ Settled' = Settled /\ Outcome' = Outcome
          /\ dynamic' = dynamic
      BY <2>1, <3>2, SameFields DEF fields
    <3> QED
      BY <2>1, <2>3, <3>3 DEF SettledInv
  <2> QED
    BY <2>2, <2>3
<1>2. CASE Raise
  BY <1>2, Onwards DEF Raise
<1>3. CASE Validate
  BY <1>3, Onwards DEF Validate, Block
<1>4. CASE Finish
  BY <1>4, FinishSettles
<1>5. CASE Rebuild
  <2>1. pc = "done" /\ UNCHANGED <<user, fields, resolved>>
    BY <1>5 DEF Rebuild
  <2>2. GraphsSettled => resolved # <<>>
    BY <2>1 DEF SettledInv
  <2> QED
    BY <2>1, <2>2, SameFields, SameUser DEF SettledInv, fields
<1>6. CASE StartWorker
  <2>1. pc = "done" /\ UNCHANGED <<user, fields, resolved>>
    BY <1>6 DEF StartWorker
  <2>2. GraphsSettled => resolved # <<>>
    BY <2>1 DEF SettledInv
  <2> QED
    BY <2>1, <2>2, SameFields, SameUser DEF SettledInv, fields
<1>7. CASE UNCHANGED vars
  <2>1. UNCHANGED <<pc, user, fields, resolved>>
    BY <1>7 DEF vars
  <2>2. FirstPass' = FirstPass
    BY <2>1, SameFields DEF FirstPass, Asked, fields
  <2> QED
    BY <2>1, <2>2, SameFields, SameUser DEF SettledInv, fields
<1> QED
  BY <1>1, <1>2, <1>3, <1>4, <1>5, <1>6, <1>7 DEF Next
-----------------------------------------------------------------------------
(* Dynamic speculative decoding is never served with full graphs without   *)
(* the V2 runner, in whatever order the blocks read and write the runner's *)
(* fields, but for async TP and encoder-decoder models (vllm.py:1010-1330).*)
THEOREM GraphsFit == Spec => [](GraphsSettled => GraphsFitRunner)
<1>1. SettledInv => (GraphsSettled => GraphsFitRunner)
  BY DEF SettledInv, GraphsFitRunner, Settled, Fit
<1> QED
  BY Initially, Inductive, InitiallySettled, StaysSettled, <1>1, PTL DEF Spec

(* However often a resolved configuration is copied, its copies resolve to *)
(* the same fields and the same runner: __post_init__ is idempotent.       *)
THEOREM CopiesAgree == Spec => [](GraphsSettled => RebuildAgrees)
<1>1. SettledInv => (GraphsSettled => RebuildAgrees)
  BY DEF SettledInv, RebuildAgrees
<1> QED
  BY Initially, Inductive, InitiallySettled, StaysSettled, <1>1, PTL DEF Spec
-----------------------------------------------------------------------------
(***************************************************************************)
(* The assertion on piecewise graphs.                                      *)
(***************************************************************************)

AsksForCompilation ==
    /\ ~Has("eager") /\ ~Has("breakable") /\ ~Has("compile_disabled")
    /\ user.mode = "vllm" \/ (user.mode = "unset" /\ user.level > 0)

CompiledInv ==
    /\ AsksForCompilation =>
          \/ mode = "vllm"
          \/ mode = "unset" /\ user.level > 0 /\ pc \in {"compile", "defaults"}
    /\ GraphsCompiled /\ pc \in {"sp", "graphs", "validate", "final"} =>
          PiecewiseCompiled

LEMMA StaysCompiled == CompiledInv /\ [Next]_vars => CompiledInv'
<1> SUFFICES ASSUME CompiledInv, [Next]_vars PROVE CompiledInv'
  OBVIOUS
<1>1. user' = user
  BY DEF Next, Block, DisableCompile, ApplyDefaults, DisableDynamic, OverrideDynamic,
         DropPiecewise, SequenceParallel, StaticGraphs, Raise, Validate, Finish, Rebuild,
         StartWorker, vars
<1>2. /\ AsksForCompilation' = AsksForCompilation /\ GraphsCompiled' = GraphsCompiled
      /\ Has("breakable")' = Has("breakable")
  BY <1>1, SameUser DEF AsksForCompilation, Has
<1> USE <1>1, <1>2 DEF CompiledInv
<1>3. CASE DisableCompile
  BY <1>3 DEF DisableCompile, Block, AsksForCompilation
<1>4. CASE ApplyDefaults
  BY <1>4 DEF ApplyDefaults, Block, SetDefault, AsksForCompilation
<1>5. CASE DisableDynamic
  BY <1>5 DEF DisableDynamic, Block
<1>6. CASE OverrideDynamic
  BY <1>6 DEF OverrideDynamic, Block
<1>7. CASE DropPiecewise
  BY <1>7 DEF DropPiecewise, Block, CompileMissing, PiecewiseCompiled, HasPiecewise
<1>8. CASE SequenceParallel
  BY <1>8 DEF SequenceParallel, Block, PiecewiseCompiled, HasPiecewise
<1>9. CASE StaticGraphs
  <2>1. /\ pc = "graphs" /\ pc' = "validate" /\ mode' = mode
        /\ cudagraph' = IF Has("eager") THEN "NONE"
                        ELSE IF Has("connector") /\ HasFull(ModelGraphs)
                             THEN "PIECEWISE" ELSE ModelGraphs
    BY <1>9 DEF StaticGraphs, Block
  <2> SUFFICES ASSUME GraphsCompiled PROVE PiecewiseCompiled'
    BY <2>1
  <2>2. CASE Has("eager") \/ Has("breakable")
    BY <2>1, <2>2 DEF PiecewiseCompiled, HasPiecewise
  <2>3. CASE AsksForCompilation
    BY <2>1, <2>3 DEF PiecewiseCompiled
  <2>4. CASE user.model.runner # "pooling" /\ ~Has("connector")
    BY <2>1, <2>4 DEF PiecewiseCompiled, HasPiecewise, ModelGraphs
  <2> QED
    BY <2>2, <2>3, <2>4 DEF GraphsCompiled, AsksForCompilation
<1>10. CASE Validate
  BY <1>10 DEF Validate, Block, fields, PiecewiseCompiled, HasPiecewise
<1>11. CASE Raise \/ Finish \/ Rebuild \/ StartWorker
  BY <1>11 DEF Raise, Finish, Rebuild, StartWorker, fields
<1>12. CASE UNCHANGED vars
  BY <1>12 DEF vars, fields, PiecewiseCompiled, HasPiecewise
<1> QED
  BY <1>3, <1>4, <1>5, <1>6, <1>7, <1>8, <1>9, <1>10, <1>11, <1>12 DEF Next

(* The assertion at the end of the pass never fails for a user whose model *)
(* gets piecewise graphs only from a block that checks the compilation, or *)
(* who asks for no graphs, breakable ones or a compilation.                *)
THEOREM AssertionNeverFails == Spec => [](GraphsCompiled => AssertionHolds)
<1>1. Init => CompiledInv
  BY UsersAssumption DEF Init, CompiledInv, AsksForCompilation
<1>2. CompiledInv => (GraphsCompiled => AssertionHolds)
  BY DEF CompiledInv, AssertionHolds
<1> QED
  BY <1>1, StaysCompiled, <1>2, PTL DEF Spec
=============================================================================
