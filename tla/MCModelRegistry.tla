--------------------------- MODULE MCModelRegistry ---------------------------
(***************************************************************************)
(* A small registry for model checking ModelRegistry: a model that is one  *)
(* file, one that is a package, and the transformers backend; names that   *)
(* are not registered and that convert, that transformers has, or that     *)
(* nobody knows; two trees of sources that differ in what the module       *)
(* imports.                                                                *)
(***************************************************************************)
EXTENDS ModelRegistry

MCTrees == {[own |-> 1, rest |-> 1], [own |-> 1, rest |-> 2]}
MCTable == [Qwen |-> "qwen", Pack |-> "pack", Trans |-> "trans"]
MCLayout == [qwen |-> "file", pack |-> "package", trans |-> "file", plugin |-> "unknown"]
MCBase == [unset |-> [QwenSeq |-> "Qwen"], none |-> [a \in {} |-> ""]]

Query(archs, impl, convert) == [archs |-> archs, impl |-> impl, convert |-> convert]
MCQueries == {Query(<<"Odd", "Pack">>, "auto", "none"),
              Query(<<"QwenSeq">>, "auto", "unset"),
              Query(<<"Odd">>, "transformers", "none"),
              Query(<<"Custom", "Qwen">>, "terratorch", "none")}
MCPlugins == {[arch |-> "Odd", model |-> [lazy |-> TRUE, class |-> "plugin"]],
              [arch |-> "Qwen", model |-> [lazy |-> FALSE, class |-> "qwen"]]}
=============================================================================
