--------------------------- MODULE MCCorpusIngest ----------------------------
(***************************************************************************)
(* CorpusIngest for TLC: a law of two provisions with its first text, an   *)
(* amendment that fails validation, an amendment whose date is not fixed,  *)
(* and one with a provision that occurs twice.                             *)
(***************************************************************************)
EXTENDS CorpusIngest, TLC

CONSTANTS first, amended, announced, doubled, article1, article2

MCPathsOf ==
    (first :> {article1, article2}) @@ (amended :> {article2}) @@
    (announced :> {article1}) @@ (doubled :> {article2})
MCValidFrom == (first :> 1) @@ (amended :> 2) @@ (announced :> 0) @@ (doubled :> 3)
MCClean == {first}
MCDoubled == {doubled}

Symmetry == Permutations(Requests)
=============================================================================
