-------------------------- MODULE MCReviewPackage --------------------------
(***************************************************************************)
(* ReviewPackage with two of the four fast gates and the preflight, with   *)
(* the manifest, another selected file and an excluded one, and with an    *)
(* output directory outside of the repository, one apart from the sources, *)
(* and one that is a source directory itself.                              *)
(***************************************************************************)
EXTENDS ReviewPackage

CONSTANTS manifest, doc, cached

MCFiles == {manifest, doc, cached}
MCListed == MCFiles
MCExcluded == {cached}
MCOutDirs == {".review", "docs", "/tmp/review"}
MCInRoot == {".review", "docs"}
MCQualitySpecs == <<"test", "typecheck", "builder-preflight">>
MCBelow == [d \in MCOutDirs |-> IF d = "docs" THEN {doc} ELSE {}]
=============================================================================
