-------------------------- MODULE MCImagePipeline --------------------------
(***************************************************************************)
(* ImagePipeline with two builders, two base digests, so that the tag can  *)
(* move, and two file names, so that an old QCOW2 can survive a new one.   *)
(***************************************************************************)
EXTENDS ImagePipeline, TLC

CONSTANTS b1, b2, d1, d2, n1, n2

MCBuilders == {b1, b2}
MCDigests == {d1, d2}
MCNames == {n1, n2}
Symmetry == Permutations(MCBuilders) \cup Permutations(MCDigests)
              \cup Permutations(MCNames)
=============================================================================
