---------------------------- MODULE MCPreflight ----------------------------
(***************************************************************************)
(* Preflight with two digests, so that a tag can move, one host fault that *)
(* stands for all, and the code's three pulls.                             *)
(***************************************************************************)
EXTENDS Preflight

CONSTANTS d1, d2, noOvmf

MCDigests == {d1, d2}
MCFaults == {noOvmf}
=============================================================================
