--------------------------- MODULE ReviewContract --------------------------
(***************************************************************************)
(* What create_review promises of the review ZIPs in its output            *)
(* directories, to those who run it by hand and to run_m04_cloud.  A ZIP   *)
(* is a review once review.json, its last entry, is in it.  The review of  *)
(* an earlier run is gone before a new one appears; a run leaves at most   *)
(* one, in the directory it was given, exits 0 only if it is there, and 2  *)
(* only if it has left none: in a refused directory the earlier reviews    *)
(* stay, in its own there is none any more.                                *)
(* ReviewPackage.tla, the detailed model, implements it.                   *)
(***************************************************************************)
EXTENDS Integers

CONSTANT Dirs  \* the directories inside of the repository that it may write to

VARIABLES
  number,  \* runs so far
  going,   \* whether the last of them is still running
  place,   \* its output directory
  code,    \* how it ended, "none" before
  shown    \* the run whose review lies in each directory, or 0

promiseVars == <<number, going, place, code, shown>>

PromiseInit ==
  /\ number = 0
  /\ going = FALSE
  /\ place \in Dirs
  /\ code = "none"
  /\ shown = [d \in Dirs |-> 0]

Begin ==
  /\ ~going
  /\ number' = number + 1
  /\ going' = TRUE
  /\ place' \in Dirs
  /\ code' = "none"
  /\ UNCHANGED shown

(* An output directory outside of the repository. *)
Refuse ==
  /\ ~going
  /\ number' = number + 1
  /\ going' = FALSE
  /\ code' = "exit2"
  /\ UNCHANGED shown

(* An earlier review is removed, this run's own never. *)
Withdraw ==
  /\ going
  /\ shown[place] # number
  /\ shown' = [shown EXCEPT ![place] = 0]
  /\ UNCHANGED <<number, going, place, code>>

(* A review never takes the place of one that is still there. *)
Publish ==
  /\ going
  /\ shown[place] = 0
  /\ shown' = [shown EXCEPT ![place] = number]
  /\ UNCHANGED <<number, going, place, code>>

Succeed ==
  /\ going
  /\ shown[place] = number
  /\ going' = FALSE
  /\ code' = "exit0"
  /\ UNCHANGED <<number, place, shown>>

(* A ValueError of a later step is answered with the same code, when the     *)
(* earlier review is gone and the new one is not complete.                   *)
FailLate ==
  /\ going
  /\ shown[place] = 0
  /\ going' = FALSE
  /\ code' = "exit2"
  /\ UNCHANGED <<number, place, shown>>

(* A run that dies leaves its review, if it got so far, or makes it          *)
(* unreadable.                                                               *)
Abort ==
  /\ going
  /\ going' = FALSE
  /\ code' = "raised"
  /\ shown' \in {shown, [shown EXCEPT ![place] = 0]}
  /\ UNCHANGED <<number, place>>

PromiseNext ==
  \/ Begin \/ Refuse
  \/ Withdraw \/ Publish
  \/ Succeed \/ FailLate \/ Abort

PromiseSpec == PromiseInit /\ [][PromiseNext]_promiseVars
=============================================================================
