---------------------------- MODULE MCBootSmoke ----------------------------
(***************************************************************************)
(* BootSmoke with three OVMF pairs, two of which have CODE files of the    *)
(* same name in different directories, and listings that repeat a static   *)
(* pair or add the third.                                                  *)
(***************************************************************************)
EXTENDS BootSmoke

CONSTANTS p1, p2, p3

MCStaticPairs == <<p1, p2>>
MCFoundListings == {<<>>, <<p2, p3>>}
MCCodeName == (p1 :> "OVMF_CODE.fd") @@ (p2 :> "OVMF_CODE_4M.fd")
                                     @@ (p3 :> "OVMF_CODE.fd")
=============================================================================
