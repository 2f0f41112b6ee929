--------------------------- MODULE MCBootAttempt ---------------------------
(***************************************************************************)
(* Small instances of BootAttempt: one guest and one firmware marker, a    *)
(* launch grace of five ticks, timeouts from below the grace to a few      *)
(* polling periods beyond it, or only those that leave the main loop time  *)
(* to read the log.                                                        *)
(***************************************************************************)
EXTENDS BootAttempt

CONSTANTS linux, efi

MCGuestMarkers == {linux}
MCFirmwareMarkers == {efi}
MCTimeouts == {2, 8, 9, 12}
MCLongTimeouts == {9, 12}
=============================================================================
