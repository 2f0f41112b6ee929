----------------------------- MODULE MCCloudRun -----------------------------
(***************************************************************************)
(* CloudRun with the code's gate plan and the exit codes that the gates'   *)
(* commands return: 0, 1, 2 (blocked) and 125 (podman itself failed).      *)
(***************************************************************************)
EXTENDS CloudRun

MCGatePlan == <<"ci", "builder-preflight", "build-image", "image-check",
                "build-qcow2", "artifact-metadata", "boot-smoke">>
MCExitCodes == {0, 1, 2, 125}
=============================================================================
