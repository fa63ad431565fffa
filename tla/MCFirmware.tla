------------------------------ MODULE MCFirmware ------------------------------
(* FirmwareUpdate for TLC. *)
EXTENDS FirmwareUpdate
=============================================================================
