---------------------------- MODULE MCDriveSync ----------------------------
(* Instances of DriveSync for TLC.                                         *)
EXTENDS DriveSync
=============================================================================
