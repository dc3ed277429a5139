---------------------------- MODULE MCDriveUpload ----------------------------
(* Instances of DriveUpload for TLC. *)
EXTENDS DriveUpload, TLC
=============================================================================
