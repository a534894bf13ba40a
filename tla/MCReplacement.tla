--------------------------- MODULE MCReplacement ---------------------------
(* One file of each kind: METADATA is owned by both RECORDs, the .pth of the *)
(* editable finder by the old one, a package file by the new one.  The      *)
(* wheel's dist-info members sort before its package members.               *)
EXTENDS Replacement, TLC

MCOldFiles == {"METADATA", "pth"}
MCNewFiles == {"METADATA", "package"}
MCRemovalRank == "METADATA" :> 1 @@ "pth" :> 2
MCInstallRank == "METADATA" :> 1 @@ "package" :> 2
=============================================================================
