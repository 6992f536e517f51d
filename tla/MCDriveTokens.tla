---------------------------- MODULE MCDriveTokens ----------------------------
(***************************************************************************)
(* Small instances of DriveTokens for TLC.                                 *)
(***************************************************************************)
EXTENDS DriveTokens, TLC

\* Calls differ only in name, and no safety property singles one out.
CallSymmetry == Permutations(Calls)
=============================================================================
