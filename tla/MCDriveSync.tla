----------------------------- MODULE MCDriveSync -----------------------------
(***************************************************************************)
(* Small instances of DriveSync for TLC.                                   *)
(***************************************************************************)
EXTENDS DriveSync, TLC

\* Calls differ only in name, and no property singles one out.
CallSymmetry == Permutations(Calls)

\* The instance's files and folders.
CONSTANTS d1, f1, f2, r1

\* One folder with one file in it.
NestedDrive == {(d1 :> f1) @@ (f1 :> r1)}

\* A folder within a folder.
NestedFolders == {(f2 :> f1) @@ (f1 :> r1)}

\* A folder within a folder, and a file beside them.
FileAndFolders == {(f2 :> f1) @@ (f1 :> r1) @@ (d1 :> r1)}

\* Drive changes only between the first sync and the second, with no request
\* under way, and forgets nothing.
OneWindow ==
  /\ Next
  /\ UNCHANGED oldest
  /\ log' # log => mu = NoCall /\ file \in SyncStates /\ file.via = "walk"

OneWindowSpec == Init /\ [][OneWindow]_vars
=============================================================================
