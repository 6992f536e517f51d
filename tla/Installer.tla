------------------------------- MODULE Installer -------------------------------
(***************************************************************************)
(* `make install` and `make uninstall` (scripts/install.sh, uninstall.sh)  *)
(* over one directory of plugins: stage, verify, copy, rename, retire what *)
(* an older release placed, remove its evidence.  Any step may fail, the   *)
(* script may be killed between any two, another release may be chosen     *)
(* next, and the operator may put a binary of his own under a plugin's     *)
(* name.  One script runs at a time: nothing in them would hold off a      *)
(* second one.                                                             *)
(*                                                                         *)
(* A release's manifest is the file that names its tag, and vouches for    *)
(* the binaries with the release's own bytes while its signature is there. *)
(***************************************************************************)
EXTENDS FiniteSets, Naturals

CONSTANTS
    Releases, NoRelease,
    Binaries,           \* topos-plugin-* names
    Publishes,          \* the names each release publishes
    MaxMishaps          \* bound: kills, failures, the operator's replacements

InstallerAssumption ==
    /\ NoRelease \notin Releases
    \* tags, names and the marks of the model are told apart
    /\ Releases \cap {"absent", "own", "unverified"} = {}
    /\ Binaries \cap {"manifest", "signature", "nothing"} = {}
    /\ Publishes \in [Releases -> SUBSET Binaries]
    /\ MaxMishaps \in Nat

VARIABLES
    placed,     \* $PLUGINS_DIR: whose bytes each name holds
    manifests,  \* and the releases whose manifest,
    sigs,       \* and whose signature is there
    script,     \* install.sh or uninstall.sh, as far as it is
    serving,    \* history: the release whose fleet has been complete, until another is placed
    orphans,    \* history: names whose release was cut short before its evidence was whole
    stranded,   \* history: releases whose signature is left without the manifest it went with
    mishaps

vars == <<placed, manifests, sigs, script, serving, orphans, stranded, mishaps>>

Bytes  == {"absent", "own", "unverified"} \cup Releases
Assets == Binaries \cup {"manifest", "signature"}

InstallTypeOK ==
    /\ placed \in [Binaries -> Bytes]
    /\ manifests \subseteq Releases /\ sigs \subseteq Releases
    /\ script.at \in {"idle", "stage", "checksums", "provenance", "copy", "rename", "retire",
                      "evidence", "done", "failed", "uninstall"}
    /\ script.tag \in Releases \cup {NoRelease}
    /\ script.payload \in {"genuine", "damaged", "unsigned"}    \* what was downloaded
    /\ script.todo \subseteq Assets                \* assets, then names, still to be handled
    /\ script.owned \in Binaries \cup {"nothing"}  \* authenticated, to be removed
    /\ script.older \subseteq Releases             \* OLDER_MANIFESTS
    /\ script.touched \subseteq Binaries           \* history: replaced during the run
    /\ serving \in Releases \cup {NoRelease}
    /\ orphans \subseteq Binaries
    /\ stranded \subseteq Releases
    /\ mishaps \in 0 .. MaxMishaps

Idle == [at |-> "idle", tag |-> NoRelease, payload |-> "genuine", todo |-> {},
         owned |-> "nothing", older |-> {}, touched |-> {}]

Init ==
    /\ placed = [b \in Binaries |-> "absent"]
    /\ manifests = {} /\ sigs = {}
    /\ script = Idle
    /\ serving = NoRelease
    /\ orphans = {} /\ stranded = {}
    /\ mishaps = 0

-----------------------------------------------------------------------------
Busy == script.at \notin {"idle", "done", "failed"}
Directory == <<placed, manifests, sigs>>
Whole(r)  == r \in manifests \cap sigs
Goto(l) == script' = [script EXCEPT !.at = l]

\* The release is the selected tag's; preflight only looks.
StartInstall(r) ==
    /\ ~Busy
    /\ script' = [Idle EXCEPT !.at = "stage", !.tag = r]
    /\ UNCHANGED <<Directory, serving, orphans, stranded, mishaps>>

\* checksums.txt and every asset it lists, into a directory of its own.  A
\* list without exactly one manifest pair is refused here.
Stage ==
    /\ script.at = "stage"
    /\ \E p \in {"genuine", "damaged", "unsigned"} :
          script' = [script EXCEPT !.at = "checksums", !.payload = p]
    /\ UNCHANGED <<Directory, serving, orphans, stranded, mishaps>>

VerifyChecksums ==
    /\ script.at = "checksums"
    /\ Goto(IF script.payload = "damaged" THEN "failed" ELSE "provenance")
    /\ UNCHANGED <<Directory, serving, orphans, stranded, mishaps>>

\* topos-provenance verify, and the pre-check of the destinations.
VerifyProvenance ==
    /\ script.at = "provenance"
    /\ script' = IF script.payload = "unsigned" THEN [script EXCEPT !.at = "failed"]
                  ELSE [script EXCEPT
                          !.at = "copy",
                          !.todo = Publishes[script.tag] \cup {"manifest", "signature"}]
    /\ UNCHANGED <<Directory, serving, orphans, stranded, mishaps>>

\* A file of the release reaches its name.
Put(a) ==
    /\ placed' = IF a \in Binaries
                   THEN [placed EXCEPT ![a] = IF script.payload = "genuine" THEN script.tag
                                                                             ELSE "unverified"]
                   ELSE placed
    /\ manifests' = IF a = "manifest" THEN manifests \cup {script.tag} ELSE manifests
    /\ sigs' = IF a = "signature" THEN sigs \cup {script.tag} ELSE sigs
    /\ orphans' = (orphans \ {a}) \ (IF script.tag \in manifests' \cap sigs'
                                       THEN {b \in Binaries : placed'[b] = script.tag} ELSE {})
    /\ stranded' = stranded \ manifests'

\* The order of PLACE_SET: binaries, the manifest, its signature.
Turn(a) ==
    /\ a \in script.todo
    /\ a = "manifest" => script.todo \cap Binaries = {}
    /\ a = "signature" => script.todo = {"signature"}

\* A plausible slip: files are copied straight to their names.
CopyDirectly(a) ==
    /\ script.at = "copy" /\ Turn(a)
    /\ Put(a)
    /\ script' = [script EXCEPT
          !.todo = IF @ = {a} THEN Publishes[script.tag] \cup {"manifest", "signature"}
                              ELSE @ \ {a},
          !.at = IF script.todo = {a} THEN "rename" ELSE @]
    /\ UNCHANGED <<serving, mishaps>>

\* The copy pass: temporary names in the destination directory.
Copy(a) ==
    /\ script.at = "copy" /\ Turn(a)
    /\ script' = [script EXCEPT
          !.todo = IF @ = {a} THEN Publishes[script.tag] \cup {"manifest", "signature"}
                              ELSE @ \ {a},
          !.at = IF script.todo = {a} THEN "rename" ELSE @]
    /\ UNCHANGED <<Directory, serving, orphans, stranded, mishaps>>

\* RETIRE_CANDIDATES: what older manifests name and this release does not publish.
Older == manifests \ {script.tag}
RetireCandidates == (UNION {Publishes[r] : r \in Older}) \ Publishes[script.tag]

\* The rename pass, and the candidates as the directory then stands.
Rename(a) ==
    /\ script.at = "rename" /\ Turn(a)
    /\ Put(a)
    /\ script' = IF script.todo = {a}
                    THEN [script EXCEPT !.at = "retire", !.older = Older,
                                         !.todo = RetireCandidates]
                    ELSE [script EXCEPT !.todo = @ \ {a}]
    /\ serving' = IF script.tag = serving THEN serving ELSE NoRelease
    /\ UNCHANGED mishaps

\* A plausible slip: that an older manifest names it is enough.
OwnedByName(b) == script.older # {}

\* The verifier finds an older release's manifest that vouches for the bytes.
Owned(b) == \E r \in script.older : Whole(r) /\ b \in Publishes[r] /\ placed[b] = r

\* A candidate is authenticated, or left in place and reported.
Authenticate(b) ==
    /\ script.at = "retire" /\ script.owned = "nothing" /\ b \in script.todo
    /\ script' = [script EXCEPT !.todo = @ \ {b}, !.owned = IF Owned(b) THEN b ELSE "nothing"]
    /\ UNCHANGED <<Directory, serving, orphans, stranded, mishaps>>

Retire ==
    /\ script.at = "retire" /\ script.owned # "nothing"
    /\ placed' = [placed EXCEPT ![script.owned] = "absent"]
    /\ script' = [script EXCEPT !.owned = "nothing"]
    /\ UNCHANGED <<manifests, sigs, serving, orphans, stranded, mishaps>>

AllRetired ==
    /\ script.at = "retire" /\ script.owned = "nothing" /\ script.todo = {}
    /\ Goto("evidence")
    /\ UNCHANGED <<Directory, serving, orphans, stranded, mishaps>>

\* rm -f of a manifest and its signature, one pair after another: two unlinks.
RemoveManifest(r) ==
    /\ script.at = "evidence" /\ script.older \subseteq manifests /\ r \in script.older
    /\ manifests' = manifests \ {r}
    /\ UNCHANGED <<placed, sigs, script, serving, orphans, stranded, mishaps>>

\* A plausible slip: the manifests go and their signatures are forgotten.
ForgetSignature(r) ==
    /\ script.at = "evidence" /\ r \in script.older \ manifests
    /\ script' = [script EXCEPT !.older = @ \ {r}]
    /\ UNCHANGED <<Directory, serving, orphans, stranded, mishaps>>

RemoveSignature(r) ==
    /\ script.at = "evidence" /\ r \in script.older \ manifests
    /\ sigs' = sigs \ {r}
    /\ script' = [script EXCEPT !.older = @ \ {r}]
    /\ UNCHANGED <<placed, manifests, serving, orphans, stranded, mishaps>>

Finish ==
    /\ script.at = "evidence" /\ script.older = {}
    /\ Goto("done")
    /\ serving' = IF script.touched = {} THEN script.tag ELSE NoRelease
    /\ UNCHANGED <<Directory, orphans, stranded, mishaps>>

-----------------------------------------------------------------------------
\* uninstall.sh

StartUninstall ==
    /\ ~Busy
    /\ script' = [Idle EXCEPT !.at = "uninstall"]
    /\ serving' = NoRelease
    /\ UNCHANGED <<Directory, orphans, stranded, mishaps>>

Left == {b \in Binaries : placed[b] # "absent"}

\* The order of the loop: every binary, the manifests, the signatures.
Unlink ==
    /\ script.at = "uninstall"
    /\ \/ /\ \E b \in Left : placed' = [placed EXCEPT ![b] = "absent"]
          /\ UNCHANGED <<manifests, sigs>>
       \/ /\ Left = {}
          /\ \E r \in manifests : manifests' = manifests \ {r}
          /\ UNCHANGED <<placed, sigs>>
       \/ /\ Left = {} /\ manifests = {}
          /\ \E r \in sigs : sigs' = sigs \ {r}
          /\ UNCHANGED <<placed, manifests>>
    /\ stranded' = stranded \cap sigs'
    /\ UNCHANGED <<script, serving, orphans, mishaps>>

Uninstalled ==
    /\ script.at = "uninstall" /\ Left = {} /\ manifests = {} /\ sigs = {}
    /\ script' = Idle
    /\ UNCHANGED <<Directory, serving, orphans, stranded, mishaps>>

-----------------------------------------------------------------------------
Mishap == mishaps < MaxMishaps /\ mishaps' = mishaps + 1

\* Cut short: what the release has placed so far may be without its evidence,
\* and a signature may have outlived its manifest, which OLDER_MANIFESTS and so
\* every later install goes by.
CutShort(l) ==
    /\ Busy /\ Mishap
    /\ script' = [Idle EXCEPT !.at = l]
    /\ orphans' = IF Whole(script.tag) THEN orphans
                  ELSE orphans \cup {b \in Binaries : placed[b] = script.tag}
    /\ stranded' = sigs \ manifests
    /\ UNCHANGED <<Directory, serving>>

\* set -e, and the trap that removes the temporary copies.
Fails == script.at # "uninstall" /\ CutShort("failed")

\* A signal no trap sees, or a power cut; the copies stay under their
\* temporary names, which nothing looks at.
Kill == CutShort("idle")

\* The operator puts a file of his own there.
Replace(b) ==
    /\ placed[b] # "own" /\ Mishap
    /\ placed' = [placed EXCEPT ![b] = "own"]
    /\ script' = [script EXCEPT !.touched = @ \cup {b}]
    /\ serving' = NoRelease
    /\ orphans' = orphans \ {b}
    /\ UNCHANGED <<manifests, sigs, stranded>>

-----------------------------------------------------------------------------
Next ==
    \/ \E r \in Releases : StartInstall(r) \/ RemoveManifest(r) \/ RemoveSignature(r)
    \/ Stage \/ VerifyChecksums \/ VerifyProvenance
    \/ \E a \in Assets : Copy(a) \/ Rename(a)
    \/ \E b \in Binaries : Authenticate(b) \/ Replace(b)
    \/ Retire \/ AllRetired \/ Finish
    \/ StartUninstall \/ Unlink \/ Uninstalled
    \/ Fails \/ Kill

Spec == Init /\ [][Next]_vars

-----------------------------------------------------------------------------
\* Properties

(***************************************************************************)
(* A finished run leaves exactly the selected release's fleet and          *)
(* evidence, whatever runs were cut short before it: one manifest, its     *)
(* signature and no other, every plugin of its own with its own verified   *)
(* bytes, and none of an older release.  With three exceptions: what the   *)
(* operator has put there meanwhile; the plugins a release left behind     *)
(* that was cut short before its evidence was whole (nothing tells whose   *)
(* they are); and the signature of an older release whose manifest was     *)
(* removed by a run cut short between the two unlinks (install.sh:435,     *)
(* uninstall.sh:41), since older evidence is looked for by its manifest    *)
(* (line 396).  In this last case install.sh:66-69 and 390-392, which say  *)
(* that exactly the selected release's evidence remains, do not hold; only *)
(* an uninstall, or installing that very release again, ends it.           *)
(***************************************************************************)
InstallConverges ==
    script.at = "done" =>
        /\ manifests = {script.tag} /\ sigs \ stranded = {script.tag}
        /\ \A b \in Binaries \ script.touched :
              IF b \in Publishes[script.tag] THEN placed[b] = script.tag
              ELSE placed[b] \in {"absent", "own"} \/ b \in orphans

(***************************************************************************)
(* A file of the operator's own goes only for a release that publishes its *)
(* name, or with `make uninstall`; retiring a plugin never removes one     *)
(* that was there when the run began.                                      *)
(***************************************************************************)
OwnFilesStay ==
    [][\A b \in Binaries : placed[b] = "own" /\ placed'[b] # "own" =>
          \/ script.at = "uninstall"
          \/ script.tag # NoRelease /\ b \in Publishes[script.tag]
          \/ b \in script.touched]_vars

(***************************************************************************)
(* A complete fleet stays launchable, every plugin with bytes its manifest *)
(* vouches for, through every run that fails or is killed before it places *)
(* anything, and through every run of the same release.                    *)
(***************************************************************************)
StaysLaunchable ==
    serving # NoRelease =>
        Whole(serving) /\ \A b \in Publishes[serving] : placed[b] = serving
=============================================================================
