---------------------------- MODULE FilesystemWalk ----------------------------
(***************************************************************************)
(* The filesystem plugin (plugins/filesystem/walk.go, scope.go,            *)
(* classify.go, item.go, plugin.go, fetch.go, search.go) over a directory  *)
(* that changes while it is walked: a Match or Search walks it and answers *)
(* with the files in scope, Fetch decides again for one of them.           *)
(*                                                                         *)
(* A path is a member of Files, and the things its text decides (its       *)
(* folder, a leading dot, a known extension) are constants.  WalkDir's     *)
(* order is left open.                                                     *)
(***************************************************************************)
EXTENDS Naturals, FiniteSets

CONSTANTS
    Folders, Top,       \* directories, and the configured root
    PathTo,             \* the directories from the root to each one, both included
    Files, FolderOf,    \* files and symbolic links to files
    DotFolders, DotFiles,
    KnownFiles,         \* those whose extension is in extensionTable
    ShownFiles,         \* and has a preview of its own
    SearchedFiles,      \* those the terms of a search select
    Configs,            \* the recursive, include_glob and exclude_glob settings tried
    MaxWalkItems,       \* maxWalkItems
    MaxTouches          \* bound: changes of the directory

WalkAssumption ==
    /\ Top \in Folders /\ FolderOf \in [Files -> Folders]
    /\ PathTo \in [Folders -> SUBSET Folders]
    /\ \A d \in Folders : {Top, d} \subseteq PathTo[d]
    \* a tree: on the way to a folder, each one has the next below it
    /\ PathTo[Top] = {Top}
    /\ \A d \in Folders : \A e \in PathTo[d] \ {d} :
          \E n \in PathTo[d] \ {e} : PathTo[n] = PathTo[e] \cup {n}
    /\ KnownFiles \subseteq Files /\ ShownFiles \subseteq KnownFiles
    /\ SearchedFiles \subseteq Files
    /\ Configs \subseteq [recursive : BOOLEAN, globbed : BOOLEAN, include : SUBSET Files,
                          exclude : SUBSET Files]
    /\ MaxWalkItems \in Nat /\ MaxTouches \in Nat

VARIABLES
    config,     \* this instance's settings; globbed: an include_glob is declared
    present,    \* the files that exist
    outside,    \* those that are symbolic links leaving the root
    readable,   \* the directories the plugin may read
    mounted,
    walking,    \* the Match or Search call
    fetched,    \* the result of the last Fetch
    listed,     \* history: in the last answer, and untouched since that call began
    touches

vars == <<config, present, outside, readable, mounted, walking, fetched, listed, touches>>

Walks == [at : {"idle", "root", "walk", "given", "failed"},
          labels : SUBSET Folders,      \* the folder labels asked for
          query : {Files, SearchedFiles},   \* the files asked for
          dirs : SUBSET Folders,        \* still to be read
          entries : SUBSET Files,       \* read from a directory, still to be visited
          results : SUBSET Files,
          stirred : SUBSET Files]       \* history: touched since the call began
NoWalk == [at |-> "idle", labels |-> {}, query |-> Files, dirs |-> {}, entries |-> {},
           results |-> {}, stirred |-> {}]
NoFetch == [result |-> "none", sure |-> FALSE]

WalkTypeOK ==
    /\ config \in Configs
    /\ present \subseteq Files /\ outside \subseteq Files /\ readable \subseteq Folders
    /\ mounted \in BOOLEAN
    /\ walking \in Walks
    /\ fetched \in [result : {"none", "shown", "metadata", "notfound", "refused"},
                    sure : BOOLEAN]
    /\ listed \subseteq Files
    /\ touches \in 0 .. MaxTouches

Init ==
    /\ config \in Configs
    /\ present \in SUBSET Files
    /\ outside = {}
    /\ readable = Folders
    /\ mounted = TRUE
    /\ walking = NoWalk
    /\ fetched = NoFetch
    /\ listed = {}
    /\ touches = 0

-----------------------------------------------------------------------------
\* Scope

Hidden(f) == f \in DotFiles \/ PathTo[FolderOf[f]] \cap DotFolders # {}

\* scope.includes: exclude first, then the declared include patterns, which
\* replace the extension test, then the extension.
Includes(f) ==
    /\ f \notin config.exclude
    /\ f \in IF config.globbed THEN config.include ELSE KnownFiles

\* walk's rule for a candidate: a hidden one needs a pattern of its own.
Candidate(f) ==
    /\ Hidden(f) => config.globbed /\ f \in config.include
    /\ Includes(f)

\* folderLabels: the root and every directory down to the file.
Labels(f) == PathTo[FolderOf[f]]

-----------------------------------------------------------------------------
\* Match and Search

Walking == walking.at \in {"root", "walk"}

\* The call ends with an error, and with nothing of what it found.
Abandoned == [NoWalk EXCEPT !.at = "failed", !.labels = walking.labels,
                            !.query = walking.query, !.stirred = walking.stirred]

Env == <<config, present, outside, readable, mounted, touches>>

StartWalk(labels, query) ==
    /\ ~Walking
    /\ walking' = [NoWalk EXCEPT !.at = "root", !.labels = labels, !.query = query]
    /\ fetched' = NoFetch
    /\ UNCHANGED <<Env, listed>>

StartMatch(labels)  == StartWalk(labels, Files)
\* Search: the same walk, and then the terms.
StartSearch(labels) == StartWalk(labels, SearchedFiles)

\* os.Stat and resolveRoot
StatRoot ==
    /\ walking.at = "root"
    /\ walking' = IF mounted THEN [walking EXCEPT !.at = "walk", !.dirs = {Top}]
                             ELSE Abandoned
    /\ UNCHANGED <<Env, fetched, listed>>

\* A directory is not descended into without recursion, nor a hidden one
\* without patterns.
Descends(d) == config.recursive /\ (d \in DotFolders => config.globbed)
Subfolders(d) == {e \in Folders \ {d} : PathTo[e] = PathTo[d] \cup {e}}

\* An unreadable directory is skipped, but the root fails the walk.
ReadDir(d) ==
    /\ walking.at = "walk" /\ d \in walking.dirs
    /\ walking' =
          IF mounted /\ d \in readable
            THEN [walking EXCEPT
                    !.dirs = (@ \ {d}) \cup {e \in Subfolders(d) : Descends(e)},
                    !.entries = @ \cup {f \in present : FolderOf[f] = d}]
            ELSE IF d = Top THEN Abandoned
                            ELSE [walking EXCEPT !.dirs = @ \ {d}]
    /\ UNCHANGED <<Env, fetched, listed>>

\* The file system lets the plugin reach it.
Accessible(f) == mounted /\ PathTo[FolderOf[f]] \subseteq readable

\* A file that is gone or out of reach, or whose link dangles or leaves the
\* root, is skipped for this sync.
Kept(f) == Accessible(f) /\ f \in present \ outside /\ Candidate(f)

\* A plausible slip: what exceeds the cap is left out.
VisitTruncates(f) ==
    /\ walking.at = "walk" /\ f \in walking.entries
    /\ walking' = [walking EXCEPT
          !.entries = @ \ {f},
          !.results = IF Kept(f) /\ Cardinality(@) < MaxWalkItems THEN @ \cup {f} ELSE @]
    /\ UNCHANGED <<Env, fetched, listed>>

\* One entry; a set beyond the cap is an error.
Visit(f) ==
    /\ walking.at = "walk" /\ f \in walking.entries
    /\ walking' =
          IF ~Kept(f) THEN [walking EXCEPT !.entries = @ \ {f}]
          ELSE IF Cardinality(walking.results) >= MaxWalkItems
            THEN Abandoned
          ELSE [walking EXCEPT !.entries = @ \ {f}, !.results = @ \cup {f}]
    /\ UNCHANGED <<Env, fetched, listed>>

\* labelMatchesAny, the terms, and the answer.
FinishWalk ==
    /\ walking.at = "walk" /\ walking.dirs = {} /\ walking.entries = {}
    /\ LET members == {f \in walking.results \cap walking.query :
                        Labels(f) \cap walking.labels # {}}
       IN  /\ walking' = [walking EXCEPT !.at = "given", !.results = members]
           /\ listed' = members \ walking.stirred
    /\ UNCHANGED <<Env, fetched>>

\* The caller's context ends.
CancelWalk ==
    /\ Walking
    /\ walking' = Abandoned
    /\ UNCHANGED <<Env, fetched, listed>>

-----------------------------------------------------------------------------
\* Fetch

\* resolvePath: a file that is not there is told from one that may not be read.
Resolves(f) ==
    IF ~mounted THEN "notfound"
    ELSE IF ~Accessible(f) THEN "refused"
    ELSE IF f \notin present THEN "notfound"
    ELSE IF f \in outside THEN "refused" ELSE "found"

\* The rendition of each kind of file.
Rendition(f) == IF f \in ShownFiles THEN "shown" ELSE "metadata"

\* A plausible slip: the extension alone decides.
FetchByExtension(f) ==
    /\ walking.at = "given" /\ f \in walking.results
    /\ fetched' = [sure |-> f \in listed,
                   result |-> IF Resolves(f) # "found" THEN Resolves(f)
                              ELSE IF f \in KnownFiles THEN Rendition(f) ELSE "notfound"]
    /\ UNCHANGED <<Env, walking, listed>>

\* fetchByKind: resolvePath, the scope again, then the kind; resolving and
\* opening are taken in one step.
Fetch(f) ==
    /\ walking.at = "given" /\ f \in walking.results
    /\ fetched' = [sure |-> f \in listed,
                   result |-> IF Resolves(f) # "found" THEN Resolves(f)
                              ELSE IF Includes(f) THEN Rendition(f) ELSE "notfound"]
    /\ UNCHANGED <<Env, walking, listed>>

-----------------------------------------------------------------------------
\* The directory

Touch(F) ==
    /\ touches < MaxTouches /\ touches' = touches + 1
    /\ walking' = IF Walking THEN [walking EXCEPT !.stirred = @ \cup F] ELSE walking
    /\ listed' = listed \ F
    /\ fetched' = NoFetch
    /\ UNCHANGED <<config, mounted>>

CreateOrRemove(f) ==
    /\ present' = IF f \in present THEN present \ {f} ELSE present \cup {f}
    /\ outside' = outside \ {f}
    /\ Touch({f})
    /\ UNCHANGED readable

\* A file is replaced by a link to a place outside the root.
LinkOutside(f) ==
    /\ f \in present \ outside
    /\ outside' = outside \cup {f}
    /\ Touch({f})
    /\ UNCHANGED <<present, readable>>

Chmod(d) ==
    /\ readable' = IF d \in readable THEN readable \ {d} ELSE readable \cup {d}
    /\ Touch({f \in Files : d \in PathTo[FolderOf[f]]})
    /\ UNCHANGED <<present, outside>>

\* The network mount goes away, with everything on it as it was.  Once the
\* root has been read the walk takes that for files being removed.
Unmount ==
    /\ mounted
    /\ mounted' = FALSE
    /\ walking' = IF walking.at = "walk" /\ Top \notin walking.dirs
                    THEN [walking EXCEPT !.stirred = Files] ELSE walking
    /\ listed' = {}
    /\ UNCHANGED <<config, present, outside, readable, fetched, touches>>

-----------------------------------------------------------------------------
Step ==
    \/ StatRoot \/ FinishWalk
    \/ \E d \in Folders : ReadDir(d)
    \/ \E f \in Files : Visit(f)

Next ==
    \/ Step \/ CancelWalk \/ Unmount
    \/ \E labels \in SUBSET Folders \ {{}} : StartMatch(labels) \/ StartSearch(labels)
    \/ \E f \in Files : Fetch(f) \/ CreateOrRemove(f) \/ LinkOutside(f)
    \/ \E d \in Folders : Chmod(d)

Spec == Init /\ [][Next]_vars

-----------------------------------------------------------------------------
\* Properties

\* What a walk should find: the visible files in scope of the folders asked for.
Visible(f) ==
    /\ f \in present \ outside /\ Candidate(f)
    /\ PathTo[FolderOf[f]] \subseteq readable
    /\ config.recursive \/ FolderOf[f] = Top

MembersNow == {f \in walking.query : Visible(f) /\ Labels(f) \cap walking.labels # {}}
ReplyNow ==
    [state |-> CASE walking.at = "idle" -> "none" [] Walking -> "pending"
                 [] OTHER -> walking.at,
     items |-> IF walking.at = "given" THEN walking.results ELSE {}]

(***************************************************************************)
(* walk.go: the complete current set, never a partial one.  Match          *)
(* implements the contract of a source although files come and go, turn    *)
(* into links, and directories are locked while it is under way; a set     *)
(* beyond the cap is an error, and so is a mount that is gone before the   *)
(* root has been read.                                                     *)
(***************************************************************************)
WalkContract == INSTANCE SourceContract WITH
    Callers <- {"walk"},
    Items <- Files,
    members <- [c \in {"walk"} |-> MembersNow],
    stirred <- [c \in {"walk"} |-> walking.stirred],
    reply <- [c \in {"walk"} |-> ReplyNow]

WalkAnswers == WalkContract!Spec

(***************************************************************************)
(* A file of the last answer that is still as it was opens: Fetch judges   *)
(* it by the scope Match judged it by, patterns included.                  *)
(***************************************************************************)
FileOpens == fetched.result \in {"notfound", "refused"} => ~fetched.sure
=============================================================================
