------------------------------ MODULE DriveContent ------------------------------
(***************************************************************************)
(* What Google Drive's RPCs do around the sync (module DriveSync):         *)
(* requests that are retried until the sync's deadline (driveclient.go),   *)
(* the cause an error is given (driveerror.go), Match's previews, Search's *)
(* paged query of Drive's own index, Fetch's downloads and exports, and    *)
(* Health's probe.  One call is followed; a change of Drive falls between  *)
(* any two of its requests.                                                *)
(***************************************************************************)
EXTENDS Naturals, FiniteSets

CONSTANTS
    DriveItems,         \* files of the user's Drive
    KindOf,             \* see Kinds
    MaxDriveMoves       \* bound: changes of Drive

\* Outgrown: a document whose export exceeds Drive's limit; declined: of a
\* Workspace type without an export; large: above maxFetchBytes.
Kinds == {"regular", "large", "document", "outgrown", "declined"}

ContentAssumption ==
    DriveItems # {} /\ KindOf \in [DriveItems -> Kinds] /\ MaxDriveMoves \in Nat

VARIABLES
    within,     \* files in the configured folder
    found,      \* files Drive's index finds for the search's terms
    rpc,        \* the call
    driveMoves

vars == <<within, found, rpc, driveMoves>>

\* What Drive may answer, as far as it is told apart: 404 is also a 403 for
\* want of permissions, 400 everything without a meaning here.
Statuses == {"404", "429", "5xx", "403 rate", "400"}
Causes   == {"none", "token", "folder inaccessible", "rate limited", "unclassified"}

Calls == [kind : {"match", "search", "fetch", "health"},
          at : {"idle", "token", "request", "pause", "previews", "pages", "content",
                "given", "withheld", "notfound", "failed"},
          file : DriveItems,                        \* Fetch's source id, else unused
          tree : SUBSET DriveItems,                 \* the synced tree
          left : SUBSET DriveItems,                 \* previews, results still to come
          hits : SUBSET DriveItems,
          last : {"none", "context"} \cup Statuses, \* withRetry's lastCallErr
          told : Causes,                            \* the cause in the error
          heard : {"none"} \cup Statuses,           \* history: Drive's last answer
          inside : BOOLEAN, outside : BOOLEAN,      \* history: where file was during the call
          stirred : SUBSET DriveItems]              \* history: changed since the call began

Uncalled == [kind |-> "match", at |-> "idle", file |-> CHOOSE f \in DriveItems : TRUE,
             tree |-> {}, left |-> {}, hits |-> {}, last |-> "none", told |-> "none",
             heard |-> "none", inside |-> FALSE, outside |-> FALSE, stirred |-> {}]

ContentTypeOK ==
    /\ within \subseteq DriveItems /\ found \subseteq DriveItems
    /\ rpc \in Calls
    /\ driveMoves \in 0 .. MaxDriveMoves

Init ==
    /\ within \in SUBSET DriveItems /\ found \in SUBSET DriveItems
    /\ rpc = Uncalled
    /\ driveMoves = 0

-----------------------------------------------------------------------------
\* Errors

\* The set of gax.OnHTTPCodes; a 403 that tells of a rate limit is not in it.
Retryable == {"429", "5xx"}

\* classifyDriveError; a context error has no Drive error in its chain.
Cause(s) == CASE s = "404"                 -> "folder inaccessible"
              [] s \in {"429", "403 rate"} -> "rate limited"
              [] OTHER                     -> "unclassified"

\* Fetch passes the error on as it is.
Told(s) == IF rpc.kind = "fetch" THEN "unclassified" ELSE Cause(s)

Fail(cause) == rpc' = [rpc EXCEPT !.at = "failed", !.told = cause]
Outside == <<within, found, driveMoves>>
Calling == rpc.at \in {"token", "request", "pause", "previews", "pages", "content"}

StartCall(kind, f) ==
    /\ ~Calling
    /\ kind # "fetch" => f = Uncalled.file
    /\ rpc' = [Uncalled EXCEPT !.kind = kind, !.at = "token", !.file = f,
                               !.inside = f \in within, !.outside = f \notin within]
    /\ UNCHANGED Outside

\* ensureTokenState (module DriveTokens) and the configuration.
CheckToken ==
    /\ rpc.at = "token"
    /\ rpc' \in {[rpc EXCEPT !.at = "request"],
                 [rpc EXCEPT !.at = "failed", !.told = "token"]}
    /\ UNCHANGED Outside

\* One of the sync's requests is refused; withRetry repeats it or gives up.
Refuse(s) ==
    /\ rpc.at = "request" /\ rpc.kind # "health"
    /\ rpc' = [rpc EXCEPT !.heard = s, !.last = s,
                          !.at = IF s \in Retryable THEN "pause" ELSE "failed",
                          !.told = IF s \in Retryable THEN @ ELSE Told(s)]
    /\ UNCHANGED Outside

\* Health's probe, one request without a retry.
Probe ==
    /\ rpc.at = "request" /\ rpc.kind = "health"
    /\ \/ rpc' = [rpc EXCEPT !.at = "given"]
       \/ \E s \in Statuses :
             rpc' = [rpc EXCEPT !.at = "failed", !.told = Cause(s), !.heard = s, !.last = s]
    /\ UNCHANGED Outside

Retry ==
    /\ rpc.at = "pause"
    /\ rpc' = [rpc EXCEPT !.at = "request"]
    /\ UNCHANGED Outside

\* A plausible slip: the error of a pause cut short is the context's alone.
DeadlineForgets ==
    /\ rpc.at \in {"request", "pause"}
    /\ rpc' = [rpc EXCEPT !.at = "failed", !.told = "unclassified",
                          !.last = IF rpc.at = "request" THEN "context" ELSE @]
    /\ UNCHANGED Outside

\* The deadline falls.  In a pause, the last Drive error is joined to the
\* context's; in a request, the request's own error is the context's, and
\* replaces it.
Deadline ==
    /\ rpc.at \in {"request", "pause"}
    /\ LET last == IF rpc.at = "request" THEN "context" ELSE rpc.last
       IN  rpc' = [rpc EXCEPT !.at = "failed", !.last = last, !.told = Told(last)]
    /\ UNCHANGED Outside

\* A request of the sync is answered and another follows, with a retry of
\* its own.
NextRequest ==
    /\ rpc.at = "request" /\ rpc.kind # "health"
    /\ rpc' = [rpc EXCEPT !.heard = "none", !.last = "none"]
    /\ UNCHANGED Outside

-----------------------------------------------------------------------------
\* The sync has ended, and the handler goes on with the tree it stored.

\* A plausible slip: the source id is handed to Drive unchecked.
OpenUnchecked(f) == IF KindOf[f] \in {"declined", "large"} THEN "withheld" ELSE "content"

\* fetchItem, before it asks Drive for anything.
Open(f) ==
    IF f \notin within THEN "notfound"
    ELSE IF KindOf[f] \in {"declined", "large"} THEN "withheld" ELSE "content"

Synced ==
    /\ rpc.at = "request" /\ rpc.kind # "health"
    /\ rpc' = [rpc EXCEPT
          !.heard = "none", !.last = "none",
          !.tree = within,
          !.hits = IF rpc.kind = "match" THEN within ELSE {},
          !.left = CASE rpc.kind = "match"  -> within
                     [] rpc.kind = "search" -> DriveItems
                     [] OTHER               -> {},
          !.at = CASE rpc.kind = "match"  -> IF within = {} THEN "given" ELSE "previews"
                   [] rpc.kind = "search" -> IF within = {} THEN "given" ELSE "pages"
                   [] OTHER               -> Open(rpc.file)]
    /\ UNCHANGED Outside

Hand(hits, left) ==
    rpc' = [rpc EXCEPT !.hits = hits, !.left = left,
                       !.at = IF left = {} THEN "given" ELSE @]

\* A plausible slip: an item whose preview fails is not listed.
PreviewOrDrop(f) ==
    /\ rpc.at = "previews" /\ f \in rpc.left
    /\ \E hits \in {rpc.hits, rpc.hits \ {f}} : Hand(hits, rpc.left \ {f})
    /\ UNCHANGED Outside

\* attachPreviews: a failure leaves the preview empty, and the item where it is.
Preview(f) ==
    /\ rpc.at = "previews" /\ f \in rpc.left
    /\ Hand(rpc.hits, rpc.left \ {f})
    /\ UNCHANGED Outside

\* The call is cancelled: the rest goes without.
StopPreviews ==
    /\ rpc.at = "previews"
    /\ Hand(rpc.hits, {})
    /\ UNCHANGED Outside

\* A plausible slip: each page replaces the results before it.
ReadLastPage(page) ==
    /\ rpc.at = "pages" /\ page # {}
    /\ Hand(page \cap rpc.tree \cap found, rpc.left \ page)
    /\ UNCHANGED Outside

\* A page of Drive's results, wherever the files are; the tree's are kept.
ReadPage(page) ==
    /\ rpc.at = "pages" /\ page # {}
    /\ Hand(rpc.hits \cup (page \cap rpc.tree \cap found), rpc.left \ page)
    /\ UNCHANGED Outside

PagesFail(s) ==
    /\ rpc.at = "pages"
    /\ rpc' = [rpc EXCEPT !.at = "failed", !.told = Cause(s), !.heard = s]
    /\ UNCHANGED Outside

\* The download or the export of the whole file.
Download ==
    /\ rpc.at = "content" /\ KindOf[rpc.file] # "outgrown"
    /\ Hand({}, {})
    /\ UNCHANGED Outside

\* A plausible slip: whatever Drive refuses is too large.
RefusedIsCeiling ==
    /\ rpc.at = "content"
    /\ rpc' = [rpc EXCEPT !.at = "withheld"]
    /\ UNCHANGED Outside

\* Drive refuses, or the body breaks off; only the export limit is no error.
DownloadFails ==
    /\ rpc.at = "content"
    /\ \/ Fail("unclassified")
       \/ KindOf[rpc.file] = "outgrown" /\ rpc' = [rpc EXCEPT !.at = "withheld"]
    /\ UNCHANGED Outside

-----------------------------------------------------------------------------
\* The user: a file enters or leaves the folder, is rewritten, is deleted.
ChangeDrive(f) ==
    /\ driveMoves < MaxDriveMoves /\ driveMoves' = driveMoves + 1
    /\ \/ within' = (within \ {f}) \cup ({f} \ within) /\ UNCHANGED found
       \/ found' = (found \ {f}) \cup ({f} \ found) /\ UNCHANGED within
    /\ rpc' = [rpc EXCEPT !.stirred = @ \cup {f},
                          !.inside = @ \/ (Calling /\ rpc.file \in within'),
                          !.outside = @ \/ (Calling /\ rpc.file \notin within')]

Next ==
    \/ \E kind \in {"match", "search", "fetch", "health"}, f \in DriveItems : StartCall(kind, f)
    \/ CheckToken \/ Probe \/ Retry \/ Deadline \/ NextRequest \/ Synced
    \/ \E s \in Statuses : Refuse(s) \/ PagesFail(s)
    \/ \E f \in DriveItems : Preview(f) \/ ChangeDrive(f)
    \/ StopPreviews
    \/ \E page \in SUBSET rpc.left : ReadPage(page)
    \/ Download \/ DownloadFails

Spec == Init /\ [][Next]_vars

-----------------------------------------------------------------------------
\* Properties

(***************************************************************************)
(* Match and Search implement the contract of a source: every file of the  *)
(* folder, whatever becomes of the previews, and of a search every one the *)
(* index finds, page by page, and nothing from elsewhere in the Drive.     *)
(***************************************************************************)
Lists == rpc.kind \in {"match", "search"}

MembersNow == CASE rpc.kind = "match"  -> within
                [] rpc.kind = "search" -> within \cap found
                [] OTHER               -> {}
StirredNow == IF Lists THEN rpc.stirred ELSE {}
ReplyNow ==
    [state |-> IF ~Lists \/ rpc.at = "idle" THEN "none"
               ELSE IF Calling THEN "pending" ELSE rpc.at,
     items |-> IF Lists /\ rpc.at = "given" THEN rpc.hits ELSE {}]

DriveContract == INSTANCE SourceContract WITH
    Callers <- {"rpc"},
    Items <- DriveItems,
    members <- [c \in {"rpc"} |-> MembersNow],
    stirred <- [c \in {"rpc"} |-> StirredNow],
    reply <- [c \in {"rpc"} |-> ReplyNow]

DriveAnswers == DriveContract!Spec

(***************************************************************************)
(* What a call tells is so.  Content comes only from files of the folder,  *)
(* and NotFound only for others; a file is withheld only for what it is,   *)
(* never for a failure that may pass.  And the cause in an error, also of  *)
(* a sync that was retried until its deadline, is the one Drive gave last, *)
(* unless the deadline fell while a request was under way.                 *)
(***************************************************************************)
TellsTruly ==
    /\ rpc.kind = "fetch" /\ rpc.at = "given" => rpc.inside
    /\ rpc.at = "notfound" => rpc.outside
    /\ rpc.at = "withheld" => rpc.inside /\ KindOf[rpc.file] \in {"large", "outgrown", "declined"}
    /\ rpc.at = "failed" /\ rpc.heard # "none" /\ rpc.last # "context" /\ rpc.kind # "fetch" =>
          rpc.told = Cause(rpc.heard)
=============================================================================
