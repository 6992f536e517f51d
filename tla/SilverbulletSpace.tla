--------------------------- MODULE SilverbulletSpace ---------------------------
(***************************************************************************)
(* The Silverbullet plugin (plugins/silverbullet/plugin.go, search.go,     *)
(* client.go) over a space that is edited meanwhile: a Match or Search     *)
(* lists the space once and reads every page of it through a bounded       *)
(* errgroup, since the server filters nothing; Fetch reads one page.       *)
(***************************************************************************)
EXTENDS Naturals, FiniteSets

CONSTANTS
    Pages,              \* ids of markdown pages: file names without ".md"
    NamedPages,         \* those whose name or last segment is a "pages" value
    MatchConcurrency,   \* matchConcurrency
    MaxEdits            \* bound: edits of the space

SpaceAssumption ==
    /\ Pages # {} /\ NamedPages \subseteq Pages
    /\ MatchConcurrency \in Nat \ {0} /\ MaxEdits \in Nat

VARIABLES
    space,      \* the server: each page's text, by what the properties tell apart
    scan,       \* the Match or Search call
    page,       \* the Fetch call
    current,    \* history: listed by the last answer and not edited since that call began
    edits

vars == <<space, scan, page, current, edits>>

\* "quoted" text carries the tag and the words searched for.
Texts == {"absent", "plain", "tagged", "quoted"}
Scans == [at : {"idle", "listing", "reading", "given", "failed"},
          words : BOOLEAN,              \* a Search
          byTag : BOOLEAN, byName : BOOLEAN,
          todo : SUBSET Pages,          \* candidates whose goroutine has not started
          active : SUBSET Pages,        \* goroutines that read a page
          broken : BOOLEAN,             \* one has failed: gctx is cancelled
          hits : SUBSET Pages,          \* the non-nil slots
          stirred : SUBSET Pages]       \* history: edited since the call began
Unasked == [at |-> "idle", words |-> FALSE, byTag |-> FALSE, byName |-> FALSE, todo |-> {},
            active |-> {}, broken |-> FALSE, hits |-> {}, stirred |-> {}]

NoPage == [at |-> "idle", id |-> CHOOSE p \in Pages : TRUE, sure |-> FALSE]

SpaceTypeOK ==
    /\ space \in [Pages -> Texts]
    /\ scan \in Scans
    /\ Cardinality(scan.active) <= MatchConcurrency
    /\ page \in [at : {"idle", "reading", "notfound"}, id : Pages, sure : BOOLEAN]
    /\ current \subseteq Pages
    /\ edits \in 0 .. MaxEdits

Init ==
    /\ space \in [Pages -> Texts]
    /\ scan = Unasked
    /\ page = NoPage
    /\ current = {}
    /\ edits = 0

-----------------------------------------------------------------------------
Running == scan.at \in {"listing", "reading"}

StartScan(words, byTag, byName) ==
    /\ ~Running /\ (byTag \/ byName)
    /\ scan' = [Unasked EXCEPT !.at = "listing", !.words = words,
                               !.byTag = byTag, !.byName = byName]
    /\ UNCHANGED <<space, page, current, edits>>

StartMatch(byTag, byName)  == StartScan(FALSE, byTag, byName)
\* Search: Match's membership, and the terms in what was read of the page.
StartSearch(byTag, byName) == StartScan(TRUE, byTag, byName)

\* One GET /.fs; an error status, the HTML shell or bad JSON fails the call.
ListFiles ==
    /\ scan.at = "listing"
    /\ \/ scan' = [scan EXCEPT !.at = "reading", !.todo = {p \in Pages : space[p] # "absent"}]
       \/ scan' = [scan EXCEPT !.at = "failed"]
    /\ UNCHANGED <<space, page, current, edits>>

\* A plausible slip: the group has no limit.
StartReadUnlimited(p) ==
    /\ scan.at = "reading" /\ p \in scan.todo
    /\ scan' = [scan EXCEPT !.todo = @ \ {p}, !.active = @ \cup {p}]
    /\ UNCHANGED <<space, page, current, edits>>

\* g.Go blocks while the group is full; it goes on after a failure.
StartRead(p) ==
    /\ scan.at = "reading" /\ p \in scan.todo
    /\ Cardinality(scan.active) < MatchConcurrency
    /\ scan' = [scan EXCEPT !.todo = @ \ {p}, !.active = @ \cup {p}]
    /\ UNCHANGED <<space, page, current, edits>>

\* tagsMatchAnyKeyword or pageNameMatchesAnyKeyword, then searchkit.Matches
Matches(p, text) ==
    /\ \/ scan.byTag /\ text \in {"tagged", "quoted"}
       \/ scan.byName /\ p \in NamedPages
    /\ scan.words => text = "quoted"

\* The page is read as it is now; one that is gone since it was listed is a
\* 404, and is skipped.
ReadPage(p) ==
    /\ p \in scan.active /\ ~scan.broken
    /\ scan' = [scan EXCEPT !.active = @ \ {p},
                            !.hits = IF space[p] # "absent" /\ Matches(p, space[p])
                                       THEN @ \cup {p} ELSE @]
    /\ UNCHANGED <<space, page, current, edits>>

\* A plausible slip: every failure is skipped as a 404 is.
ReadSkipped(p) ==
    /\ p \in scan.active
    /\ scan' = [scan EXCEPT !.active = @ \ {p}]
    /\ UNCHANGED <<space, page, current, edits>>

\* A plausible slip: a failed read does not leave its group.
ReadHangs(p) ==
    /\ p \in scan.active
    /\ scan' = [scan EXCEPT !.broken = TRUE]
    /\ UNCHANGED <<space, page, current, edits>>

\* Every other failure cancels gctx, and with it the reads under way and to come.
ReadFails(p) ==
    /\ p \in scan.active
    /\ scan' = [scan EXCEPT !.active = @ \ {p}, !.broken = TRUE]
    /\ UNCHANGED <<space, page, current, edits>>

\* g.Wait
FinishScan ==
    /\ scan.at = "reading" /\ scan.todo = {} /\ scan.active = {}
    /\ IF scan.broken
         THEN /\ scan' = [scan EXCEPT !.at = "failed", !.hits = {}]
              /\ UNCHANGED current
         ELSE /\ scan' = [scan EXCEPT !.at = "given"]
              /\ current' = scan.hits \ scan.stirred
    /\ UNCHANGED <<space, page, edits>>

-----------------------------------------------------------------------------
\* Fetch, of an item of the last answer.
StartPage(p) ==
    /\ page.at # "reading"
    /\ page' = [at |-> "reading", id |-> p, sure |-> p \in current]
    /\ UNCHANGED <<space, scan, current, edits>>

\* A plausible slip, made once: the id is taken for the file's name.
FileOfBare(id) == <<id, "">>

\* The file an id names: Match stripped ".md", fetchFull puts it back.
FileOf(id) == <<id, ".md">>

Stored(f) == \E p \in Pages : f = <<p, ".md">> /\ space[p] # "absent"

\* ReadFile: the page is rendered, or NotFound; any other failure is Unavailable.
FetchPage ==
    /\ page.at = "reading"
    /\ \/ page' = IF Stored(FileOf(page.id)) THEN NoPage ELSE [page EXCEPT !.at = "notfound"]
       \/ page' = NoPage
    /\ UNCHANGED <<space, scan, current, edits>>

-----------------------------------------------------------------------------
Touch(P) ==
    /\ edits < MaxEdits /\ edits' = edits + 1
    /\ scan' = IF Running THEN [scan EXCEPT !.stirred = @ \cup P] ELSE scan
    /\ current' = current \ P
    /\ page' = [page EXCEPT !.sure = @ /\ page.id \notin P]

\* The user writes, retags or deletes a page.
EditPage(p) ==
    /\ \E t \in Texts \ {space[p]} : space' = [space EXCEPT ![p] = t]
    /\ Touch({p})

RenamePage(p, q) ==
    /\ space[p] # "absent" /\ space[q] = "absent"
    /\ space' = [space EXCEPT ![p] = "absent", ![q] = space[p]]
    /\ Touch({p, q})

-----------------------------------------------------------------------------
Step ==
    \/ ListFiles \/ FinishScan
    \/ \E p \in Pages : StartRead(p) \/ ReadPage(p) \/ ReadFails(p)

Next ==
    \/ \E byTag, byName \in BOOLEAN : StartMatch(byTag, byName) \/ StartSearch(byTag, byName)
    \/ Step \/ FetchPage
    \/ \E p \in Pages : StartPage(p) \/ EditPage(p)
    \/ \E p, q \in Pages : RenamePage(p, q)

Spec == Init /\ [][Next]_vars

\* Goroutines run, and http.Client's timeout ends every request one way or
\* the other.
Fair == WF_vars(Step)

FairSpec == Spec /\ Fair

-----------------------------------------------------------------------------
\* Properties

\* The call as SourceContract has it.
MembersNow == {p \in Pages : space[p] # "absent" /\ Matches(p, space[p])}
ReplyNow ==
    [state |-> IF scan.at = "idle" THEN "none" ELSE IF Running THEN "pending" ELSE scan.at,
     items |-> IF scan.at = "given" THEN scan.hits ELSE {}]

(***************************************************************************)
(* Match and Search implement the contract of a source: no page that       *)
(* stayed as it was during the call is missing, although the pages are     *)
(* read at different times, in any order, and any of them may be gone; and *)
(* an outage after the listing is an error, never an empty answer.         *)
(***************************************************************************)
SpaceContract == INSTANCE SourceContract WITH
    Callers <- {"scan"},
    Items <- Pages,
    members <- [c \in {"scan"} |-> MembersNow],
    stirred <- [c \in {"scan"} |-> scan.stirred],
    reply <- [c \in {"scan"} |-> ReplyNow]

SpaceAnswers == SpaceContract!Spec

(***************************************************************************)
(* A page of the last answer that nobody has edited since that call began  *)
(* opens: Fetch finds the file that Match listed under its id.             *)
(***************************************************************************)
PageOpens == page.at = "notfound" => ~page.sure

(***************************************************************************)
(* Every call ends, whichever reads fail: no goroutine is left behind and  *)
(* none is waited for in vain.                                             *)
(***************************************************************************)
ScanEnds == []<>(~Running /\ scan.active = {})
=============================================================================
