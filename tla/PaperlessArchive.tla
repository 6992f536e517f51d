---------------------------- MODULE PaperlessArchive ----------------------------
(***************************************************************************)
(* The Paperless plugin (plugins/paperless/client.go, plugin.go,           *)
(* search.go): a Match or Search resolves its keywords to tags, pages      *)
(* through the documents that carry them, newest first, and lists all tags *)
(* for the labels, while documents are filed, tagged and removed.          *)
(*                                                                         *)
(* The server (external, as the code uses it) numbers its pages over the   *)
(* list as it is at each request: a document that appears shifts what      *)
(* follows towards later pages, one that leaves towards earlier ones, and  *)
(* a page beyond the end is a 404.                                         *)
(***************************************************************************)
EXTENDS Naturals, FiniteSets

CONSTANTS
    LastDoc,            \* documents, numbered by age: a higher one is newer
    PageSize,           \* page_size
    SearchedDocs,       \* those the query of a search finds
    MaxFilings          \* bound: changes of the archive

ArchiveAssumption ==
    /\ LastDoc \in Nat \ {0} /\ PageSize \in Nat \ {0} /\ MaxFilings \in Nat
    /\ SearchedDocs \subseteq 1 .. LastDoc

VARIABLES
    carries,    \* server: the documents that carry the keyword's tag
    tagNamed,   \* server: a tag has the keyword for its name
    paging,     \* the Match or Search call
    filings

vars == <<carries, tagNamed, paging, filings>>

Docs == 1 .. LastDoc

Pagings ==
    [at      : {"idle", "resolve", "page", "tags", "given", "failed"},
     query   : {Docs, SearchedDocs},          \* the documents asked for
     number  : 0 .. LastDoc + 1,              \* the page to ask for
     docs    : SUBSET Docs,
     stirred : SUBSET Docs]                   \* history: filed since the call began

PagingTypeOK ==
    /\ carries \subseteq Docs /\ tagNamed \in BOOLEAN
    /\ paging \in Pagings
    /\ filings \in 0 .. MaxFilings

Unasked == [at |-> "idle", query |-> Docs, number |-> 0, docs |-> {}, stirred |-> {}]

Init ==
    /\ carries \in SUBSET Docs
    /\ tagNamed \in BOOLEAN
    /\ paging = Unasked
    /\ filings = 0

-----------------------------------------------------------------------------
Asking == paging.at \in {"resolve", "page", "tags"}

StartPaging(query) ==
    /\ ~Asking
    /\ paging' = [Unasked EXCEPT !.at = "resolve", !.query = query]
    /\ UNCHANGED <<carries, tagNamed, filings>>

StartMatch  == StartPaging(Docs)
\* Search: the server's own full-text query within the same tags.
StartSearch == StartPaging(SearchedDocs)

\* name__iexact; without a tag there is nothing to list.
ResolveTagIDs ==
    /\ paging.at = "resolve"
    /\ paging' = IF tagNamed THEN [paging EXCEPT !.at = "page", !.number = 1]
                          ELSE [paging EXCEPT !.at = "given"]
    /\ UNCHANGED <<carries, tagNamed, filings>>

\* The server's list, each document at its place, the newest first; its page
\* n, and whether it has a next one.
Listed == carries \cap paging.query
Place(d) == Cardinality({e \in Listed : e >= d})
Beyond(n) == Cardinality(Listed) > n * PageSize
Page(n) == {d \in Listed : Place(d) \in (n - 1) * PageSize + 1 .. n * PageSize}

\* A plausible slip: the rest of the "next" URL is lost with its host.
NextPageLost(n) == 1

\* splitNextURL: the path and query of the server's own "next" URL.
NextPage(n) == n + 1

\* A plausible slip: one page is taken for the list.
OnePage ==
    /\ paging.at = "page"
    /\ paging.number = 1 \/ Page(paging.number) # {}
    /\ paging' = [paging EXCEPT !.at = "tags", !.docs = @ \cup Page(paging.number)]
    /\ UNCHANGED <<carries, tagNamed, filings>>

\* One page of listDocuments; the keyword's tag may have lost its name by now.
ListPage ==
    /\ paging.at = "page"
    /\ paging.number = 1 \/ Page(paging.number) # {}
    /\ LET more == Beyond(paging.number)
       IN  paging' = [paging EXCEPT
              !.docs = @ \cup Page(paging.number),
              !.at = IF more THEN "page" ELSE "tags",
              !.number = IF more THEN NextPage(@) ELSE @]
    /\ UNCHANGED <<carries, tagNamed, filings>>

\* AllTags, and the items.
AllTags ==
    /\ paging.at = "tags"
    /\ paging' = [paging EXCEPT !.at = "given"]
    /\ UNCHANGED <<carries, tagNamed, filings>>

GiveUp ==
    /\ paging' = [paging EXCEPT !.at = "failed", !.docs = {}]
    /\ UNCHANGED <<carries, tagNamed, filings>>

\* The list has become so short that the next page is a 404.
PageGone == paging.at = "page" /\ paging.number > 1 /\ Page(paging.number) = {} /\ GiveUp

\* A request fails, or a document does not parse: nothing of the call is kept.
PagingFails == Asking /\ GiveUp

-----------------------------------------------------------------------------
Filing(D) ==
    /\ filings < MaxFilings /\ filings' = filings + 1
    /\ paging' = [paging EXCEPT !.stirred = @ \cup D]

\* A document is consumed or tagged.
FileDocument(d) ==
    /\ d \notin carries
    /\ carries' = carries \cup {d}
    /\ Filing({d})
    /\ UNCHANGED tagNamed

\* A document is removed or untagged.  What follows it moves up, so any
\* document may be missed by a call in progress.
RemoveDocument(d) ==
    /\ d \in carries
    /\ carries' = carries \ {d}
    /\ Filing(Docs)
    /\ UNCHANGED tagNamed

RenameTag ==
    /\ tagNamed' = ~tagNamed
    /\ Filing(Docs)
    /\ UNCHANGED carries

-----------------------------------------------------------------------------
Step == ResolveTagIDs \/ ListPage \/ PageGone \/ AllTags

Next ==
    \/ StartMatch \/ StartSearch \/ Step \/ PagingFails \/ RenameTag
    \/ \E d \in Docs : FileDocument(d) \/ RemoveDocument(d)

Spec == Init /\ [][Next]_vars

\* The HTTP client's timeout ends every request; a call whose requests
\* succeed goes on to the next.
Fair == WF_vars(Step)

FairSpec == Spec /\ Fair

-----------------------------------------------------------------------------
\* Properties

MembersNow == IF tagNamed THEN carries \cap paging.query ELSE {}
ReplyNow ==
    [state |-> CASE paging.at = "idle" -> "none" [] Asking -> "pending"
                 [] OTHER -> paging.at,
     items |-> IF paging.at = "given" THEN paging.docs ELSE {}]

(***************************************************************************)
(* Match and Search implement the contract of a source while documents are *)
(* added: page by page, no document that was there all along is missing.   *)
(* A document that leaves during the call excuses the call altogether.     *)
(***************************************************************************)
ArchiveContract == INSTANCE SourceContract WITH
    Callers <- {"paging"},
    Items <- Docs,
    members <- [c \in {"paging"} |-> MembersNow],
    stirred <- [c \in {"paging"} |-> paging.stirred],
    reply <- [c \in {"paging"} |-> ReplyNow]

ArchiveAnswers == ArchiveContract!Spec

(***************************************************************************)
(* Pagination follows the server to the end of its list, and ends.         *)
(***************************************************************************)
PagingEnds == []<>~Asking
=============================================================================
