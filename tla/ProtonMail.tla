------------------------------ MODULE ProtonMail ------------------------------
(***************************************************************************)
(* The Proton Mail plugin (plugins/proton/plugin.go, search.go, client.go) *)
(* over one Bridge: Match and Search calls that examine the member         *)
(* mailboxes one after the other, the cache from message to mailbox they   *)
(* share, and Fetch, which looks a message up in it.  The user moves       *)
(* messages meanwhile, and the plugin's process may be restarted.          *)
(*                                                                         *)
(* A message stands for its Message-Id (messages without one are skipped), *)
(* and is filed under every mailbox that lists it: Proton's labels are     *)
(* mailboxes too.                                                          *)
(***************************************************************************)
EXTENDS Naturals, FiniteSets

CONSTANTS
    Mails, Mailboxes, NoMailbox,
    Listers,            \* Match or Search calls that may overlap
    MaxMailMoves,       \* bound: moves and restarts
    MaxMailCalls        \* bound: calls

MailAssumption ==
    /\ Mails # {} /\ NoMailbox \notin Mailboxes
    /\ MaxMailMoves \in Nat /\ MaxMailCalls \in Nat

VARIABLES
    filed,          \* Bridge: the mailboxes that list each message
    mailboxCache,   \* SourcePlugin.mailboxCache
    listing,        \* the Match and Search calls
    opening,        \* the Fetch call
    settled,        \* history: reported by a call it did not move during, nor since
    mailMoves, mailCalls

vars == <<filed, mailboxCache, listing, opening, settled, mailMoves, mailCalls>>

Found == [Mails -> Mailboxes \cup {NoMailbox}]
Nowhere == [m \in Mails |-> NoMailbox]
Lists == [at : {"idle", "reading", "given", "failed"},
          folders : SUBSET Mailboxes,   \* the mailboxes whose leaf is a keyword
          query : SUBSET Mails,         \* the messages the search terms select
          todo : SUBSET Mailboxes,      \* those still to be examined
          first : Found,                \* matched.mailbox
          labels : [Mails -> SUBSET Mailboxes],
          stirred : SUBSET Mails]       \* history: moved since the call began
Idle == [at |-> "idle", folders |-> {}, query |-> {}, todo |-> {}, first |-> Nowhere,
         labels |-> [m \in Mails |-> {}], stirred |-> {}]
Opens == [at : {"idle", "examine", "body", "shown", "notfound", "unavailable"},
          mail : Mails, mailbox : Mailboxes \cup {NoMailbox}, sure : BOOLEAN]

MailTypeOK ==
    /\ filed \in [Mails -> SUBSET Mailboxes]
    /\ mailboxCache \in Found
    /\ listing \in [Listers -> Lists]
    /\ opening \in Opens
    /\ settled \subseteq Mails
    /\ mailMoves \in 0 .. MaxMailMoves /\ mailCalls \in 0 .. MaxMailCalls

Closed == [at |-> "idle", mail |-> CHOOSE m \in Mails : TRUE, mailbox |-> NoMailbox,
           sure |-> FALSE]

Init ==
    /\ filed \in [Mails -> SUBSET Mailboxes]
    /\ mailboxCache = Nowhere
    /\ listing = [c \in Listers |-> Idle]
    /\ opening = Closed
    /\ settled = {}
    /\ mailMoves = 0 /\ mailCalls = 0

-----------------------------------------------------------------------------
NewCall == mailCalls < MaxMailCalls /\ mailCalls' = mailCalls + 1

\* memberMailboxes: those whose leaf is a keyword; without any there is
\* nothing to examine.
MemberMailboxes == SUBSET Mailboxes \ {{}}

StartListing(c, F, Q) ==
    /\ listing[c].at # "reading" /\ NewCall
    /\ listing' = [listing EXCEPT ![c] =
          [Idle EXCEPT !.at = "reading", !.folders = F, !.query = Q, !.todo = F]]
    /\ UNCHANGED <<filed, mailboxCache, opening, settled, mailMoves>>

StartMatch(c)  == \E F \in MemberMailboxes : StartListing(c, F, Mails)
\* Search: one of the server's own SEARCH, for terms that select Q.
StartSearch(c) == \E F \in MemberMailboxes, Q \in SUBSET Mails \ {{}} : StartListing(c, F, Q)

\* A plausible slip: a message seen before is overwritten, label and all.
ExaminedOverwrites(l, b) ==
    LET here == {m \in l.query : b \in filed[m]}
    IN  [l EXCEPT
          !.todo = @ \ {b},
          !.first = [m \in Mails |-> IF m \in here THEN b ELSE @[m]],
          !.labels = [m \in Mails |-> IF m \in here THEN {b} ELSE @[m]]]

\* A message seen before keeps its first mailbox and gains the label.
Examined(l, b) ==
    LET here == {m \in l.query : b \in filed[m]}
    IN  [l EXCEPT
          !.todo = @ \ {b},
          !.first = [m \in Mails |-> IF m \in here /\ @[m] = NoMailbox THEN b ELSE @[m]],
          !.labels = [m \in Mails |-> IF m \in here THEN @[m] \cup {b} ELSE @[m]]]

\* One mailbox: EXAMINE, then FETCH (or SEARCH and FETCH) of what it lists.
ExamineMailbox(c) ==
    /\ listing[c].at = "reading"
    /\ \E b \in listing[c].todo : listing' = [listing EXCEPT ![c] = Examined(@, b)]
    /\ UNCHANGED <<filed, mailboxCache, opening, settled, mailMoves, mailCalls>>

\* connect, LIST, EXAMINE, SEARCH or FETCH fails: nothing of the call is kept.
ListingFails(c) ==
    /\ listing[c].at = "reading"
    /\ listing' = [listing EXCEPT ![c].at = "failed", ![c].todo = {}, ![c].first = Nowhere,
                                  ![c].labels = Idle.labels]
    /\ UNCHANGED <<filed, mailboxCache, opening, settled, mailMoves, mailCalls>>

\* A plausible slip: each call's discoveries replace the cache.
Replaced(cache, first) == first

\* mergeMailboxCache: the last writer of a message wins, the others stay.
Merged(cache, first) ==
    [m \in Mails |-> IF first[m] # NoMailbox THEN first[m] ELSE cache[m]]

FinishListing(c) ==
    /\ listing[c].at = "reading" /\ listing[c].todo = {}
    /\ LET l == listing[c]
           reported == {m \in Mails : l.first[m] # NoMailbox}
       IN  /\ mailboxCache' = Merged(mailboxCache, l.first)
           /\ settled' = (settled \ reported) \cup (reported \ l.stirred)
    /\ listing' = [listing EXCEPT ![c].at = "given", ![c].first = Nowhere]
    /\ UNCHANGED <<filed, opening, mailMoves, mailCalls>>

-----------------------------------------------------------------------------
\* Fetch of a message the index lists: the mailbox is read from the cache
\* once, before the connection.
StartFetch(m) ==
    /\ opening.at \notin {"examine", "body"} /\ NewCall
    /\ opening' = [at |-> IF mailboxCache[m] = NoMailbox THEN "notfound" ELSE "examine",
                   mail |-> m, mailbox |-> mailboxCache[m], sure |-> m \in settled]
    /\ UNCHANGED <<filed, mailboxCache, listing, settled, mailMoves>>

Listed == opening.mailbox \in filed[opening.mail]

\* EXAMINE and UID SEARCH HEADER Message-Id
FindUid ==
    /\ opening.at = "examine"
    /\ opening' = [opening EXCEPT !.at = IF Listed THEN "body" ELSE "notfound"]
    /\ UNCHANGED <<filed, mailboxCache, listing, settled, mailMoves, mailCalls>>

\* UID FETCH BODY.PEEK: a message expunged since then has no body.
FetchBody ==
    /\ opening.at = "body"
    /\ opening' = [opening EXCEPT !.at = IF Listed THEN "shown" ELSE "notfound"]
    /\ UNCHANGED <<filed, mailboxCache, listing, settled, mailMoves, mailCalls>>

FetchFails ==
    /\ opening.at \in {"examine", "body"}
    /\ opening' = [opening EXCEPT !.at = "unavailable"]
    /\ UNCHANGED <<filed, mailboxCache, listing, settled, mailMoves, mailCalls>>

-----------------------------------------------------------------------------
Trouble == mailMoves < MaxMailMoves /\ mailMoves' = mailMoves + 1

\* The user files a message elsewhere, labels it, or deletes it.
MoveMail(m) ==
    /\ Trouble
    /\ \E F \in SUBSET Mailboxes \ {filed[m]} : filed' = [filed EXCEPT ![m] = F]
    /\ settled' = settled \ {m}
    /\ listing' = [c \in Listers |-> IF listing[c].at = "reading"
                                       THEN [listing[c] EXCEPT !.stirred = @ \cup {m}]
                                       ELSE listing[c]]
    /\ opening' = [opening EXCEPT !.sure = @ /\ opening.mail # m]
    /\ UNCHANGED <<mailboxCache, mailCalls>>

\* The host restarts the plugin: the cache and the calls are gone.
RestartMail ==
    /\ Trouble
    /\ mailboxCache' = Nowhere
    /\ settled' = {}
    /\ listing' = [c \in Listers |-> Idle]
    /\ opening' = Closed
    /\ UNCHANGED <<filed, mailCalls>>

-----------------------------------------------------------------------------
Next ==
    \/ \E c \in Listers :
        \/ StartMatch(c) \/ StartSearch(c)
        \/ ExamineMailbox(c) \/ ListingFails(c) \/ FinishListing(c)
    \/ \E m \in Mails : StartFetch(m) \/ MoveMail(m)
    \/ FindUid \/ FetchBody \/ FetchFails \/ RestartMail

Spec == Init /\ [][Next]_vars

-----------------------------------------------------------------------------
\* Properties

\* What call c should list as the mailboxes stand, and what it has answered.
MembersNow(c) ==
    {p \in Mails \X Mailboxes :
        p[1] \in listing[c].query /\ p[2] \in filed[p[1]] \cap listing[c].folders}
ReplyNow(c) ==
    [state |-> CASE listing[c].at = "idle" -> "none"
                 [] listing[c].at = "reading" -> "pending"
                 [] OTHER -> listing[c].at,
     items |-> IF listing[c].at = "given"
                 THEN {p \in Mails \X Mailboxes : p[2] \in listing[c].labels[p[1]]}
                 ELSE {}]

(***************************************************************************)
(* Match and Search implement the contract of a source, label by label: a  *)
(* message that stayed where it was during the call is listed, under every *)
(* member mailbox that lists it, although the mailboxes are read at        *)
(* different times and merged, and although calls overlap.                 *)
(***************************************************************************)
MailContract == INSTANCE SourceContract WITH
    Callers <- Listers,
    Items <- Mails \X Mailboxes,
    members <- [c \in Listers |-> MembersNow(c)],
    stirred <- [c \in Listers |-> listing[c].stirred \X Mailboxes],
    reply <- [c \in Listers |-> ReplyNow(c)]

MailAnswers == MailContract!Spec

(***************************************************************************)
(* A message the last answer listed, and that has not been filed elsewhere *)
(* since that call began, opens: no later call of another webspace or a    *)
(* search makes the plugin forget where it is.                             *)
(***************************************************************************)
OpenFinds == opening.at = "notfound" => ~opening.sure

=============================================================================
