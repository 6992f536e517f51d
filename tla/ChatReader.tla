------------------------------- MODULE ChatReader -------------------------------
(***************************************************************************)
(* The reading side of the WhatsApp plugin (plugins/whatsapp/plugin.go,    *)
(* match.go, digest.go, search.go, messagestore.go): Match and Search ask  *)
(* for the session's health, read the chats and then the messages of those *)
(* that match, and answer with one digest per chat and day; Fetch reads    *)
(* one chat again for its transcript.  The event goroutines (module        *)
(* WhatsAppEvents) write the store, and the health, between any two reads. *)
(***************************************************************************)
EXTENDS Naturals, FiniteSets

CONSTANTS
    Groups, Contacts,   \* group chats and 1:1 chats
    LastNote,           \* messages, numbered by id
    ChatOfNote, DayOfNote,
    MaxChatWrites       \* bound: what the event goroutines do

Chats == Groups \cup Contacts
Notes == 1 .. LastNote

ChatReaderAssumption ==
    /\ Groups \cap Contacts = {} /\ LastNote \in Nat \ {0}
    /\ ChatOfNote \in [Notes -> Chats] /\ DOMAIN DayOfNote = Notes
    /\ MaxChatWrites \in Nat

VARIABLES
    healthy,    \* SourcePlugin.state's Healthy()
    subject,    \* chats whose name column is the keyword
    contact,    \* chats whose contact_name column is
    stored,     \* the messages table: what the properties tell apart of each row
    reader,     \* the call: Match, Search or Fetch
    titled,     \* history: what the last answer's titles counted, if still untouched
    chatWrites

vars == <<healthy, subject, contact, stored, reader, titled, chatWrites>>

\* Bare: without a body, as a deleted message is, or a picture.
Bodies == {"none", "text", "bare"}
ChatDays == {<<ChatOfNote[n], DayOfNote[n]>> : n \in Notes}
Untitled == [d \in ChatDays |-> 0]
Empty == [n \in Notes |-> "none"]

Readers == [kind : {"match", "search", "fetch"},
            at : {"idle", "health", "chats", "messages", "given", "notfound", "failed"},
            groups : BOOLEAN, contacts : BOOLEAN,   \* the fields that hold the keyword
            digest : ChatDays,              \* fetchTranscript's source id
            matched : SUBSET Chats,
            read : [Notes -> Bodies],
            linked : BOOLEAN,               \* history: healthy at some time during the call
            stirred : SUBSET ChatDays,      \* history: written since the call began
            expected : Nat]                 \* history: the title's count, 0 if touched since
Unread == [kind |-> "match", at |-> "idle", groups |-> FALSE, contacts |-> FALSE,
           digest |-> CHOOSE d \in ChatDays : TRUE, matched |-> {}, read |-> Empty,
           linked |-> FALSE, stirred |-> {}, expected |-> 0]

ReaderTypeOK ==
    /\ healthy \in BOOLEAN
    /\ subject \subseteq Chats /\ contact \subseteq Chats
    /\ stored \in [Notes -> Bodies]
    /\ reader \in Readers
    /\ titled \in [ChatDays -> 0 .. LastNote]
    /\ chatWrites \in 0 .. MaxChatWrites

\* The name column of a 1:1 chat and the contact column of a group stay
\* empty (WhatsAppEvents).
Init ==
    /\ healthy \in BOOLEAN
    /\ subject \in SUBSET Groups /\ contact \in SUBSET Contacts
    /\ \E b \in {"none", "text"} : stored = [n \in Notes |-> b]
    /\ reader = Unread
    /\ titled = Untitled
    /\ chatWrites = 0

-----------------------------------------------------------------------------
\* What is made of the rows

\* A plausible slip: one list of keywords for both kinds.
EligibleEither(c, groups, contacts) ==
    (groups \/ contacts) /\ c \in (subject \cap Groups) \cup (contact \cap Contacts)

\* eligibleChats: a group by its subject and the field "groups" only, a 1:1
\* chat by the saved name and "contacts" only; a chat without a name never.
Eligible(c, groups, contacts) ==
    IF c \in Groups THEN groups /\ c \in subject ELSE contacts /\ c \in contact

OfDay(d) == {n \in Notes : <<ChatOfNote[n], DayOfNote[n]>> = d}
Recorded(read, d) == {n \in OfDay(d) : read[n] # "none"}

\* buildDigests: every chat and day with a message, deleted ones counted;
\* of a search, those where a body matches.
Digested(kind, matched, read) ==
    {d \in ChatDays : /\ d[1] \in matched
                      /\ \E n \in OfDay(d) :
                            IF kind = "search" THEN read[n] = "text" ELSE read[n] # "none"}

\* A plausible slip: the title does not count deleted messages.
TitlesOfBodies(kind, matched, read, stirred) ==
    [d \in ChatDays |-> IF d \in Digested(kind, matched, read) \ stirred
                          THEN Cardinality({n \in OfDay(d) : read[n] = "text"}) ELSE 0]

\* digestTitle
Titles(kind, matched, read, stirred) ==
    [d \in ChatDays |-> IF d \in Digested(kind, matched, read) \ stirred
                          THEN Cardinality(Recorded(read, d)) ELSE 0]

-----------------------------------------------------------------------------
\* A call

Reading == reader.at \in {"health", "chats", "messages"}
Store == <<healthy, subject, contact, stored, chatWrites>>

\* Match, and Search, for which RequireMembership wants a keyword.
StartRead(kind, groups, contacts) ==
    /\ ~Reading
    /\ kind = "search" => groups \/ contacts
    /\ reader' = [Unread EXCEPT !.kind = kind, !.at = "health", !.groups = groups,
                                !.contacts = contacts, !.linked = healthy]
    /\ UNCHANGED <<Store, titled>>

\* fetchTranscript does not ask for the health: what is stored can be opened.
StartTranscript(d) ==
    /\ ~Reading
    /\ reader' = [Unread EXCEPT !.kind = "fetch", !.at = "messages", !.digest = d,
                                !.matched = {d[1]}, !.expected = titled[d]]
    /\ UNCHANGED <<Store, titled>>

\* A plausible slip: without keywords the answer is empty whatever the health.
KeywordsFirst ==
    /\ reader.at = "health"
    /\ LET asked == reader.groups \/ reader.contacts
       IN  reader' = [reader EXCEPT !.at = IF ~asked THEN "given"
                                           ELSE IF healthy THEN "chats" ELSE "failed"]
    /\ titled' = IF reader'.at = "given" THEN Untitled ELSE titled
    /\ UNCHANGED Store

\* Health comes first; then a call without keywords has an empty answer.
CheckHealth ==
    /\ reader.at = "health"
    /\ LET asked == reader.groups \/ reader.contacts
       IN  reader' = [reader EXCEPT !.at = IF ~healthy THEN "failed"
                                           ELSE IF asked THEN "chats" ELSE "given"]
    /\ titled' = IF reader'.at = "given" THEN Untitled ELSE titled
    /\ UNCHANGED Store

\* store.Chats and eligibleChats
ReadChats ==
    /\ reader.at = "chats"
    /\ LET matched == {c \in Chats : Eligible(c, reader.groups, reader.contacts)}
       IN  reader' = [reader EXCEPT !.matched = matched,
                                    !.at = IF matched = {} THEN "given" ELSE "messages"]
    /\ titled' = IF reader'.at = "given" THEN Untitled ELSE titled
    /\ UNCHANGED Store

\* store.MessagesForChats, and the digests or the transcript.
ReadMessages ==
    /\ reader.at = "messages"
    /\ IF reader.kind = "fetch"
         THEN /\ reader' = [reader EXCEPT !.read = stored,
                              !.at = IF Recorded(stored, reader.digest) = {} THEN "notfound" ELSE "given"]
              /\ UNCHANGED titled
         ELSE /\ reader' = [reader EXCEPT !.read = stored, !.at = "given"]
              /\ titled' = Titles(reader.kind, reader.matched, stored, reader.stirred)
    /\ UNCHANGED Store

\* A statement fails.
ReadFails ==
    /\ reader.at \in {"chats", "messages"}
    /\ reader' = [reader EXCEPT !.at = "failed", !.matched = {}]
    /\ UNCHANGED <<Store, titled>>

-----------------------------------------------------------------------------
\* The event goroutines

Wrote(D) ==
    /\ chatWrites < MaxChatWrites /\ chatWrites' = chatWrites + 1
    /\ reader' = [reader EXCEPT !.stirred = @ \cup D,
                                !.expected = IF reader.digest \in D THEN 0 ELSE @]
    /\ titled' = [d \in ChatDays |-> IF d \in D THEN 0 ELSE titled[d]]

\* Append, MarkEdited and MarkDeleted: a row comes to be, loses its body, or
\* is rewritten by a redelivery.
WriteNote(n) ==
    /\ \E b \in Bodies \ {"none", stored[n]} : stored' = [stored EXCEPT ![n] = b]
    /\ Wrote({<<ChatOfNote[n], DayOfNote[n]>>})
    /\ UNCHANGED <<healthy, subject, contact>>

\* UpsertChatName and UpsertContactName
WriteName(c) ==
    /\ LET flip(S) == IF c \in S THEN S \ {c} ELSE S \cup {c}
       IN  IF c \in Groups THEN subject' = flip(subject) /\ UNCHANGED contact
                           ELSE contact' = flip(contact) /\ UNCHANGED subject
    /\ Wrote({d \in ChatDays : d[1] = c})
    /\ UNCHANGED <<healthy, stored>>

\* setHealthState, as module WhatsAppSession follows it.
SetHealth ==
    /\ chatWrites < MaxChatWrites /\ chatWrites' = chatWrites + 1
    /\ healthy' = ~healthy
    /\ reader' = [reader EXCEPT !.linked = @ \/ (Reading /\ healthy')]
    /\ UNCHANGED <<subject, contact, stored, titled>>

-----------------------------------------------------------------------------
Next ==
    \/ \E kind \in {"match", "search"}, groups, contacts \in BOOLEAN :
          StartRead(kind, groups, contacts)
    \/ \E d \in ChatDays : StartTranscript(d)
    \/ CheckHealth \/ ReadChats \/ ReadMessages \/ ReadFails
    \/ \E n \in Notes : WriteNote(n)
    \/ \E c \in Chats : WriteName(c)
    \/ SetHealth

Spec == Init /\ [][Next]_vars

-----------------------------------------------------------------------------
\* Properties

(***************************************************************************)
(* Match and Search implement the contract of a source, digest by digest,  *)
(* although chats and messages are read by two statements between which    *)
(* the event goroutines write: the groups are those one field names, the   *)
(* 1:1 chats those the other names.                                        *)
(***************************************************************************)
Asks == reader.kind # "fetch"
MatchedChats == {c \in subject : reader.groups} \cup {c \in contact : reader.contacts}

MembersNow == IF Asks THEN Digested(reader.kind, MatchedChats, stored) ELSE {}
StirredNow == IF Asks THEN reader.stirred ELSE {}
ReplyNow ==
    [state |-> IF ~Asks \/ reader.at = "idle" THEN "none"
               ELSE IF Reading THEN "pending" ELSE reader.at,
     items |-> IF Asks /\ reader.at = "given"
                 THEN Digested(reader.kind, reader.matched, reader.read) ELSE {}]

ChatContract == INSTANCE SourceContract WITH
    Callers <- {"reader"},
    Items <- ChatDays,
    members <- [c \in {"reader"} |-> MembersNow],
    stirred <- [c \in {"reader"} |-> StirredNow],
    reply <- [c \in {"reader"} |-> ReplyNow]

ChatAnswers == ChatContract!Spec

(***************************************************************************)
(* A delinked plugin is never silent: a call during which the session was  *)
(* down all along is an error, also without keywords, never the empty      *)
(* answer that would make the host drop its rows.  And what an answer has  *)
(* listed opens, down or not, with the messages its title counts, unless   *)
(* they have been written to since.                                        *)
(***************************************************************************)
NeverSilent ==
    /\ Asks /\ reader.at = "given" => reader.linked
    /\ reader.kind = "fetch" /\ reader.expected > 0 =>
          /\ reader.at # "notfound"
          /\ reader.at = "given" =>
                Cardinality(Recorded(reader.read, reader.digest)) = reader.expected
=============================================================================
