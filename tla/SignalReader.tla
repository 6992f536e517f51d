------------------------------ MODULE SignalReader ------------------------------
(***************************************************************************)
(* The Signal plugin (plugins/signal/plugin.go, digest.go, match.go,       *)
(* message.go, search.go, schemaguard.go) over Signal Desktop's database,  *)
(* which it opens read-only for every call and reads by separate queries,  *)
(* in no common transaction, while Signal Desktop writes it.  Match and    *)
(* Search answer with one digest per conversation and day, Fetch with the  *)
(* transcript of one.                                                      *)
(*                                                                         *)
(* Attachments, reactions, quotes and edit marks ride along with the       *)
(* message they belong to and are left out.                                *)
(***************************************************************************)
EXTENDS Naturals, FiniteSets

CONSTANTS
    Convs, Self,        \* conversations, and Note to Self
    LastMessage,        \* messages, numbered as they were sent
    ConvOf, DayOf,      \* each message's conversation and local day
    TailMessageCount,   \* tailMessageCount
    MaxWrites           \* bound: what Signal Desktop does

Messages == 1 .. LastMessage

SignalAssumption ==
    /\ Self \in Convs /\ LastMessage \in Nat \ {0} /\ ConvOf \in [Messages -> Convs]
    /\ DOMAIN DayOf = Messages
    /\ TailMessageCount \in Nat \ {0} /\ MaxWrites \in Nat

VARIABLES
    rows,       \* messages: what the properties tell apart of each row
    named,      \* conversations whose name in the user's own hands is a keyword
    profiled,   \* contacts whose own profile name is one
    install,    \* Signal Desktop: its files, key and schema
    query,      \* the call: Match, Search or Fetch
    counted,    \* history: what the last answer's titles counted, if still untouched
    writes

vars == <<rows, named, profiled, install, query, counted, writes>>

\* A row erased for everyone says so by its column or by its blob, and may
\* still hold the text; a file has no text.
Rows == {"none", "text", "file", "columnErased", "blobErased"}
Digests == {<<ConvOf[m], DayOf[m]>> : m \in Messages}
NoRows == [m \in Messages |-> "none"]
Uncounted == [d \in Digests |-> 0]

Queries == [kind : {"match", "search", "fetch"},
            at : {"idle", "open", "convs", "messages", "given", "notfound", "failed"},
            digest : Digests,           \* fetchTranscript's source id
            found : SUBSET Convs,       \* conversations matched, or the one fetched
            read : [Messages -> Rows],
            erased : SUBSET Messages,   \* history: erased before the call
            stirred : SUBSET Digests,   \* history: written since the call began
            expected : Nat]             \* history: the title's count, 0 if touched since
Unasked == [kind |-> "match", at |-> "idle", digest |-> CHOOSE d \in Digests : TRUE,
            found |-> {}, read |-> NoRows, erased |-> {}, stirred |-> {}, expected |-> 0]

SignalTypeOK ==
    /\ rows \in [Messages -> Rows]
    /\ named \subseteq Convs /\ profiled \subseteq Convs
    /\ install \in {"ready", "missing", "unkeyed", "newer"}
    /\ query \in Queries
    /\ counted \in [Digests -> 0 .. LastMessage]
    /\ writes \in 0 .. MaxWrites

Init ==
    /\ \E r \in {"none", "text"} : rows = [m \in Messages |-> r]
    /\ named \in SUBSET Convs
    /\ profiled = {}
    /\ install = "ready"
    /\ query = Unasked
    /\ counted = Uncounted
    /\ writes = 0

-----------------------------------------------------------------------------
\* What is made of the rows

\* candidateNames: the user's own names for a conversation, never the
\* contact's, and none for Note to Self.
MatchesByProfile(c) == c # Self /\ c \in named \cup profiled
MatchesConversation(c) == c # Self /\ c \in named

\* parseMessage: either sign of an erasure empties the body.
HasBodyByColumn(row) == row \in {"text", "blobErased"}
HasBody(row) == row = "text"

\* buildDigests counts erased messages too; so does the transcript.
CountsShown(row) == row \in {"text", "file"}
Counts(row) == row # "none"

OfDigest(d) == {m \in Messages : <<ConvOf[m], DayOf[m]>> = d}
DayCount(read, d) == Cardinality({m \in OfDigest(d) : Counts(read[m])})
Transcript(read, d) == {m \in OfDigest(d) : read[m] # "none"}

\* tailSnippet: the text among a day's last messages.
Tail(read, d) ==
    LET day == Transcript(read, d)
    IN  {m \in day : /\ Cardinality({n \in day : n > m}) < TailMessageCount
                     /\ HasBody(read[m])}

\* The digests of an answer: of a search, those with a message it matches.
Answered(kind, found, read) ==
    {d \in Digests : /\ d[1] \in found
                     /\ \E m \in OfDigest(d) : IF kind = "search" THEN HasBody(read[m])
                                                                  ELSE read[m] # "none"}

-----------------------------------------------------------------------------
\* A call

Asking == query.at \in {"open", "convs", "messages"}
Database == <<rows, named, profiled, install, writes>>

StartQuery(kind, d) ==
    /\ ~Asking
    /\ query' = [Unasked EXCEPT
          !.kind = kind, !.at = "open", !.digest = d,
          !.erased = {m \in Messages : rows[m] \in {"columnErased", "blobErased"}},
          !.expected = IF kind = "fetch" THEN counted[d] ELSE 0]
    /\ UNCHANGED <<Database, counted>>

\* config.json and the keyring give a key of the expected form.
ResolveKey == install # "unkeyed"

\* The database's version is one this plugin was written for.
GuardSchemaVersion == install # "newer"

\* openGuarded: the file, the key, the open, the schema version.
OpenGuarded ==
    /\ query.at = "open"
    /\ LET opens == install # "missing" /\ ResolveKey /\ GuardSchemaVersion
       IN  query' = [query EXCEPT !.at = IF opens THEN "convs" ELSE "failed"]
    /\ UNCHANGED <<Database, counted>>

\* readOwnAci and readConversations
ReadConversations ==
    /\ query.at = "convs"
    /\ LET found == IF query.kind = "fetch" THEN {query.digest[1]}
                                            ELSE {c \in Convs : MatchesConversation(c)}
       IN  query' = [query EXCEPT !.found = found, !.at = IF found = {} THEN "given" ELSE "messages"]
    /\ counted' = IF query.kind # "fetch" /\ query'.at = "given" THEN Uncounted ELSE counted
    /\ UNCHANGED Database

\* readMessages, and the digests or the transcript made of it.  A query of
\* an unknown schema may find nothing.
ReadMessages ==
    /\ query.at = "messages"
    /\ \E read \in {rows} \cup IF install = "newer" THEN {NoRows} ELSE {} :
          query' = [query EXCEPT
              !.read = read,
              !.at = IF query.kind = "fetch" /\ Transcript(read, query.digest) = {}
                       THEN "notfound" ELSE "given"]
    /\ counted' = IF query.kind = "fetch" THEN counted
                  ELSE [d \in Digests |->
                          IF d \in Answered(query.kind, query.found, query'.read) \ query.stirred
                            THEN DayCount(query'.read, d) ELSE 0]
    /\ UNCHANGED Database

QueryFails ==
    /\ Asking
    /\ query' = [query EXCEPT !.at = "failed"]
    /\ UNCHANGED <<Database, counted>>

-----------------------------------------------------------------------------
\* Signal Desktop

\* What arrives where a row has gone is another message, and not erased.
Write(D) ==
    /\ writes < MaxWrites /\ writes' = writes + 1
    /\ query' = [query EXCEPT !.stirred = @ \cup D,
                              !.erased = {m \in @ : rows[m] # "none"},
                              !.expected = IF query.digest \in D THEN 0 ELSE @]
    /\ counted' = [d \in Digests |-> IF d \in D THEN 0 ELSE counted[d]]

\* A message arrives, is erased for everyone, or disappears.
WriteMessage(m) ==
    /\ \E r \in Rows \ {rows[m]} :
          /\ rows[m] = "none" <=> r \in {"text", "file"}
          /\ rows' = [rows EXCEPT ![m] = r]
    /\ Write({<<ConvOf[m], DayOf[m]>>})
    /\ UNCHANGED <<named, profiled, install>>

\* The user renames a group or a contact.
Rename(c) ==
    /\ named' = IF c \in named THEN named \ {c} ELSE named \cup {c}
    /\ Write({d \in Digests : d[1] = c})
    /\ UNCHANGED <<rows, profiled, install>>

\* A contact renames itself: no membership is the contact's to change.
RenameProfile(c) ==
    /\ c \notin profiled
    /\ profiled' = profiled \cup {c}
    /\ Write({})
    /\ UNCHANGED <<rows, named, install>>

\* Signal Desktop is upgraded, removed, or its key becomes unavailable.
ChangeInstall ==
    /\ \E i \in {"missing", "unkeyed", "newer"} \ {install} : install' = i
    /\ Write(Digests)
    /\ UNCHANGED <<rows, named, profiled>>

-----------------------------------------------------------------------------
Step == OpenGuarded \/ ReadConversations \/ ReadMessages

Next ==
    \/ \E kind \in {"match", "search"} : StartQuery(kind, Unasked.digest)
    \/ \E d \in Digests : StartQuery("fetch", d)
    \/ Step \/ QueryFails \/ ChangeInstall
    \/ \E m \in Messages : WriteMessage(m)
    \/ \E c \in Convs : Rename(c) \/ RenameProfile(c)

Spec == Init /\ [][Next]_vars

-----------------------------------------------------------------------------
\* Properties

(***************************************************************************)
(* Match and Search implement the contract of a source, digest by digest,  *)
(* although names and messages are read at different times; a contact's    *)
(* new profile name changes no membership, and an unknown schema is        *)
(* refused.                                                                *)
(***************************************************************************)
Members == Answered(query.kind, {c \in Convs \ {Self} : c \in named}, rows)
Listing == query.kind # "fetch"

MembersNow == IF Listing THEN Members ELSE {}
StirredNow == IF Listing THEN query.stirred ELSE {}
ReplyNow ==
    [state |-> IF ~Listing \/ query.at = "idle" THEN "none"
               ELSE IF Asking THEN "pending" ELSE query.at,
     items |-> IF Listing /\ query.at = "given"
                 THEN Answered(query.kind, query.found, query.read) ELSE {}]

SignalContract == INSTANCE SourceContract WITH
    Callers <- {"query"},
    Items <- Digests,
    members <- [c \in {"query"} |-> MembersNow],
    stirred <- [c \in {"query"} |-> StirredNow],
    reply <- [c \in {"query"} |-> ReplyNow]

SignalAnswers == SignalContract!Spec

(***************************************************************************)
(* No preview shows the text of a message that had been erased for         *)
(* everyone before the call, whichever of the two signs of it the row has. *)
(***************************************************************************)
ErasedHidden ==
    query.at = "given" /\ Listing =>
        \A d \in Answered(query.kind, query.found, query.read) :
            Tail(query.read, d) \cap query.erased = {}

(***************************************************************************)
(* A digest of the last answer to which nothing has happened since that    *)
(* call began opens, with as many messages as its title says.              *)
(***************************************************************************)
TranscriptAgrees ==
    query.kind = "fetch" /\ query.expected > 0 =>
        /\ query.at # "notfound"
        /\ query.at = "given" =>
              Cardinality(Transcript(query.read, query.digest)) = query.expected
=============================================================================
