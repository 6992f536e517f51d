---------------------------- MODULE WhatsAppEvents ----------------------------
(***************************************************************************)
(* How the WhatsApp plugin's message store follows the account             *)
(* (plugins/whatsapp/eventhandler.go and groupsync.go over ChatStore).     *)
(*                                                                         *)
(* Three kinds of goroutine write the store: whatsmeow's event dispatch    *)
(* (Live), which handles the server's events one after another; its        *)
(* history dispatch (History), which replays the messages the account had  *)
(* when the device was linked; and one syncJoinedGroups per Connected      *)
(* event.  None holds a lock across two statements.                        *)
(*                                                                         *)
(* The account itself, the order of its events and their redelivery are    *)
(* the server's and the library's, modelled from how handleEvent uses      *)
(* them: an event stays due until its handler has returned, so a killed    *)
(* plugin is given it again, and up to Lag events before it whose          *)
(* acknowledgements the server had not seen.                               *)
(***************************************************************************)
EXTENDS Integers, Sequences, ChatStore

CONSTANTS
    Syncs,          \* syncJoinedGroups goroutines that may run at once
    MaxEvents,      \* bound: changes of the account after the link
    MaxFaults,      \* bound: statements and reads that fail
    MaxKills,       \* bound: kills of the plugin
    Lag             \* bound: handled events one kill makes due again

ASSUME BoundsAssumption ==
    MaxEvents \in Nat /\ MaxFaults \in Nat /\ MaxKills \in Nat /\ Lag \in Nat

Text == Bodies \cup {Blank}     \* Blank: content extractMessageText ignores
Threads == {"live", "history"}

VARIABLES
    \* the account, outside the plugin
    said,       \* each message: its state, first and present content
    subject,    \* the subject of each group
    saved,      \* whatsmeow's local address book: contact -> name or Blank
    log,        \* the events after the link, in the server's order
    next,       \* the first event not handled yet
    backlog,    \* messages the history payload still has to deliver
    \* the plugin
    chats,      \* table chats
    messages,   \* table messages
    thread,     \* what each dispatch goroutine is doing
    sync,       \* what each syncJoinedGroups goroutine is doing
    \* history variables
    astray,     \* messages and chats a fault or an overtaking write hit
    faults, kills

account == <<said, subject, saved, log>>
tables  == <<chats, messages>>
vars == <<account, next, backlog, tables, thread, sync, astray, faults, kills>>

-----------------------------------------------------------------------------
Said   == [state : {"unsent", "shown", "revoked"}, first : Text, now : Text]
Unsent == [state |-> "unsent", first |-> Blank, now |-> Blank]

\* An event; what is a message id or a chat.
Events == [kind : {"send", "edit", "revoke"}, what : Msgs, text : Text]
     \cup [kind : {"subject"}, what : Groups, text : Names]
     \cup [kind : {"contact"}, what : Contacts, text : {Blank}]

AboutMessage(e) == e.kind \in {"send", "edit", "revoke"}
ChatOfEvent(e)  == IF AboutMessage(e) THEN ChatOf[e.what] ELSE e.what

\* A dispatch goroutine: where it is inside its handler, with which event,
\* and the contact name it has read.
Idle == [at |-> "idle"]
Busy == [at : {"resolve", "upsert", "write"}, event : Events, name : Names \cup {Blank}]

\* A sync goroutine: the subjects it has fetched and the groups to write.
NoSync  == [at |-> "none"]
Asking  == [at |-> "asking"]
Writing == [at : {"writing"}, got : [Groups -> Names], todo : SUBSET Groups]

\* What the history payload says of m: its content when the device was
\* linked.  A message revoked by then carries none.
Replay(m) == [kind |-> "send", what |-> m, text |-> said[m].first]

\* History holds m back: it is still to come, or its handler is running.
InHistory(m) ==
    \/ m \in backlog
    \/ thread["history"] # Idle /\ thread["history"].event.what = m

TypeOK ==
    /\ said \in [Msgs -> Said]
    /\ subject \in [Groups -> Names]
    /\ saved \in [Contacts -> Names \cup {Blank}]
    /\ log \in Seq(Events)
    /\ next \in 1 .. Len(log) + 1
    /\ backlog \subseteq Msgs
    /\ chats \in ChatTable
    /\ messages \in MsgTable
    /\ thread \in [Threads -> Busy \cup {Idle}]
    /\ sync \in [Syncs -> Writing \cup {NoSync, Asking}]
    /\ astray \subseteq Msgs \cup Chats
    /\ faults \in 0 .. MaxFaults
    /\ kills \in 0 .. MaxKills

\* A fresh store at the moment the device is linked; the account has a past.
Init ==
    /\ said \in [Msgs -> {Unsent, [state |-> "revoked", first |-> Blank, now |-> Blank]}
                         \cup {[state |-> "shown", first |-> x, now |-> x] : x \in Text}]
    /\ subject \in [Groups -> Names]
    /\ saved \in [Contacts -> Names \cup {Blank}]
    /\ log = <<>>
    /\ next = 1
    /\ backlog = {m \in Msgs : said[m].state # "unsent"}
    /\ chats = [c \in Chats |-> NoRow]
    /\ messages = [m \in Msgs |-> NoRow]
    /\ thread = [t \in Threads |-> Idle]
    /\ sync = [s \in Syncs |-> NoSync]
    /\ astray = {}
    /\ faults = 0
    /\ kills = 0

-----------------------------------------------------------------------------
\* The account changes, and the server queues an event for this device.

Queue(kind, what, text) ==
    /\ Len(log) < MaxEvents
    /\ log' = Append(log, [kind |-> kind, what |-> what, text |-> text])
    /\ UNCHANGED <<next, backlog, tables, thread, sync, astray, faults, kills>>

Send(m) ==
    /\ said[m] = Unsent
    /\ \E x \in Text :
        /\ said' = [said EXCEPT ![m] = [state |-> "shown", first |-> x, now |-> x]]
        /\ Queue("send", m, x)
    /\ UNCHANGED <<subject, saved>>

Edit(m) ==
    /\ said[m].state = "shown"
    /\ \E x \in Text :
        /\ said' = [said EXCEPT ![m] = [state |-> "shown", first |-> @.first, now |-> x]]
        /\ Queue("edit", m, x)
    /\ UNCHANGED <<subject, saved>>

Revoke(m) ==
    /\ said[m].state = "shown"
    /\ said' = [said EXCEPT ![m] = [state |-> "revoked", first |-> @.first, now |-> Blank]]
    /\ Queue("revoke", m, Blank)
    /\ UNCHANGED <<subject, saved>>

Rename(g) ==
    \E n \in Names \ {subject[g]} :
        /\ subject' = [subject EXCEPT ![g] = n]
        /\ Queue("subject", g, n)
        /\ UNCHANGED <<said, saved>>

\* The library writes its address book before it dispatches the event.
SaveContact(c) ==
    \E n \in (Names \cup {Blank}) \ {saved[c]} :
        /\ saved' = [saved EXCEPT ![c] = n]
        /\ Queue("contact", c, Blank)
        /\ UNCHANGED <<said, subject>>

-----------------------------------------------------------------------------
\* The dispatch goroutines: handleMessageEvent, handleGroupInfoEvent and
\* handleContactEvent, one action per statement or read.

\* What goroutine t may take up next: Live the first event not handled,
\* History any message left in its payload.
Due(t) ==
    IF t = "live" THEN {log[i] : i \in {next} \cap (1 .. Len(log))}
                  ELSE {Replay(m) : m \in backlog}

\* t takes e up: History's message leaves the backlog.
Take(t, e) ==
    /\ thread[t] = Idle
    /\ e \in Due(t)
    /\ backlog' = IF t = "history" THEN backlog \ {e.what} ELSE backlog

Goto(t, at, e, n) ==
    thread' = [thread EXCEPT ![t] = [at |-> at, event |-> e, name |-> n]]

\* A plausible slip: History's handler, too, advances Live's position.
ReturnAdvances(t) ==
    /\ thread' = [thread EXCEPT ![t] = Idle]
    /\ next' = next + 1

\* The handler of t returns; for Live the event is no longer due.
Return(t) ==
    /\ thread' = [thread EXCEPT ![t] = Idle]
    /\ next' = IF t = "live" THEN next + 1 ELSE next

Continue(t, at, e, n) == Goto(t, at, e, n) /\ next' = next

Succeeds == UNCHANGED faults
Fails    == faults < MaxFaults /\ faults' = faults + 1

\* After a chat row exists: a 1:1 chat's name is looked up, a group's is not.
AfterEnsure(e) == IF ChatOf[e.what] \in Contacts THEN "resolve" ELSE "write"

Ensure(t, e) ==
    /\ Take(t, e)
    /\ AboutMessage(e)
    /\ \/ /\ Succeeds
          /\ chats' = EnsureChat(chats, ChatOf[e.what])
          /\ Continue(t, AfterEnsure(e), e, Blank)
          /\ UNCHANGED astray
       \/ /\ Fails
          /\ Return(t)
          /\ astray' = astray \cup {e.what, ChatOf[e.what]}
          /\ UNCHANGED chats
    /\ UNCHANGED <<account, messages, sync, kills>>

\* Some sync holds another subject of g than n, to be written after it.
Overtakes(g, n) ==
    \E s \in Syncs : sync[s].at = "writing" /\ g \in sync[s].todo /\ sync[s].got[g] # n

\* handleGroupInfoEvent
GroupInfo(t, e) ==
    /\ Take(t, e)
    /\ e.kind = "subject"
    /\ Return(t)
    /\ \/ /\ Succeeds
          /\ chats' = UpsertChatName(chats, e.what, e.text)
          /\ astray' = IF Overtakes(e.what, e.text) THEN astray \cup {e.what} ELSE astray
       \/ /\ Fails
          /\ astray' = astray \cup {e.what}
          /\ UNCHANGED chats
    /\ UNCHANGED <<account, messages, sync, kills>>

\* handleContactEvent, up to its call of resolveContactName
ContactEvent(t, e) ==
    /\ Take(t, e)
    /\ e.kind = "contact"
    /\ Continue(t, "resolve", e, Blank)
    /\ UNCHANGED <<account, tables, sync, astray, faults, kills>>

\* resolveContactName: a failed read answers like an unsaved contact.
Resolve(t) ==
    LET e == thread[t].event
        c == ChatOfEvent(e)
    IN  /\ thread[t].at = "resolve"
        /\ \/ /\ Succeeds
              /\ Continue(t, "upsert", e, saved[c])
              /\ astray' = IF t = "live" THEN astray \ {c} ELSE astray
           \/ /\ Fails
              /\ Continue(t, "upsert", e, Blank)
              /\ astray' = astray \cup {c}
        /\ UNCHANGED <<account, backlog, tables, sync, kills>>

\* History has read another name of c than n and will write it after it.
HistoryHolds(c, n) ==
    /\ thread["history"].at = "upsert"
    /\ ChatOfEvent(thread["history"].event) = c
    /\ thread["history"].name # n

\* UpsertContactName; its failure is only logged.
Upsert(t) ==
    LET e == thread[t].event
        c == ChatOfEvent(e)
        n == thread[t].name
    IN  /\ thread[t].at = "upsert"
        /\ \/ /\ Succeeds
              /\ chats' = UpsertContactName(chats, c, n)
              /\ astray' = IF t = "live" /\ HistoryHolds(c, n) THEN astray \cup {c} ELSE astray
           \/ /\ Fails
              /\ astray' = astray \cup {c}
              /\ UNCHANGED chats
        /\ IF AboutMessage(e) THEN Continue(t, "write", e, Blank) ELSE Return(t)
        /\ UNCHANGED <<account, backlog, messages, sync, kills>>

\* What the last statement of handleMessageEvent makes of the table.
Written(table, e) ==
    CASE e.kind = "revoke" -> MarkDeleted(table, e.what)
      [] e.kind = "edit"   -> MarkEdited(table, e.what, e.text)
      [] e.kind = "send"   -> IF e.text = Blank THEN table
                                                ELSE AppendMsg(table, e.what, e.text)

\* The last statement; a live change of a message History still has to
\* replay is overtaken by the replay.
Write(t) ==
    LET e == thread[t].event
    IN  /\ thread[t].at = "write"
        /\ Return(t)
        /\ \/ /\ Succeeds
              /\ messages' = Written(messages, e)
              /\ astray' = IF t = "live" /\ InHistory(e.what) THEN astray \cup {e.what} ELSE astray
           \/ /\ Fails
              /\ astray' = astray \cup {e.what}
              /\ UNCHANGED messages
        /\ UNCHANGED <<account, backlog, chats, sync, kills>>

-----------------------------------------------------------------------------
\* syncJoinedGroups, started by every Connected event.

Connected(s) ==
    /\ sync[s] = NoSync
    /\ sync' = [sync EXCEPT ![s] = Asking]
    /\ UNCHANGED <<account, next, backlog, tables, thread, astray, faults, kills>>

\* Another sync than s has g still to write.
HeldByOther(s, g) == \E r \in Syncs \ {s} : sync[r].at = "writing" /\ g \in sync[r].todo

\* The sync goes on until it has written every group.
SyncWith(got, todo) ==
    IF todo = {} THEN NoSync ELSE [at |-> "writing", got |-> got, todo |-> todo]

\* GetJoinedGroups answers with the present subjects, or fails or times out.
Fetch(s) ==
    /\ sync[s] = Asking
    /\ \/ /\ Succeeds
          /\ sync' = [sync EXCEPT ![s] = SyncWith(subject, Groups)]
          /\ astray' = astray \ {g \in Groups : ~HeldByOther(s, g)}
       \/ /\ Fails
          /\ sync' = [sync EXCEPT ![s] = NoSync]
          /\ UNCHANGED astray
    /\ UNCHANGED <<account, next, backlog, tables, thread, kills>>

\* A plausible slip: the sync only fills in names that are missing.
WriteGroupFillsIn(s, g) ==
    /\ sync[s].at = "writing"
    /\ g \in sync[s].todo
    /\ Succeeds
    /\ chats' = IF chats[g] # NoRow /\ chats[g].name # Blank THEN chats
                ELSE UpsertChatName(chats, g, sync[s].got[g])
    /\ sync' = [sync EXCEPT ![s] = SyncWith(@.got, @.todo \ {g})]
    /\ UNCHANGED <<account, next, backlog, messages, thread, astray, kills>>

\* upsertJoinedGroups, one group; the first failure ends it.
WriteGroup(s, g) ==
    /\ sync[s].at = "writing"
    /\ g \in sync[s].todo
    /\ \/ /\ Succeeds
          /\ chats' = UpsertChatName(chats, g, sync[s].got[g])
          /\ sync' = [sync EXCEPT ![s] = SyncWith(@.got, @.todo \ {g})]
          /\ UNCHANGED astray
       \/ /\ Fails
          /\ sync' = [sync EXCEPT ![s] = NoSync]
          /\ astray' = astray \cup sync[s].todo
          /\ UNCHANGED chats
    /\ UNCHANGED <<account, next, backlog, messages, thread, kills>>

-----------------------------------------------------------------------------
\* The process is killed and restarted on the same messages.db.  The rest of
\* the history payload is gone (it was acknowledged when it was received);
\* the event in work and up to Lag earlier ones are delivered again.

\* What a kill leaves unfinished without anyone delivering it again.
Unfinished ==
    LET h == thread["history"]
    IN  backlog
        \cup (IF h = Idle THEN {} ELSE {h.event.what, ChatOf[h.event.what]})
        \cup UNION {sync[s].todo : s \in {r \in Syncs : sync[r].at = "writing"}}

Kill ==
    /\ kills < MaxKills
    /\ kills' = kills + 1
    /\ astray' = astray \cup Unfinished
    /\ \E i \in 1 .. next : i + Lag >= next /\ next' = i
    /\ backlog' = {}
    /\ thread' = [t \in Threads |-> Idle]
    /\ sync' = [s \in Syncs |-> NoSync]
    /\ UNCHANGED <<account, tables, faults>>

-----------------------------------------------------------------------------
Change ==
    \/ \E m \in Msgs : Send(m) \/ Edit(m) \/ Revoke(m)
    \/ \E g \in Groups : Rename(g)
    \/ \E c \in Contacts : SaveContact(c)

Handle(t) ==
    \/ \E e \in Due(t) : Ensure(t, e) \/ GroupInfo(t, e) \/ ContactEvent(t, e)
    \/ Resolve(t)
    \/ Upsert(t)
    \/ Write(t)

SyncJoinedGroups(s) ==
    \/ Connected(s)
    \/ Fetch(s)
    \/ \E g \in Groups : WriteGroup(s, g)

Next ==
    \/ Change
    \/ \E t \in Threads : Handle(t)
    \/ \E s \in Syncs : SyncJoinedGroups(s)
    \/ Kill

Spec == Init /\ [][Next]_vars

\* Goroutines are scheduled, and every call they make returns (a query of
\* the server within groupSyncTimeout).  Nothing makes the account change,
\* the connection come up or the process die.
Runs(s) == Fetch(s) \/ \E g \in Groups : WriteGroup(s, g)

FairSpec ==
    /\ Spec
    /\ \A t \in Threads : WF_vars(Handle(t))
    /\ \A s \in Syncs : WF_vars(Runs(s))

-----------------------------------------------------------------------------
\* Properties

\* Some event about message m, or about chat c, is still due or in work.
MessageDue(m) == \E i \in next .. Len(log) : AboutMessage(log[i]) /\ log[i].what = m
SubjectDue(g) == \E i \in next .. Len(log) : log[i].kind = "subject" /\ log[i].what = g
ChatDue(c)    == \E i \in next .. Len(log) : ChatOfEvent(log[i]) = c

InSync(g) == \E s \in Syncs : sync[s].at = "writing" /\ g \in sync[s].todo

\* The row m should have: none if it came without content (or revoked), else
\* its present content, or none of it and the mark once it is revoked.
Faithful(m) ==
    IF said[m].first = Blank
      THEN messages[m] = NoRow
      ELSE messages[m] = [body    |-> said[m].now,
                          deleted |-> said[m].state = "revoked",
                          edited  |-> \E i \in 1 .. Len(log) :
                                          log[i].kind = "edit" /\ log[i].what = m]

(***************************************************************************)
(* However the history replay, live events, redelivery after a kill and    *)
(* failing statements interleave: once nothing about a message is due, its *)
(* row is what the account shows, unless a statement about it failed, the  *)
(* history payload was lost, or the replay overtook a live change (see     *)
(* RevokedStaysHidden).                                                    *)
(***************************************************************************)
MessagesSettled ==
    \A m \in Msgs \ astray :
        said[m].state # "unsent" /\ ~MessageDue(m) /\ ~InHistory(m) => Faithful(m)

(***************************************************************************)
(* A group that has a cached subject has its present one once no rename is *)
(* due and no joined-groups sync is writing, unless a write failed or a    *)
(* sync overtook a newer rename; the next sync that runs alone repairs     *)
(* that too (it takes the group out of astray).                            *)
(***************************************************************************)
GroupsSettled ==
    \A g \in Groups \ astray :
        /\ chats[g] # NoRow /\ chats[g].name # Blank
        /\ ~SubjectDue(g) /\ ~InSync(g)
        => chats[g].name = subject[g]

(***************************************************************************)
(* A 1:1 chat's contact_name is the address book's once no event of the    *)
(* chat is due or in work, unless a read or write failed or History wrote  *)
(* a name it had read before; the chat's next event repairs that.          *)
(***************************************************************************)
ContactsSettled ==
    \A c \in Contacts \ astray :
        /\ chats[c] # NoRow
        /\ ~ChatDue(c)
        /\ thread["history"] # Idle => ChatOfEvent(thread["history"].event) # c
        => chats[c].contact = saved[c]

(***************************************************************************)
(* As long as the connection keeps coming up again, every group ends up    *)
(* with its present subject and keeps it, whatever syncs overtook, missed  *)
(* or left half-written before.                                            *)
(***************************************************************************)
Reconnects == \E s \in Syncs : Connected(s)

GroupsConverge ==
    []<><<Reconnects>>_vars =>
        \A g \in Groups : <>[](chats[g] # NoRow /\ chats[g].name = subject[g])

(***************************************************************************)
(* messagestore.go's messageRecord: the body is empty for a                *)
(* deleted-for-everyone message, whatever it held before.  So once a       *)
(* revoke has been handled the store does not show the message again.      *)
(***************************************************************************)
RevokedStaysHidden ==
    \A i \in 1 .. next - 1 :
        log[i].kind = "revoke" /\ messages[log[i].what] # NoRow
            => messages[log[i].what].body = Blank

=============================================================================
