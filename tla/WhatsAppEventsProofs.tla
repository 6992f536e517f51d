------------------------ MODULE WhatsAppEventsProofs ------------------------
(***************************************************************************)
(* Proof that the message store of WhatsAppEvents settles on what the      *)
(* account shows, for any sets of chats, messages, names, bodies and sync  *)
(* goroutines and any bounds.                                              *)
(*                                                                         *)
(* MessagesSettled is not inductive: it says nothing of a row while an     *)
(* event about its message is due.  The invariant adds what the log says   *)
(* of each message (LogTells), what a busy goroutine is handling (Works)   *)
(* and what a row keeps while events are due (Rows).  On top of it,        *)
(* GroupInv follows a group's subject from the log through the syncs to    *)
(* the row, and ContactInv a contact's name from the address book through  *)
(* the two dispatch goroutines.                                            *)
(***************************************************************************)
EXTENDS WhatsAppEvents, TLAPS

\* Event i of the log is about message m.
About(i, m) == AboutMessage(log[i]) /\ log[i].what = m

Positions == 1 .. Len(log)

\* No event about m before, or after, position i.
NoneBefore(i, m) == \A j \in Positions : j < i => ~About(j, m)
NoneAfter(i, m)  == \A j \in Positions : j > i => ~About(j, m)

\* The log and the account agree: a send is the first event about its
\* message, a revoke ends it, the last event gives its present content.
Sends(i, m) == log[i].kind = "send" =>
    log[i].text = said[m].first /\ ~InHistory(m) /\ NoneBefore(i, m)

Decides(i, m) == NoneAfter(i, m) =>
    IF log[i].kind = "revoke" THEN said[m].state = "revoked"
                              ELSE said[m].state = "shown" /\ said[m].now = log[i].text

Ends(i, m) == log[i].kind = "revoke" => said[m].state = "revoked"

Tells(m) ==
    /\ said[m].state = "unsent" => ~InHistory(m) /\ messages[m] = NoRow
    /\ said[m].state = "revoked" => said[m].now = Blank
    /\ (\A i \in Positions : ~About(i, m)) =>
            said[m].now = said[m].first /\ (said[m].state = "revoked" => said[m].first = Blank)
    /\ \A i \in Positions : About(i, m) =>
            said[m].state # "unsent" /\ Sends(i, m) /\ Decides(i, m) /\ Ends(i, m)

LogTells == \A m \in Msgs : Tells(m)

\* A busy goroutine handles the event it was given; only message events
\* reach the last statement.
Works ==
    /\ thread["live"] # Idle => next \in Positions /\ thread["live"].event = log[next]
    /\ thread["history"] # Idle =>
            LET m == thread["history"].event.what
            IN  /\ m \in Msgs \ backlog
                /\ thread["history"].event = Replay(m)
    /\ \A t \in Threads :
          /\ thread[t].at = "write" => AboutMessage(thread[t].event)
          /\ thread[t].at \in {"resolve", "upsert"} => ChatOfEvent(thread[t].event) \in Contacts

EditHandled(m) == \E i \in Positions : i < next /\ About(i, m) /\ log[i].kind = "edit"
EditSaid(m)    == \E i \in Positions : About(i, m) /\ log[i].kind = "edit"
SendDue(m)     == \E i \in Positions : i >= next /\ About(i, m) /\ log[i].kind = "send"

\* What every row keeps.
RowSound(m) ==
    messages[m] # NoRow =>
        /\ said[m].first # Blank
        /\ messages[m].deleted => said[m].state = "revoked"
        /\ messages[m].edited => EditSaid(m)

\* What a row keeps when neither a fault nor an overtaking replay hit it.
RowKept(m) ==
    /\ InHistory(m) => \A i \in Positions : i < next => ~About(i, m)
    /\ ~InHistory(m) /\ said[m].state # "unsent" /\ said[m].first # Blank =>
          /\ ~SendDue(m) => messages[m] # NoRow
          /\ EditHandled(m) => messages[m].edited
          /\ (\A i \in Positions : i >= next => ~About(i, m)) =>
                /\ messages[m].body = said[m].now
                /\ said[m].state = "revoked" => messages[m].deleted

Rows == \A m \in Msgs : RowSound(m) /\ (m \notin astray => RowKept(m))

IInv == TypeOK /\ LogTells /\ Works /\ Rows

-----------------------------------------------------------------------------
(* Facts about the model's values *)

USE BoundsAssumption, KindsAssumption, ChatOfAssumption, BlankAssumption, NoRowAssumption
USE DEF Chats, Text, Threads, account, tables

LEMMA EventShape ==
  ASSUME NEW e \in Events
  PROVE  /\ AboutMessage(e) => /\ e.what \in Msgs /\ e.text \in Text
                               /\ ChatOf[e.what] \in Chats
         /\ e.kind = "subject" => e.what \in Groups /\ e.text \in Names
         /\ e.kind = "contact" => e.what \in Contacts
         /\ ChatOfEvent(e) \in Chats
         /\ ~AboutMessage(e) => e.kind \in {"subject", "contact"}
         /\ e.kind \in {"send", "edit", "revoke", "subject", "contact"}
  BY DEF Events, AboutMessage, ChatOfEvent

LEMMA ThreadShape ==
  ASSUME TypeOK, NEW t \in Threads
  PROVE  /\ thread[t].at = "idle" <=> thread[t] = Idle
         /\ thread[t] # Idle =>
               /\ thread[t].at \in {"resolve", "upsert", "write"}
               /\ thread[t].event \in Events
               /\ thread[t].name \in Names \cup {Blank}
  BY DEF TypeOK, Busy, Idle

LEMMA ReplayIsEvent ==
  ASSUME TypeOK, NEW m \in Msgs
  PROVE  /\ Replay(m) \in Events /\ AboutMessage(Replay(m))
         /\ Replay(m).what = m /\ Replay(m).kind = "send" /\ Replay(m).text = said[m].first
  BY DEF TypeOK, Said, Replay, Events, AboutMessage

LEMMA Numbers ==
  ASSUME TypeOK
  PROVE  next \in Nat /\ next >= 1 /\ Len(log) \in Nat /\ Positions \subseteq Nat
<1>1. log \in Seq(Events) /\ next \in 1 .. Len(log) + 1
  BY DEF TypeOK
<1>2. Len(log) \in Nat
  BY <1>1
<1>3. QED BY <1>1, <1>2 DEF Positions

LEMMA DueIsEvent ==
  ASSUME TypeOK, NEW t \in Threads, NEW e \in Due(t)
  PROVE  /\ e \in Events
         /\ t = "live" => next \in 1 .. Len(log) /\ e = log[next]
         /\ t = "history" => e.what \in backlog /\ e = Replay(e.what)
<1>1. CASE t = "live"
  <2>1. next \in 1 .. Len(log) /\ e = log[next]
    BY <1>1 DEF Due
  <2>2. log[next] \in Events
    BY <2>1 DEF TypeOK
  <2>3. QED BY <1>1, <2>1, <2>2
<1>2. CASE t = "history"
  <2>1. PICK m \in backlog : e = Replay(m)
    BY <1>2 DEF Due
  <2>2. m \in Msgs
    BY DEF TypeOK
  <2>3. QED BY <1>2, <2>1, <2>2, ReplayIsEvent
<1>3. QED BY <1>1, <1>2

LEMMA AppendFacts ==
  ASSUME log \in Seq(Events), NEW e \in Events, log' = Append(log, e)
  PROVE  /\ log' \in Seq(Events)
         /\ Len(log) \in Nat /\ Len(log') = Len(log) + 1
         /\ log'[Len(log) + 1] = e
         /\ \A i \in 1 .. Len(log) : log'[i] = log[i]
  OBVIOUS

LEMMA ChatsKeepType ==
  ASSUME NEW t \in ChatTable, NEW c \in Chats, NEW n \in Names \cup {Blank}
  PROVE  /\ EnsureChat(t, c) \in ChatTable
         /\ UpsertChatName(t, c, n) \in ChatTable
         /\ UpsertContactName(t, c, n) \in ChatTable
<1> USE DEF ChatTable, ChatRow
<1>1. EnsureChat(t, c) \in ChatTable            BY DEF EnsureChat
<1>2. UpsertChatName(t, c, n) \in ChatTable     BY DEF UpsertChatName
<1>3. UpsertContactName(t, c, n) \in ChatTable  BY DEF UpsertContactName
<1>4. QED BY <1>1, <1>2, <1>3

LEMMA MessagesKeepType ==
  ASSUME NEW t \in MsgTable, NEW m \in Msgs, NEW b \in Text
  PROVE  /\ MarkDeleted(t, m) \in MsgTable
         /\ MarkEdited(t, m, b) \in MsgTable
         /\ AppendMsg(t, m, b) \in MsgTable
<1> USE DEF MsgTable, MsgRow
<1>1. MarkDeleted(t, m) \in MsgTable    BY DEF MarkDeleted
<1>2. MarkEdited(t, m, b) \in MsgTable  BY DEF MarkEdited
<1>3. AppendMsg(t, m, b) \in MsgTable   BY DEF AppendMsg
<1>4. QED BY <1>1, <1>2, <1>3

-----------------------------------------------------------------------------
(* Steps that leave the account and the messages table alone *)

\* Live moves on past an event about no message, or about one led astray,
\* or back.
Passes ==
    /\ next' \in Nat
    /\ \/ next' <= next
       \/ next' = next + 1 /\ \A m \in Msgs \ astray' : ~About(next, m)

\* No message returns from astray; History lets go of none but those astray.
Steady ==
    /\ \A m \in Msgs : InHistory(m)' => InHistory(m)
    /\ \A m \in Msgs \ astray' : m \notin astray /\ (InHistory(m) => InHistory(m)')

\* A row outlives a step that leaves it alone, unless its message goes
\* astray or Live moves past an event about it.
LEMMA RowUndisturbed ==
  ASSUME IInv, said' = said, log' = log, next' \in Nat,
         NEW m \in Msgs, messages'[m] = messages[m],
         m \notin astray' => /\ m \notin astray /\ (InHistory(m)' <=> InHistory(m))
                             /\ \/ next' <= next
                                \/ next' = next + 1 /\ ~About(next, m)
  PROVE  RowSound(m)' /\ (m \notin astray' => RowKept(m)')
<1>1. \A i \in Positions : About(i, m)' <=> About(i, m)
  BY DEF About
<1>2. Positions' = Positions /\ Positions \subseteq Int /\ next \in Int
  BY Numbers DEF Positions, IInv
<1>3. RowSound(m)'
  BY <1>1, <1>2 DEF IInv, Rows, RowSound, EditSaid
<1>4. ASSUME m \notin astray'
      PROVE  RowKept(m)'
  <2>1. RowKept(m) /\ (InHistory(m)' <=> InHistory(m))
    BY <1>4 DEF IInv, Rows
  <2>2. \A i \in Positions : i < next' /\ About(i, m) => i < next
    BY <1>2, <1>4
  <2>3. QED BY <1>1, <1>2, <1>4, <2>1, <2>2 DEF RowKept, SendDue, EditHandled
<1>5. QED BY <1>3, <1>4

LEMMA Undisturbed ==
  ASSUME IInv, said' = said, log' = log, messages' = messages, Passes, Steady
  PROVE  LogTells' /\ Rows'
<1> USE DEF Passes, Steady
<1>1. \A m \in Msgs, i \in Positions : About(i, m)' <=> About(i, m)
  BY DEF About
<1>2. Positions' = Positions /\ Positions \subseteq Int /\ next \in Int
  BY Numbers DEF Positions, IInv
<1>3. LogTells'
  BY <1>1, <1>2 DEF IInv, LogTells, Tells, Ends, Sends, Decides, NoneBefore, NoneAfter
<1>4. \A m \in Msgs : RowSound(m)' /\ (m \notin astray' => RowKept(m)')
  BY RowUndisturbed
<1>5. QED BY <1>3, <1>4 DEF Rows

\* The goroutines and tables keep their types when one goroutine moves.
LEMMA ContinueShape ==
  ASSUME TypeOK, NEW t \in Threads, NEW e \in Events,
         NEW at \in {"resolve", "upsert", "write"}, NEW n \in Names \cup {Blank},
         Goto(t, at, e, n)
  PROVE  /\ thread' \in [Threads -> Busy \cup {Idle}]
         /\ thread'[t] # Idle /\ thread'[t].at = at /\ thread'[t].event = e /\ thread'[t].name = n
         /\ \A u \in Threads \ {t} : thread'[u] = thread[u]
<1>1. [at |-> at, event |-> e, name |-> n] \in Busy
  BY DEF Busy
<1>2. QED BY <1>1 DEF Goto, TypeOK, Idle

LEMMA ReturnShape ==
  ASSUME TypeOK, NEW t \in Threads, Return(t), t = "live" => next \in Positions
  PROVE  /\ thread' \in [Threads -> Busy \cup {Idle}]
         /\ thread'[t] = Idle
         /\ \A u \in Threads \ {t} : thread'[u] = thread[u]
         /\ next' \in 1 .. Len(log) + 1
         /\ next' = IF t = "live" THEN next + 1 ELSE next
  BY DEF Return, TypeOK, Positions

\* What a busy goroutine's event says of the account.
LEMMA WorkShape ==
  ASSUME IInv, NEW t \in Threads, thread[t] # Idle
  PROVE  /\ thread[t].event \in Events
         /\ t = "live" => next \in Positions /\ thread[t].event = log[next]
         /\ t = "history" => /\ thread[t].event.what \in Msgs \ backlog
                             /\ thread[t].event = Replay(thread[t].event.what)
                             /\ AboutMessage(thread[t].event)
         /\ thread[t].at = "write" => AboutMessage(thread[t].event)
  BY ThreadShape, ReplayIsEvent DEF IInv, Works

\* handleMessageEvent's first statement.
LEMMA EnsureKeeps ==
  ASSUME IInv, NEW t \in Threads, NEW e \in Due(t), Ensure(t, e)
  PROVE  IInv'
<1>1. /\ TypeOK /\ e \in Events /\ thread[t] = Idle /\ AboutMessage(e)
      /\ e.what \in Msgs /\ ChatOf[e.what] \in Chats
      /\ t = "live" => next \in Positions /\ e = log[next]
      /\ t = "history" => e.what \in backlog /\ e = Replay(e.what)
  BY DueIsEvent, EventShape DEF IInv, Ensure, Take, Positions
<1>2. backlog' = IF t = "history" THEN backlog \ {e.what} ELSE backlog
  BY DEF Ensure, Take
<1>3. CASE /\ Succeeds /\ chats' = EnsureChat(chats, ChatOf[e.what])
           /\ Continue(t, AfterEnsure(e), e, Blank) /\ UNCHANGED astray
  <2>1. /\ thread' \in [Threads -> Busy \cup {Idle}]
        /\ thread'[t] # Idle /\ thread'[t].event = e /\ thread'[t].at = AfterEnsure(e)
        /\ \A u \in Threads \ {t} : thread'[u] = thread[u]
        /\ next' = next
    BY <1>1, <1>3, ContinueShape DEF Continue, AfterEnsure
  <2>2. TypeOK'
    BY <1>1, <1>2, <1>3, <2>1, ChatsKeepType DEF TypeOK, Ensure, Succeeds
  <2>3. \A m \in Msgs : InHistory(m)' <=> InHistory(m)
    BY <1>1, <1>2, <2>1 DEF InHistory
  <2>4. LogTells' /\ Rows'
    <3>1. Passes
      BY <1>1, <2>1, Numbers DEF Passes
    <3>2. Steady
      BY <1>3, <2>3 DEF Steady
    <3>3. QED BY <3>1, <3>2, Undisturbed DEF Ensure
  <2>5. Works'
    BY <1>1, <1>2, <2>1 DEF IInv, Works, Ensure, AfterEnsure, ChatOfEvent, Replay, Positions
  <2>6. QED BY <2>2, <2>4, <2>5 DEF IInv
<1>4. CASE /\ Fails /\ Return(t) /\ astray' = astray \cup {e.what, ChatOf[e.what]}
           /\ UNCHANGED chats
  <2>1. /\ thread' \in [Threads -> Busy \cup {Idle}] /\ thread'[t] = Idle
        /\ \A u \in Threads \ {t} : thread'[u] = thread[u]
        /\ next' \in 1 .. Len(log) + 1
        /\ next' = IF t = "live" THEN next + 1 ELSE next
    BY <1>1, <1>4, ReturnShape
  <2>2. TypeOK'
    BY <1>1, <1>2, <1>4, <2>1 DEF TypeOK, Ensure, Fails
  <2>3. \A m \in Msgs : /\ InHistory(m)' => InHistory(m)
                        /\ m # e.what => (InHistory(m) => InHistory(m)')
    BY <1>1, <1>2, <2>1 DEF InHistory
  <2>4. LogTells' /\ Rows'
    <3>1. Passes
      BY <1>1, <1>4, <2>1, Numbers DEF Passes, About
    <3>2. Steady
      BY <1>4, <2>3 DEF Steady
    <3>3. QED BY <3>1, <3>2, Undisturbed DEF Ensure
  <2>5. Works'
    BY <1>1, <1>2, <2>1 DEF IInv, Works, Ensure, AfterEnsure, ChatOfEvent, Replay, Positions, Idle
  <2>6. QED BY <2>2, <2>4, <2>5 DEF IInv
<1>5. QED BY <1>3, <1>4 DEF Ensure

\* handleGroupInfoEvent, and the first step of handleContactEvent: only Live
\* is given their events.
LEMMA NotOfHistory ==
  ASSUME TypeOK, NEW t \in Threads, NEW e \in Due(t), ~AboutMessage(e)
  PROVE  /\ t = "live" /\ next \in Positions /\ e = log[next]
         /\ e.kind \in {"subject", "contact"}
         /\ \A m \in Msgs : ~About(next, m)
<1>1. t # "history"
  <2>1. SUFFICES ASSUME t = "history" PROVE FALSE
    OBVIOUS
  <2>2. e.what \in Msgs /\ e = Replay(e.what)
    BY <2>1, DueIsEvent DEF TypeOK
  <2>3. QED BY <2>2, ReplayIsEvent
<1>2. QED BY <1>1, DueIsEvent, EventShape DEF Positions, About

LEMMA GroupInfoKeeps ==
  ASSUME IInv, NEW t \in Threads, NEW e \in Due(t), GroupInfo(t, e)
  PROVE  IInv'
<1>1. /\ TypeOK /\ e \in Events /\ e.what \in Groups /\ e.text \in Names /\ thread[t] = Idle
      /\ e.kind = "subject" /\ ~AboutMessage(e)
  BY DueIsEvent, EventShape DEF IInv, GroupInfo, Take, AboutMessage
<1>2. t = "live" /\ next \in Positions /\ \A m \in Msgs : ~About(next, m)
  BY <1>1, NotOfHistory
<1>3. /\ thread' \in [Threads -> Busy \cup {Idle}] /\ thread'[t] = Idle
      /\ \A u \in Threads \ {t} : thread'[u] = thread[u]
      /\ next' \in 1 .. Len(log) + 1 /\ next' = next + 1
  BY <1>1, <1>2, ReturnShape DEF GroupInfo
<1>4. backlog' = backlog /\ (astray' = astray \/ astray' = astray \cup {e.what})
  BY <1>2 DEF GroupInfo, Take
<1>5. chats' = chats \/ chats' = UpsertChatName(chats, e.what, e.text)
  BY DEF GroupInfo
<1>6. chats' \in ChatTable
  BY <1>1, <1>5, ChatsKeepType DEF TypeOK
<1>7. faults' \in 0 .. MaxFaults
  BY <1>1 DEF TypeOK, GroupInfo, Succeeds, Fails
<1>8. TypeOK'
  BY <1>1, <1>3, <1>4, <1>6, <1>7 DEF TypeOK, GroupInfo
<1>9. LogTells' /\ Rows'
  <2>1. Passes
    BY <1>1, <1>2, <1>3, Numbers DEF Passes
  <2>2. Steady
    BY <1>1, <1>2, <1>3, <1>4 DEF Steady, InHistory
  <2>3. QED BY <2>1, <2>2, Undisturbed DEF GroupInfo
<1>10. Works'
  BY <1>2, <1>3, <1>4 DEF IInv, Works, GroupInfo, Replay, Positions, Idle
<1>11. QED BY <1>8, <1>9, <1>10 DEF IInv

LEMMA ContactEventKeeps ==
  ASSUME IInv, NEW t \in Threads, NEW e \in Due(t), ContactEvent(t, e)
  PROVE  IInv'
<1>1. /\ TypeOK /\ e \in Events /\ thread[t] = Idle /\ ~AboutMessage(e)
  BY DueIsEvent DEF IInv, ContactEvent, Take, AboutMessage
<1>2. t = "live" /\ next \in Positions /\ e = log[next]
  BY <1>1, NotOfHistory
<1>3. /\ thread' \in [Threads -> Busy \cup {Idle}]
      /\ thread'[t] # Idle /\ thread'[t].event = e /\ thread'[t].at = "resolve"
      /\ \A u \in Threads \ {t} : thread'[u] = thread[u]
      /\ next' = next
  BY <1>1, ContinueShape DEF ContactEvent, Continue
<1>4. backlog' = backlog
  BY <1>2 DEF ContactEvent, Take
<1>5. TypeOK'
  BY <1>1, <1>3, <1>4 DEF TypeOK, ContactEvent
<1>6. LogTells' /\ Rows'
  <2>1. Passes
    BY <1>1, <1>3, Numbers DEF Passes
  <2>2. Steady
    BY <1>1, <1>2, <1>3, <1>4 DEF Steady, InHistory, ContactEvent
  <2>3. QED BY <2>1, <2>2, Undisturbed DEF ContactEvent
<1>7. Works'
  BY <1>1, <1>2, <1>3, <1>4, EventShape DEF IInv, Works, ContactEvent, ChatOfEvent, Replay, Positions
<1>8. QED BY <1>5, <1>6, <1>7 DEF IInv

LEMMA ResolveKeeps ==
  ASSUME IInv, NEW t \in Threads, Resolve(t)
  PROVE  IInv'
<1> DEFINE e == thread[t].event
           c == ChatOfEvent(e)
<1>1. /\ TypeOK /\ thread[t] # Idle /\ e \in Events /\ c \in Contacts /\ saved[c] \in Names \cup {Blank}
  <2>1. TypeOK /\ thread[t].at = "resolve" /\ c \in Contacts
    BY DEF IInv, Works, Resolve
  <2>2. QED BY <2>1, ThreadShape DEF TypeOK, Idle
<1>2. PICK n \in Names \cup {Blank} : Continue(t, "upsert", e, n)
  BY <1>1 DEF Resolve
<1>3. /\ thread' \in [Threads -> Busy \cup {Idle}]
      /\ thread'[t] # Idle /\ thread'[t].event = e /\ thread'[t].at = "upsert"
      /\ \A u \in Threads \ {t} : thread'[u] = thread[u]
      /\ next' = next
  BY <1>1, <1>2, ContinueShape DEF Continue
<1>4. astray' \subseteq Msgs \cup Chats /\ \A m \in Msgs \ astray' : m \notin astray
  BY <1>1 DEF Resolve, TypeOK
<1>5. faults' \in 0 .. MaxFaults
  BY <1>1 DEF TypeOK, Resolve, Succeeds, Fails
<1>6. TypeOK'
  BY <1>1, <1>3, <1>4, <1>5 DEF TypeOK, Resolve
<1>7. LogTells' /\ Rows'
  <2>1. Passes
    BY <1>1, <1>3, Numbers DEF Passes
  <2>2. Steady
    BY <1>1, <1>3, <1>4 DEF Steady, InHistory, Resolve
  <2>3. QED BY <2>1, <2>2, Undisturbed DEF Resolve
<1>8. Works'
  BY <1>1, <1>3 DEF IInv, Works, Resolve, Replay, Positions
<1>9. QED BY <1>6, <1>7, <1>8 DEF IInv

\* UpsertContactName: the handler goes on to its message, or is done.
LEMMA UpsertKeeps ==
  ASSUME IInv, NEW t \in Threads, Upsert(t)
  PROVE  IInv'
<1> DEFINE e == thread[t].event
           c == ChatOfEvent(e)
<1>1. /\ TypeOK /\ thread[t] # Idle /\ e \in Events /\ c \in Chats
      /\ thread[t].name \in Names \cup {Blank}
  BY ThreadShape, EventShape DEF IInv, Upsert, Idle
<1>2. chats' \in ChatTable
  BY <1>1, ChatsKeepType DEF TypeOK, Upsert
<1>3. astray' = astray \/ astray' = astray \cup {c}
  BY DEF Upsert
<1>4. faults' \in 0 .. MaxFaults
  BY <1>1 DEF TypeOK, Upsert, Succeeds, Fails
<1>5. UNCHANGED <<said, subject, saved, log, backlog, messages, sync, kills>>
  BY DEF Upsert
<1>6. CASE AboutMessage(e)
  <2>1. /\ thread' \in [Threads -> Busy \cup {Idle}]
        /\ thread'[t] # Idle /\ thread'[t].event = e /\ thread'[t].at = "write"
        /\ \A u \in Threads \ {t} : thread'[u] = thread[u]
        /\ next' = next
    BY <1>1, <1>6, ContinueShape DEF Upsert, Continue
  <2>2. TypeOK'
    BY <1>1, <1>2, <1>3, <1>4, <1>5, <2>1 DEF TypeOK
  <2>3. LogTells' /\ Rows'
    <3>1. Passes
      BY <1>1, <2>1, Numbers DEF Passes
    <3>2. Steady
      BY <1>1, <1>3, <1>5, <2>1 DEF Steady, InHistory
    <3>3. QED BY <1>5, <3>1, <3>2, Undisturbed
  <2>4. Works'
    BY <1>1, <1>5, <1>6, <2>1 DEF IInv, Works, Replay, Positions
  <2>5. QED BY <2>2, <2>3, <2>4 DEF IInv
<1>7. CASE ~AboutMessage(e)
  <2>1. t = "live" /\ next \in Positions /\ e = log[next]
    BY <1>1, <1>7, WorkShape
  <2>2. /\ thread' \in [Threads -> Busy \cup {Idle}] /\ thread'[t] = Idle
        /\ \A u \in Threads \ {t} : thread'[u] = thread[u]
        /\ next' \in 1 .. Len(log) + 1 /\ next' = next + 1
    BY <1>1, <1>7, <2>1, ReturnShape DEF Upsert
  <2>3. TypeOK'
    BY <1>1, <1>2, <1>3, <1>4, <1>5, <2>2 DEF TypeOK
  <2>4. LogTells' /\ Rows'
    <3>1. Passes
      BY <1>1, <1>7, <2>1, <2>2, Numbers DEF Passes, About
    <3>2. Steady
      BY <1>1, <1>3, <1>5, <2>1, <2>2 DEF Steady, InHistory
    <3>3. QED BY <1>5, <3>1, <3>2, Undisturbed
  <2>5. Works'
    BY <1>1, <1>5, <2>1, <2>2 DEF IInv, Works, Replay, Positions, Idle
  <2>6. QED BY <2>3, <2>4, <2>5 DEF IInv
<1>8. QED BY <1>6, <1>7

\* syncJoinedGroups writes chats only.
LEMMA SyncShape ==
  ASSUME TypeOK, NEW s \in Syncs, sync[s].at = "writing"
  PROVE  sync[s] \in Writing /\ sync[s].got \in [Groups -> Names] /\ sync[s].todo \subseteq Groups
  BY DEF TypeOK, Writing, NoSync, Asking

LEMMA SyncKeeps ==
  ASSUME IInv, NEW s \in Syncs, SyncJoinedGroups(s)
  PROVE  IInv'
<1> USE DEF IInv
<1>1. UNCHANGED <<said, subject, saved, log, next, backlog, messages, thread, kills>>
  BY DEF SyncJoinedGroups, Connected, Fetch, WriteGroup
<1>2. TypeOK'
  <2>1. CASE Connected(s)
    BY <1>1, <2>1 DEF TypeOK, Connected
  <2>2. CASE Fetch(s)
    <3>1. SyncWith(subject, Groups) \in Writing \cup {NoSync}
      BY DEF SyncWith, Writing, TypeOK
    <3>2. sync' \in [Syncs -> Writing \cup {NoSync, Asking}]
      BY <2>2, <3>1 DEF TypeOK, Fetch
    <3>3. faults' \in 0 .. MaxFaults /\ astray' \subseteq astray
      BY <2>2 DEF TypeOK, Fetch, Succeeds, Fails
    <3>4. QED BY <1>1, <2>2, <3>2, <3>3 DEF TypeOK, Fetch
  <2>3. ASSUME NEW g \in Groups, WriteGroup(s, g)
        PROVE  TypeOK'
    <3>1. sync[s].got \in [Groups -> Names] /\ sync[s].todo \subseteq Groups
      BY <2>3, SyncShape DEF WriteGroup
    <3>2. SyncWith(sync[s].got, sync[s].todo \ {g}) \in Writing \cup {NoSync}
      BY <3>1 DEF SyncWith, Writing
    <3>3. sync' \in [Syncs -> Writing \cup {NoSync, Asking}]
      BY <2>3, <3>2 DEF TypeOK, WriteGroup
    <3>4. sync[s].got[g] \in Names /\ g \in Chats
      BY <3>1
    <3>5. chats' \in ChatTable
      BY <2>3, <3>4, ChatsKeepType DEF TypeOK, WriteGroup
    <3>6. faults' \in 0 .. MaxFaults /\ astray' \subseteq astray \cup Groups
      BY <2>3, <3>1 DEF TypeOK, WriteGroup, Succeeds, Fails
    <3>7. QED BY <1>1, <3>3, <3>5, <3>6 DEF TypeOK
  <2>4. QED BY <2>1, <2>2, <2>3 DEF SyncJoinedGroups
<1>3. \A m \in Msgs \ astray' : m \notin astray
  BY DEF SyncJoinedGroups, Connected, Fetch, WriteGroup
<1>4. LogTells' /\ Rows'
  <2>1. Passes
    BY <1>1, Numbers DEF Passes
  <2>2. Steady
    BY <1>1, <1>3 DEF Steady, InHistory
  <2>3. QED BY <1>1, <2>1, <2>2, Undisturbed
<1>5. Works'
  BY <1>1 DEF Works, Replay, Positions
<1>6. QED BY <1>2, <1>4, <1>5

\* A kill: what History still held goes astray.
LEMMA KillKeeps ==
  ASSUME IInv, Kill
  PROVE  IInv'
<1>1. TypeOK /\ UNCHANGED <<said, subject, saved, log, chats, messages, faults>>
  BY DEF IInv, Kill
<1>2. \A m \in Msgs : InHistory(m) => m \in astray'
  BY <1>1 DEF Kill, Unfinished, InHistory
<1>3. next' \in 1 .. next /\ astray \subseteq astray'
  BY DEF Kill
<1>4. Unfinished \subseteq Msgs \cup Chats
  <2>1. thread["history"] # Idle =>
            {thread["history"].event.what, ChatOf[thread["history"].event.what]} \subseteq Msgs \cup Chats
    BY <1>1, WorkShape, EventShape
  <2>2. \A s \in Syncs : sync[s].at = "writing" => sync[s].todo \subseteq Chats
    BY <1>1, SyncShape
  <2>3. QED BY <1>1, <2>1, <2>2 DEF Unfinished, TypeOK
<1>5. TypeOK'
  <2>1. next' \in 1 .. Len(log) + 1
    BY <1>1, <1>3, Numbers DEF TypeOK
  <2>2. thread' \in [Threads -> Busy \cup {Idle}] /\ sync' \in [Syncs -> Writing \cup {NoSync, Asking}]
    BY DEF Kill
  <2>3. kills' \in 0 .. MaxKills /\ astray' \subseteq Msgs \cup Chats /\ backlog' = {}
    BY <1>1, <1>4 DEF Kill, TypeOK
  <2>4. QED BY <1>1, <2>1, <2>2, <2>3 DEF TypeOK
<1>6. LogTells' /\ Rows'
  <2>1. Passes
    BY <1>1, <1>3, Numbers DEF Passes
  <2>2. Steady
    BY <1>2, <1>3 DEF Steady, InHistory, Kill
  <2>3. QED BY <1>1, <2>1, <2>2, Undisturbed
<1>7. Works'
  BY DEF Kill, Works, Idle
<1>8. QED BY <1>5, <1>6, <1>7 DEF IInv

-----------------------------------------------------------------------------
(* The last statement of handleMessageEvent *)

\* It rewrites one row at most.
LEMMA WrittenShape ==
  ASSUME TypeOK, NEW e \in Events, AboutMessage(e), messages' = Written(messages, e)
  PROVE  /\ messages' \in MsgTable
         /\ \A k \in Msgs \ {e.what} : messages'[k] = messages[k]
         /\ e.kind = "revoke" =>
               messages'[e.what] = IF messages[e.what] = NoRow THEN NoRow
                                   ELSE [body |-> Blank, deleted |-> TRUE,
                                         edited |-> messages[e.what].edited]
         /\ e.kind = "edit" =>
               messages'[e.what] = IF messages[e.what] = NoRow THEN NoRow
                                   ELSE [body |-> e.text, edited |-> TRUE,
                                         deleted |-> messages[e.what].deleted]
         /\ e.kind = "send" =>
               messages'[e.what] = IF e.text = Blank THEN messages[e.what]
                                   ELSE [body |-> e.text, deleted |-> FALSE, edited |-> FALSE]
<1>1. e.what \in Msgs /\ e.text \in Text /\ messages \in MsgTable
  BY EventShape DEF TypeOK
<1>2. messages' \in MsgTable
  BY <1>1, MessagesKeepType DEF Written, AboutMessage
<1>3. QED
  BY <1>1, <1>2 DEF Written, AboutMessage, MsgTable, MarkDeleted, MarkEdited, AppendMsg

\* Live has written the row of the event it is at.
LEMMA LiveRow ==
  ASSUME IInv, NEW m \in Msgs, next \in Positions, About(next, m),
         said' = said, log' = log, next' = next + 1,
         messages' = Written(messages, log[next]),
         InHistory(m)' <=> InHistory(m),
         m \notin astray' => m \notin astray /\ ~InHistory(m)
  PROVE  RowSound(m)' /\ (m \notin astray' => RowKept(m)')
<1> DEFINE e == log[next]
<1>1. /\ TypeOK /\ e \in Events /\ AboutMessage(e) /\ e.what = m
      /\ e.kind \in {"send", "edit", "revoke"}
  BY DEF IInv, TypeOK, Positions, About, AboutMessage
<1>2. /\ Positions' = Positions /\ Positions \subseteq Int /\ next \in Int
      /\ \A i \in Positions : About(i, m)' <=> About(i, m)
  BY Numbers DEF Positions, IInv, About
<1>3. Tells(m) /\ Sends(next, m) /\ Decides(next, m) /\ Ends(next, m) /\ RowSound(m)
  BY <1>1 DEF IInv, LogTells, Tells, Rows
<1>4. RowSound(m)'
  <2>0. EditSaid(m)' <=> EditSaid(m)
    BY <1>2 DEF EditSaid
  <2>1. CASE e.kind = "send"
    <3>1. messages'[m] = IF e.text = Blank THEN messages[m]
                         ELSE [body |-> e.text, deleted |-> FALSE, edited |-> FALSE]
      BY <1>1, <2>1, WrittenShape
    <3>2. e.text = said[m].first
      BY <1>3, <2>1 DEF Sends
    <3>3. QED BY <1>3, <2>0, <3>1, <3>2 DEF RowSound
  <2>2. CASE e.kind = "edit"
    <3>1. messages'[m] = IF messages[m] = NoRow THEN NoRow
                         ELSE [body |-> e.text, edited |-> TRUE, deleted |-> messages[m].deleted]
      BY <1>1, <2>2, WrittenShape
    <3>2. EditSaid(m)
      BY <2>2 DEF EditSaid
    <3>3. QED BY <1>3, <2>0, <3>1, <3>2 DEF RowSound
  <2>3. CASE e.kind = "revoke"
    <3>1. messages'[m] = IF messages[m] = NoRow THEN NoRow
                         ELSE [body |-> Blank, deleted |-> TRUE, edited |-> messages[m].edited]
      BY <1>1, <2>3, WrittenShape
    <3>2. said[m].state = "revoked"
      BY <1>3, <2>3 DEF Ends
    <3>3. QED BY <1>3, <2>0, <3>1, <3>2 DEF RowSound
  <2>4. QED BY <1>1, <2>1, <2>2, <2>3
<1>5. ASSUME m \notin astray', said[m].state # "unsent", said[m].first # Blank
      PROVE  /\ ~SendDue(m)' => messages'[m] # NoRow
             /\ EditHandled(m)' => messages'[m].edited
             /\ (\A i \in Positions : i >= next' => ~About(i, m)) =>
                   /\ messages'[m].body = said[m].now
                   /\ said[m].state = "revoked" => messages'[m].deleted
  <2>1. /\ RowKept(m) /\ ~InHistory(m)
    BY <1>5 DEF IInv, Rows
  <2>2. (\A i \in Positions : i >= next' => ~About(i, m)) => NoneAfter(next, m)
    BY <1>2 DEF NoneAfter
  <2>3. CASE e.kind = "send"
    <3>1. messages'[m] = [body |-> said[m].first, deleted |-> FALSE, edited |-> FALSE]
      BY <1>1, <1>3, <1>5, <2>3, WrittenShape DEF Sends
    <3>2. ~EditHandled(m)'
      BY <1>1, <1>2, <1>3, <2>3 DEF EditHandled, Sends, NoneBefore
    <3>3. messages'[m] # NoRow
      <4>1. said[m].first \in Text
        BY <1>1 DEF TypeOK, Said
      <4>2. messages'[m] \in MsgRow
        BY <3>1, <4>1 DEF MsgRow
      <4>3. QED BY <4>2
    <3>4. QED BY <1>3, <2>2, <2>3, <3>1, <3>2, <3>3 DEF Decides, Sends
  <2>4. CASE e.kind # "send"
    <3>1. ~SendDue(m)
      <4>1. SUFFICES ASSUME NEW i \in Positions, i >= next, About(i, m), log[i].kind = "send"
                     PROVE  FALSE
        BY DEF SendDue
      <4>2. NoneBefore(i, m)
        BY <4>1, <1>3 DEF Tells, Sends
      <4>3. i # next
        BY <2>4, <4>1
      <4>4. next < i
        BY <1>2, <4>1, <4>3
      <4>5. QED BY <4>2, <4>4 DEF NoneBefore
    <3>2. /\ messages[m] # NoRow /\ messages[m] \in MsgRow
          /\ EditHandled(m) => messages[m].edited
      BY <1>1, <1>5, <2>1, <3>1 DEF RowKept, TypeOK, MsgTable
    <3>3. EditHandled(m)' => EditHandled(m) \/ e.kind = "edit"
      BY <1>2 DEF EditHandled
    <3>4. CASE e.kind = "edit"
      <4>1. messages'[m] = [body |-> e.text, edited |-> TRUE, deleted |-> messages[m].deleted]
        BY <1>1, <3>2, <3>4, WrittenShape
      <4>2. e.text \in Text /\ messages[m].deleted \in BOOLEAN
        BY <1>1, <3>2, EventShape DEF MsgRow
      <4>3. messages'[m] \in MsgRow
        BY <4>1, <4>2 DEF MsgRow
      <4>4. messages'[m] # NoRow
        BY <4>3
      <4>5. QED BY <1>3, <2>2, <3>4, <4>1, <4>4 DEF Decides
    <3>5. CASE e.kind = "revoke"
      <4>1. messages'[m] = [body |-> Blank, deleted |-> TRUE, edited |-> messages[m].edited]
        BY <1>1, <3>2, <3>5, WrittenShape
      <4>2. messages[m].edited \in BOOLEAN
        BY <3>2 DEF MsgRow
      <4>3. messages'[m] \in MsgRow
        BY <4>1, <4>2 DEF MsgRow
      <4>4. messages'[m] # NoRow
        BY <4>3
      <4>5. said[m].now = Blank
        BY <1>3, <3>5 DEF Ends, Tells
      <4>6. QED BY <3>2, <3>3, <3>5, <4>1, <4>4, <4>5
    <3>6. QED BY <1>1, <2>4, <3>4, <3>5
  <2>5. QED BY <2>3, <2>4
<1>6. ASSUME m \notin astray'
      PROVE  RowKept(m)'
  <2>1. ~InHistory(m)'
    BY <1>6
  <2>2. QED BY <1>2, <1>5, <1>6, <2>1 DEF RowKept
<1>7. QED BY <1>4, <1>6

\* History has written the row of a message nothing has happened to since
\* the link, unless the message is astray.
LEMMA HistoryRow ==
  ASSUME IInv, NEW m \in Msgs, InHistory(m), ~InHistory(m)',
         said' = said, log' = log, next' = next, astray' = astray,
         messages' = Written(messages, Replay(m))
  PROVE  RowSound(m)' /\ (m \notin astray' => RowKept(m)')
<1>1. /\ TypeOK /\ Replay(m) \in Events /\ AboutMessage(Replay(m)) /\ Replay(m).what = m
      /\ Replay(m).kind = "send" /\ Replay(m).text = said[m].first
  BY ReplayIsEvent DEF IInv
<1>2. /\ Positions' = Positions /\ Positions \subseteq Int /\ next \in Int
      /\ \A i \in Positions : About(i, m)' <=> About(i, m)
  BY Numbers DEF Positions, IInv, About
<1>3. messages'[m] = IF said[m].first = Blank THEN messages[m]
                     ELSE [body |-> said[m].first, deleted |-> FALSE, edited |-> FALSE]
  BY <1>1, WrittenShape
<1>4. RowSound(m)'
  <2>1. RowSound(m) /\ (EditSaid(m)' <=> EditSaid(m))
    BY <1>2 DEF IInv, Rows, EditSaid
  <2>2. QED BY <1>3, <2>1 DEF RowSound
<1>5. ASSUME m \notin astray'
      PROVE  RowKept(m)'
  <2>1. \A i \in Positions : i < next => ~About(i, m)
    BY <1>5 DEF IInv, Rows, RowKept
  <2>2. ~EditHandled(m)'
    BY <1>2, <2>1 DEF EditHandled
  <2>3. ASSUME said[m].first # Blank
        PROVE  messages'[m] # NoRow
    <3>1. messages'[m] \in MsgRow
      BY <1>1, <1>3, <2>3 DEF TypeOK, Said, MsgRow
    <3>2. QED BY <3>1
  <2>4. ASSUME said[m].first # Blank, \A i \in Positions : i >= next => ~About(i, m)
        PROVE  messages'[m].body = said[m].now /\ said[m].state # "revoked"
    <3>1. \A i \in Positions : ~About(i, m)
      BY <1>2, <2>1, <2>4
    <3>2. said[m].now = said[m].first /\ said[m].state # "revoked"
      BY <2>4, <3>1 DEF IInv, LogTells, Tells
    <3>3. QED BY <1>3, <2>4, <3>2
  <2>5. QED BY <1>2, <2>2, <2>3, <2>4 DEF RowKept
<1>6. QED BY <1>4, <1>5

LEMMA WriteKeeps ==
  ASSUME IInv, NEW t \in Threads, Write(t)
  PROVE  IInv'
<1> DEFINE e == thread[t].event
           m == e.what
<1>1. /\ TypeOK /\ thread[t] # Idle /\ e \in Events /\ AboutMessage(e) /\ m \in Msgs
      /\ t = "live" => next \in Positions /\ e = log[next]
      /\ t = "history" => m \notin backlog /\ e = Replay(m)
  <2>1. TypeOK /\ thread[t] # Idle
    BY ThreadShape DEF IInv, Write, Idle
  <2>2. QED BY <2>1, WorkShape, EventShape DEF Write
<1>2. /\ thread' \in [Threads -> Busy \cup {Idle}] /\ thread'[t] = Idle
      /\ \A u \in Threads \ {t} : thread'[u] = thread[u]
      /\ next' \in 1 .. Len(log) + 1
      /\ next' = IF t = "live" THEN next + 1 ELSE next
  BY <1>1, ReturnShape DEF Write
<1>3. UNCHANGED <<said, subject, saved, log, backlog, chats, sync, kills>>
  BY DEF Write
<1>4. /\ faults' \in 0 .. MaxFaults
      /\ astray' = astray \/ astray' = astray \cup {m}
  BY <1>1 DEF TypeOK, Write, Succeeds, Fails
<1>5. messages' \in MsgTable
  BY <1>1, WrittenShape DEF Write, TypeOK
<1>6. TypeOK'
  BY <1>1, <1>2, <1>3, <1>4, <1>5 DEF TypeOK
<1>7. Works'
  BY <1>1, <1>2, <1>3 DEF IInv, Works, Replay, Positions, Idle
<1>8. \A k \in Msgs : /\ InHistory(k)' => InHistory(k)
                      /\ (t = "live" \/ k # m) => (InHistory(k)' <=> InHistory(k))
  BY <1>1, <1>2, <1>3 DEF InHistory
<1>9. CASE Fails /\ astray' = astray \cup {m} /\ UNCHANGED messages
  <2>1. Passes
    BY <1>1, <1>2, <1>9, Numbers DEF Passes, About
  <2>2. Steady
    BY <1>8, <1>9 DEF Steady
  <2>3. LogTells' /\ Rows'
    BY <1>3, <1>9, <2>1, <2>2, Undisturbed
  <2>4. QED BY <1>6, <1>7, <2>3 DEF IInv
<1>10. CASE /\ messages' = Written(messages, e)
            /\ astray' = IF t = "live" /\ InHistory(m) THEN astray \cup {m} ELSE astray
  <2>1. \A k \in Msgs \ {m} : messages'[k] = messages[k]
    BY <1>1, <1>10, WrittenShape
  <2>2. LogTells'
    <3>1. \A k \in Msgs, i \in Positions : About(i, k)' <=> About(i, k)
      BY <1>3 DEF About
    <3>2. Positions' = Positions
      BY <1>3 DEF Positions
    <3>3. said[m].state # "unsent"
      <4>1. CASE t = "live"
        BY <1>1, <4>1 DEF IInv, LogTells, Tells, About
      <4>2. CASE t = "history"
        BY <1>1, <4>2 DEF IInv, LogTells, Tells, InHistory
      <4>3. QED BY <4>1, <4>2
    <3>4. ASSUME NEW k \in Msgs
          PROVE  Tells(k)'
      <4>1. Tells(k) /\ said'[k] = said[k] /\ log' = log
        BY <1>3 DEF IInv, LogTells
      <4>2. said[k].state = "unsent" => ~InHistory(k)' /\ messages'[k] = NoRow
        BY <1>8, <2>1, <3>3, <4>1 DEF Tells
      <4>3. QED
        BY <1>8, <3>1, <3>2, <4>1, <4>2
        DEF Tells, Ends, Sends, Decides, NoneBefore, NoneAfter
    <3>5. QED BY <3>4 DEF LogTells
  <2>3. ASSUME NEW k \in Msgs
        PROVE  RowSound(k)' /\ (k \notin astray' => RowKept(k)')
    <3>1. next \in Nat /\ next' \in Nat
      BY <1>1, <1>2, Numbers
    <3>2. CASE k # m
      <4>1. k \notin astray' => k \notin astray /\ (InHistory(k)' <=> InHistory(k))
        BY <1>4, <1>8, <3>2
      <4>2. next' <= next \/ (next' = next + 1 /\ ~About(next, k))
        BY <1>1, <1>2, <3>1, <3>2 DEF About
      <4>3. QED BY <1>3, <2>1, <3>1, <3>2, <4>1, <4>2, RowUndisturbed
    <3>3. CASE k = m /\ t = "live"
      BY <1>1, <1>2, <1>3, <1>8, <1>10, <3>3, LiveRow DEF About
    <3>4. CASE k = m /\ t = "history"
      <4>1. InHistory(k) /\ ~InHistory(k)'
        BY <1>1, <1>2, <1>3, <3>4 DEF InHistory
      <4>2. QED BY <1>1, <1>2, <1>3, <1>10, <3>4, <4>1, HistoryRow
    <3>5. QED BY <3>2, <3>3, <3>4
  <2>4. QED BY <1>6, <1>7, <2>2, <2>3 DEF IInv, Rows
<1>11. QED BY <1>9, <1>10 DEF Write

-----------------------------------------------------------------------------
(* The account changes *)

\* What an appended event, at position p, leaves alone.
LEMMA QueueShape ==
  ASSUME IInv, NEW e \in Events, Queue(e.kind, e.what, e.text)
  PROVE  /\ log' \in Seq(Events) /\ Len(log) \in Nat /\ Len(log') = Len(log) + 1
         /\ \A i \in Positions : i \in Positions' /\ log'[i] = log[i]
         /\ next \in Nat /\ next <= Len(log) + 1
         /\ UNCHANGED <<next, backlog, chats, messages, thread, sync, astray, faults, kills>>
<1>1. e = [kind |-> e.kind, what |-> e.what, text |-> e.text]
  BY DEF Events
<1>2. log' = Append(log, e) /\ log \in Seq(Events) /\ next \in 1 .. Len(log) + 1
  BY <1>1 DEF IInv, TypeOK, Queue
<1>3. UNCHANGED <<next, backlog, chats, messages, thread, sync, astray, faults, kills>>
  BY DEF Queue
<1>4. QED BY <1>2, <1>3, AppendFacts DEF Positions

LEMMA QueueAbout ==
  ASSUME IInv, NEW e \in Events, Queue(e.kind, e.what, e.text), NEW m \in Msgs
  PROVE  \E p \in Nat :
           /\ Positions' = Positions \cup {p}
           /\ log'[p] = e
           /\ About(p, m)' <=> AboutMessage(e) /\ e.what = m
           /\ next <= p
           /\ \A i \in Positions : i \in Nat /\ i < p
           /\ \A i \in Positions : log'[i] = log[i]
           /\ \A i \in Positions : (About(i, m)' <=> About(i, m))
           /\ InHistory(m)' <=> InHistory(m)
<1>1. e = [kind |-> e.kind, what |-> e.what, text |-> e.text]
  BY DEF Events
<1>2. log' = Append(log, e) /\ log \in Seq(Events) /\ next \in 1 .. Len(log) + 1
  BY <1>1 DEF IInv, TypeOK, Queue
<1>3. InHistory(m)' <=> InHistory(m)
  BY DEF InHistory, Queue
<1>4. PICK p \in Nat : p = Len(log) + 1
  BY <1>2
<1>5. /\ Positions' = Positions \cup {p} /\ log'[p] = e /\ next <= p
      /\ \A i \in Positions : i \in Nat /\ i < p
      /\ \A i \in Positions : log'[i] = log[i]
  BY <1>2, <1>4, AppendFacts DEF Positions
<1>6. About(p, m)' <=> AboutMessage(e) /\ e.what = m
  BY <1>5 DEF About
<1>7. \A i \in Positions : (About(i, m)' <=> About(i, m))
  BY <1>5 DEF About
<1>8. QED BY <1>3, <1>5, <1>6, <1>7

\* A message the event is not about.
LEMMA OthersKept ==
  ASSUME IInv, NEW e \in Events, Queue(e.kind, e.what, e.text),
         NEW m \in Msgs, ~(AboutMessage(e) /\ e.what = m), said'[m] = said[m]
  PROVE  Tells(m)' /\ RowSound(m)' /\ (m \notin astray' => RowKept(m)')
<1>1. PICK p \in Nat :
        /\ Positions' = Positions \cup {p}
        /\ ~About(p, m)'
        /\ next <= p
        /\ \A i \in Positions : i \in Nat /\ i < p
        /\ \A i \in Positions : log'[i] = log[i]
        /\ \A i \in Positions : (About(i, m)' <=> About(i, m))
        /\ InHistory(m)' <=> InHistory(m)
  BY QueueAbout
<1>2. messages' = messages /\ next' = next /\ astray' = astray
  BY QueueShape
<1>3. Tells(m)'
  <2>1. Tells(m)
    BY DEF IInv, LogTells
  <2>2. ASSUME NEW i \in Positions', About(i, m)'
        PROVE  said'[m].state # "unsent" /\ Sends(i, m)' /\ Decides(i, m)' /\ Ends(i, m)'
    <3>1. /\ i \in Positions /\ said[m].state # "unsent"
          /\ Sends(i, m) /\ Decides(i, m) /\ Ends(i, m)
      BY <1>1, <2>1, <2>2 DEF Tells
    <3>2. Sends(i, m)'
      BY <1>1, <3>1 DEF Sends, NoneBefore
    <3>3. Decides(i, m)'
      BY <1>1, <3>1 DEF Decides, NoneAfter
    <3>4. QED BY <1>1, <3>1, <3>2, <3>3 DEF Ends
  <2>3. (\A i \in Positions' : ~About(i, m)') => \A i \in Positions : ~About(i, m)
    BY <1>1
  <2>4. QED BY <1>1, <1>2, <2>1, <2>2, <2>3 DEF Tells
<1>4. RowSound(m)'
  <2>1. RowSound(m) /\ (EditSaid(m) => EditSaid(m)')
    BY <1>1 DEF IInv, Rows, EditSaid
  <2>2. QED BY <1>2, <2>1 DEF RowSound
<1>5. ASSUME m \notin astray'
      PROVE  RowKept(m)'
  <2>1. RowKept(m)
    BY <1>2, <1>5 DEF IInv, Rows
  <2>2. (SendDue(m)' => SendDue(m)) /\ (SendDue(m) => SendDue(m)')
    BY <1>1, <1>2 DEF SendDue
  <2>3. EditHandled(m)' => EditHandled(m)
    BY <1>1, <1>2 DEF EditHandled
  <2>4. (\A i \in Positions' : i >= next' => ~About(i, m)')
            => \A i \in Positions : i >= next => ~About(i, m)
    BY <1>1, <1>2
  <2>5. (\A i \in Positions : i < next => ~About(i, m))
            => \A i \in Positions' : i < next' => ~About(i, m)'
    BY <1>1, <1>2
  <2>6. QED BY <1>1, <1>2, <2>1, <2>2, <2>3, <2>4, <2>5 DEF RowKept
<1>6. QED BY <1>3, <1>4, <1>5

LEMMA QueueTypes ==
  ASSUME IInv, NEW e \in Events, Queue(e.kind, e.what, e.text),
         said' \in [Msgs -> Said], subject' \in [Groups -> Names],
         saved' \in [Contacts -> Names \cup {Blank}],
         \A m \in Msgs : InHistory(m) => said'[m].first = said[m].first
  PROVE  TypeOK' /\ Works'
<1>1. next' \in 1 .. Len(log') + 1
  <2>1. next \in Nat /\ next >= 1 /\ next <= Len(log) + 1 /\ Len(log) \in Nat
    BY QueueShape, Numbers DEF IInv
  <2>2. QED BY <2>1, QueueShape
<1>2. TypeOK'
  BY <1>1, QueueShape DEF IInv, TypeOK
<1>3. Works'
  <2>1. thread' = thread /\ next' = next /\ backlog' = backlog
    BY QueueShape
  <2>2. thread["live"] # Idle => next \in Positions' /\ thread["live"].event = log'[next]
    BY QueueShape DEF IInv, Works
  <2>3. thread["history"] # Idle =>
            /\ thread["history"].event.what \in Msgs \ backlog
            /\ thread["history"].event = Replay(thread["history"].event.what)
            /\ InHistory(thread["history"].event.what)
    BY DEF IInv, Works, InHistory
  <2>4. thread["history"] # Idle =>
            /\ thread["history"].event =
                 [kind |-> "send", what |-> thread["history"].event.what,
                  text |-> said'[thread["history"].event.what].first]
    BY <2>3 DEF Replay
  <2>5. \A t \in Threads :
          /\ thread[t].at = "write" => AboutMessage(thread[t].event)
          /\ thread[t].at \in {"resolve", "upsert"} => ChatOfEvent(thread[t].event) \in Contacts
    BY DEF IInv, Works
  <2>6. QED BY <2>1, <2>2, <2>3, <2>4, <2>5 DEF Works, Replay
<1>4. QED BY <1>2, <1>3

LEMMA SendKeeps ==
  ASSUME IInv, NEW m \in Msgs, Send(m)
  PROVE  IInv'
<1>1. PICK x \in Text : /\ said' = [said EXCEPT ![m] = [state |-> "shown", first |-> x, now |-> x]]
                        /\ Queue("send", m, x)
  BY DEF Send
<1> DEFINE e == [kind |-> "send", what |-> m, text |-> x]
<1>2. e \in Events /\ AboutMessage(e) /\ Queue(e.kind, e.what, e.text)
  BY <1>1 DEF Events, AboutMessage
<1>3. /\ said[m].state = "unsent" /\ ~InHistory(m) /\ messages[m] = NoRow
      /\ \A i \in Positions : ~About(i, m)
  BY DEF Send, Unsent, IInv, LogTells, Tells
<1>4. said' \in [Msgs -> Said] /\ said'[m] = [state |-> "shown", first |-> x, now |-> x]
  BY <1>1 DEF IInv, TypeOK, Said
<1>5. TypeOK' /\ Works'
  <2>1. \A k \in Msgs : InHistory(k) => said'[k].first = said[k].first
    BY <1>1, <1>3 DEF IInv, TypeOK
  <2>2. subject' = subject /\ saved' = saved
    BY DEF Send
  <2>3. QED BY <1>2, <1>4, <2>1, <2>2, QueueTypes DEF IInv, TypeOK
<1>6. ASSUME NEW k \in Msgs
      PROVE  Tells(k)' /\ RowSound(k)' /\ (k \notin astray' => RowKept(k)')
  <2>1. CASE k # m
    <3>1. said'[k] = said[k]
      BY <1>1, <2>1 DEF IInv, TypeOK
    <3>2. QED BY <1>2, <2>1, <3>1, OthersKept
  <2>2. CASE k = m
    <3>1. PICK p \in Nat :
            /\ Positions' = Positions \cup {p} /\ log'[p] = e /\ About(p, m)'
            /\ next <= p /\ ~InHistory(m)'
            /\ \A i \in Positions : ~About(i, m)'
            /\ \A i \in Positions : i \in Nat /\ i < p
      <4>1. \E p \in Nat :
               /\ Positions' = Positions \cup {p}
               /\ log'[p] = e
               /\ About(p, m)' <=> AboutMessage(e) /\ e.what = m
               /\ next <= p
               /\ \A i \in Positions : i \in Nat /\ i < p
               /\ \A i \in Positions : log'[i] = log[i]
               /\ \A i \in Positions : (About(i, m)' <=> About(i, m))
               /\ InHistory(m)' <=> InHistory(m)
        BY <1>2, QueueAbout
      <4>2. QED BY <1>2, <1>3, <4>1
    <3>2. messages'[m] = NoRow /\ next' = next
      BY <1>2, <1>3, QueueShape
    <3>3. Tells(m)' /\ RowSound(m)'
      <4>1. \A i \in Positions' : About(i, m)' => i = p
        BY <3>1
      <4>2. Sends(p, m)'
        BY <1>4, <3>1, <4>1 DEF Sends, NoneBefore
      <4>3. Decides(p, m)' /\ Ends(p, m)'
        BY <1>4, <3>1 DEF Decides, Ends
      <4>4. QED BY <1>4, <3>1, <3>2, <4>1, <4>2, <4>3 DEF Tells, RowSound
    <3>4. SendDue(m)' /\ ~EditHandled(m)'
      BY <3>1, <3>2 DEF SendDue, EditHandled
    <3>5. RowKept(m)'
      BY <3>1, <3>2, <3>4 DEF RowKept
    <3>6. QED BY <2>2, <3>3, <3>5
  <2>3. QED BY <2>1, <2>2
<1>7. QED BY <1>5, <1>6 DEF IInv, LogTells, Rows

\* An edit or a revoke of a message that is shown.
LEMMA AlterKeeps ==
  ASSUME IInv, NEW m \in Msgs, Edit(m) \/ Revoke(m)
  PROVE  IInv'
<1>1. PICK e \in Events, x \in Text :
        /\ e.what = m /\ e.text = x /\ AboutMessage(e) /\ Queue(e.kind, e.what, e.text)
        /\ \/ e.kind = "edit" /\ said' = [said EXCEPT ![m] =
                [state |-> "shown", first |-> said[m].first, now |-> x]]
           \/ e.kind = "revoke" /\ x = Blank /\ said' = [said EXCEPT ![m] =
                [state |-> "revoked", first |-> said[m].first, now |-> Blank]]
  <2>1. CASE Edit(m)
    <3>1. PICK x \in Text : /\ said' = [said EXCEPT ![m] =
                                  [state |-> "shown", first |-> said[m].first, now |-> x]]
                            /\ Queue("edit", m, x)
      BY <2>1 DEF Edit, IInv, TypeOK
    <3>2. [kind |-> "edit", what |-> m, text |-> x] \in Events
      BY DEF Events
    <3>3. QED BY <3>1, <3>2 DEF AboutMessage
  <2>2. CASE Revoke(m)
    <3>1. [kind |-> "revoke", what |-> m, text |-> Blank] \in Events
      BY DEF Events
    <3>2. QED BY <2>2, <3>1 DEF Revoke, AboutMessage, IInv, TypeOK
  <2>3. QED BY <2>1, <2>2
<1>2. said[m].state = "shown" /\ subject' = subject /\ saved' = saved
  BY DEF Edit, Revoke
<1>3. /\ said' \in [Msgs -> Said] /\ said'[m].first = said[m].first
      /\ said'[m].state # "unsent"
      /\ e.kind = "edit" => said'[m].state = "shown" /\ said'[m].now = e.text
      /\ e.kind = "revoke" => said'[m].state = "revoked" /\ said'[m].now = Blank
      /\ e.kind \in {"edit", "revoke"}
  BY <1>1 DEF IInv, TypeOK, Said
<1>4. TypeOK' /\ Works'
  <2>1. \A k \in Msgs : InHistory(k) => said'[k].first = said[k].first
    BY <1>1, <1>3 DEF IInv, TypeOK
  <2>2. QED BY <1>1, <1>2, <1>3, <2>1, QueueTypes DEF IInv, TypeOK
<1>5. ASSUME NEW k \in Msgs
      PROVE  Tells(k)' /\ RowSound(k)' /\ (k \notin astray' => RowKept(k)')
  <2>1. CASE k # m
    <3>1. said'[k] = said[k]
      BY <1>1, <2>1 DEF IInv, TypeOK
    <3>2. QED BY <1>1, <2>1, <3>1, OthersKept
  <2>2. CASE k = m
    <3>1. PICK p \in Nat :
            /\ Positions' = Positions \cup {p} /\ log'[p] = e /\ About(p, m)' /\ next <= p
            /\ \A i \in Positions : i \in Nat /\ i < p
            /\ \A i \in Positions : log'[i] = log[i]
            /\ \A i \in Positions : (About(i, m)' <=> About(i, m))
            /\ InHistory(m)' <=> InHistory(m)
      BY <1>1, QueueAbout
    <3>2. messages' = messages /\ astray' = astray /\ next' = next /\ next \in Nat
      BY <1>1, QueueShape
    <3>3. Tells(m) /\ RowSound(m) /\ (m \notin astray => RowKept(m))
      BY DEF IInv, LogTells, Rows
    <3>4. Tells(m)'
      <4>1. ASSUME NEW i \in Positions, About(i, m)
            PROVE  Sends(i, m)' /\ Decides(i, m)' /\ Ends(i, m)'
        <5>1. Sends(i, m) /\ Ends(i, m)
          BY <3>3, <4>1 DEF Tells
        <5>2. Sends(i, m)'
          BY <1>3, <3>1, <5>1 DEF Sends, NoneBefore
        <5>3. Ends(i, m)'
          BY <1>2, <3>1, <4>1, <5>1 DEF Ends
        <5>4. ~NoneAfter(i, m)'
          BY <3>1, <4>1 DEF NoneAfter
        <5>5. QED BY <5>2, <5>3, <5>4 DEF Decides
      <4>2. Sends(p, m)' /\ Decides(p, m)' /\ Ends(p, m)'
        BY <1>1, <1>3, <3>1 DEF Sends, Decides, Ends
      <4>3. \A i \in Positions' : About(i, m)' => i = p \/ (i \in Positions /\ About(i, m))
        BY <3>1
      <4>4. QED BY <1>3, <3>1, <4>1, <4>2, <4>3 DEF Tells
    <3>5. RowSound(m)'
      <4>1. messages[m] # NoRow => ~messages[m].deleted
        BY <1>2, <3>3 DEF RowSound
      <4>2. EditSaid(m) => EditSaid(m)'
        BY <3>1 DEF EditSaid
      <4>3. QED BY <1>3, <3>2, <3>3, <4>1, <4>2 DEF RowSound
    <3>6. ASSUME m \notin astray'
          PROVE  RowKept(m)'
      <4>1. RowKept(m)
        BY <3>2, <3>3, <3>6
      <4>2. SendDue(m) => SendDue(m)'
        BY <3>1, <3>2 DEF SendDue
      <4>3. EditHandled(m)' => EditHandled(m)
        BY <3>1, <3>2 DEF EditHandled
      <4>4. ~(\A i \in Positions' : i >= next' => ~About(i, m)')
        BY <3>1, <3>2
      <4>5. (\A i \in Positions : i < next => ~About(i, m))
                => \A i \in Positions' : i < next' => ~About(i, m)'
        BY <3>1, <3>2
      <4>6. QED BY <1>2, <1>3, <3>1, <3>2, <4>1, <4>2, <4>3, <4>4, <4>5 DEF RowKept
    <3>7. QED BY <2>2, <3>4, <3>5, <3>6
  <2>3. QED BY <2>1, <2>2
<1>6. QED BY <1>4, <1>5 DEF IInv, LogTells, Rows

\* A rename or an address-book change is about no message.
LEMMA NameKeeps ==
  ASSUME IInv,
         (\E g \in Groups : Rename(g)) \/ (\E c \in Contacts : SaveContact(c))
  PROVE  IInv'
<1>1. PICK e \in Events : /\ ~AboutMessage(e) /\ Queue(e.kind, e.what, e.text)
                          /\ said' = said
                          /\ subject' \in [Groups -> Names]
                          /\ saved' \in [Contacts -> Names \cup {Blank}]
  <2>1. ASSUME NEW g \in Groups, Rename(g)
        PROVE  \E n \in Names : /\ Queue("subject", g, n) /\ said' = said
                                /\ subject' \in [Groups -> Names]
                                /\ saved' \in [Contacts -> Names \cup {Blank}]
    BY <2>1 DEF Rename, IInv, TypeOK
  <2>2. ASSUME NEW c \in Contacts, SaveContact(c)
        PROVE  /\ Queue("contact", c, Blank) /\ said' = said
               /\ subject' \in [Groups -> Names]
               /\ saved' \in [Contacts -> Names \cup {Blank}]
    BY <2>2 DEF SaveContact, IInv, TypeOK
  <2>3. /\ \A g \in Groups, n \in Names : [kind |-> "subject", what |-> g, text |-> n] \in Events
        /\ \A c \in Contacts : [kind |-> "contact", what |-> c, text |-> Blank] \in Events
    BY DEF Events
  <2>4. CASE \E g \in Groups : Rename(g)
    <3>1. PICK g \in Groups, n \in Names :
            /\ Queue("subject", g, n) /\ said' = said
            /\ subject' \in [Groups -> Names]
            /\ saved' \in [Contacts -> Names \cup {Blank}]
      BY <2>1, <2>4
    <3>2. [kind |-> "subject", what |-> g, text |-> n] \in Events
      BY <2>3
    <3>3. QED BY <3>1, <3>2 DEF AboutMessage
  <2>5. CASE \E c \in Contacts : SaveContact(c)
    <3>1. PICK c \in Contacts :
            /\ Queue("contact", c, Blank) /\ said' = said
            /\ subject' \in [Groups -> Names]
            /\ saved' \in [Contacts -> Names \cup {Blank}]
      BY <2>2, <2>5
    <3>2. [kind |-> "contact", what |-> c, text |-> Blank] \in Events
      BY <2>3
    <3>3. QED BY <3>1, <3>2 DEF AboutMessage
  <2>6. QED BY <2>4, <2>5
<1>2. TypeOK' /\ Works'
  BY <1>1, QueueTypes DEF IInv, TypeOK
<1>3. \A k \in Msgs : Tells(k)' /\ RowSound(k)' /\ (k \notin astray' => RowKept(k)')
  BY <1>1, OthersKept
<1>4. QED BY <1>2, <1>3 DEF IInv, LogTells, Rows

-----------------------------------------------------------------------------
(* The theorems *)

LEMMA Initial == Init => IInv
<1> SUFFICES ASSUME Init PROVE IInv
  OBVIOUS
<1>1. Len(log) = 0 /\ Positions = {}
  BY DEF Init, Positions
<1>2. TypeOK
  BY <1>1 DEF Init, TypeOK, Said, Unsent, ChatTable, MsgTable
<1>3. \A t \in Threads : thread[t] = Idle
  BY DEF Init
<1>4. Works
  BY <1>3 DEF Works, Idle
<1>5. ASSUME NEW m \in Msgs
      PROVE  Tells(m) /\ RowSound(m) /\ RowKept(m)
  <2>1. /\ messages[m] = NoRow
        /\ InHistory(m) <=> said[m].state # "unsent"
        /\ said[m].state \in {"unsent", "shown", "revoked"}
        /\ said[m].now = said[m].first
        /\ said[m].state = "revoked" => said[m].first = Blank
    BY <1>3 DEF Init, InHistory, Unsent
  <2>2. QED BY <1>1, <2>1 DEF Tells, RowSound, RowKept
<1>6. QED BY <1>2, <1>4, <1>5 DEF IInv, LogTells, Rows

LEMMA Stutters ==
  ASSUME IInv, UNCHANGED vars
  PROVE  IInv'
<1>1. /\ said' = said /\ subject' = subject /\ saved' = saved /\ log' = log /\ next' = next
      /\ backlog' = backlog /\ chats' = chats /\ messages' = messages /\ thread' = thread
      /\ sync' = sync /\ astray' = astray /\ faults' = faults /\ kills' = kills
  BY DEF vars
<1>2. TypeOK' /\ Works'
  BY <1>1 DEF IInv, TypeOK, Works, Replay, Positions
<1>3. LogTells'
  BY <1>1 DEF IInv, LogTells, Tells, Sends, Decides, Ends, NoneBefore, NoneAfter,
              About, Positions, InHistory
<1>4. Rows'
  BY <1>1 DEF IInv, Rows, RowSound, RowKept, EditSaid, EditHandled, SendDue,
              About, Positions, InHistory
<1>5. QED BY <1>2, <1>3, <1>4 DEF IInv

(***************************************************************************)
(* The invariant of the message store: every handler, statement by         *)
(* statement and failing at any of them, every joined-groups sync, every   *)
(* kill and every change of the account keeps it.                          *)
(***************************************************************************)
THEOREM Invariance == Spec => []IInv
<1>1. ASSUME IInv, [Next]_vars
      PROVE  IInv'
  <2>1. CASE Change
    <3>1. CASE \E m \in Msgs : Send(m)
      BY <1>1, <3>1, SendKeeps
    <3>2. CASE \E m \in Msgs : Edit(m) \/ Revoke(m)
      BY <1>1, <3>2, AlterKeeps
    <3>3. CASE (\E g \in Groups : Rename(g)) \/ (\E c \in Contacts : SaveContact(c))
      BY <1>1, <3>3, NameKeeps
    <3>4. QED BY <2>1, <3>1, <3>2, <3>3 DEF Change
  <2>2. ASSUME NEW t \in Threads, Handle(t)
        PROVE  IInv'
    <3>1. ASSUME NEW e \in Due(t), Ensure(t, e) \/ GroupInfo(t, e) \/ ContactEvent(t, e)
          PROVE  IInv'
      BY <1>1, <3>1, EnsureKeeps, GroupInfoKeeps, ContactEventKeeps
    <3>2. CASE Resolve(t)
      BY <1>1, <3>2, ResolveKeeps
    <3>3. CASE Upsert(t)
      BY <1>1, <3>3, UpsertKeeps
    <3>4. CASE Write(t)
      BY <1>1, <3>4, WriteKeeps
    <3>5. QED BY <2>2, <3>1, <3>2, <3>3, <3>4 DEF Handle
  <2>3. ASSUME NEW s \in Syncs, SyncJoinedGroups(s)
        PROVE  IInv'
    BY <1>1, <2>3, SyncKeeps
  <2>4. CASE Kill
    BY <1>1, <2>4, KillKeeps
  <2>5. CASE UNCHANGED vars
    BY <1>1, <2>5, Stutters
  <2>6. QED BY <1>1, <2>1, <2>2, <2>3, <2>4, <2>5 DEF Next
<1>2. QED BY <1>1, Initial, PTL DEF Spec

(***************************************************************************)
(* Type correctness: every variable keeps its type; in particular the      *)
(* position of the live dispatch stays inside the log, and a history       *)
(* handler never moves it.                                                 *)
(***************************************************************************)
THEOREM TypeCorrect == Spec => []TypeOK
<1>1. IInv => TypeOK
  BY DEF IInv
<1>2. QED BY <1>1, Invariance, PTL

(***************************************************************************)
(* The message store settles: in every reachable state a message no fault, *)
(* lost payload or overtaking replay has hit, and no event of which is     *)
(* due, has exactly the row the account shows.                             *)
(***************************************************************************)
THEOREM StoreSettles == Spec => []MessagesSettled
<1>1. ASSUME IInv
      PROVE  MessagesSettled
  <2> SUFFICES ASSUME NEW m \in Msgs \ astray,
                      said[m].state # "unsent", ~MessageDue(m), ~InHistory(m)
               PROVE  Faithful(m)
    BY DEF MessagesSettled
  <2>1. /\ next \in Nat /\ next >= 1 /\ Len(log) \in Nat
        /\ said[m] \in Said /\ messages[m] \in MsgRow \cup {NoRow}
    BY <1>1, Numbers DEF IInv, TypeOK, MsgTable
  <2>2. \A i \in Positions : i >= next => ~About(i, m)
    BY <2>1 DEF MessageDue, Positions, About
  <2>3. RowSound(m) /\ RowKept(m)
    BY <1>1 DEF IInv, Rows
  <2>4. CASE said[m].first = Blank
    BY <2>3, <2>4 DEF RowSound, Faithful
  <2>5. CASE said[m].first # Blank
    <3>1. ~SendDue(m) /\ (EditSaid(m) => EditHandled(m))
      BY <2>1, <2>2 DEF SendDue, EditSaid, EditHandled, Positions
    <3>2. /\ messages[m] # NoRow
          /\ messages[m].edited <=> EditSaid(m)
          /\ messages[m].body = said[m].now
          /\ messages[m].deleted <=> said[m].state = "revoked"
      <4>1. messages[m] # NoRow
        BY <2>3, <2>5, <3>1 DEF RowKept
      <4>2. /\ EditHandled(m) => messages[m].edited
            /\ messages[m].body = said[m].now
            /\ said[m].state = "revoked" => messages[m].deleted
        BY <2>2, <2>3, <2>5 DEF RowKept
      <4>3. /\ messages[m].deleted => said[m].state = "revoked"
            /\ messages[m].edited => EditSaid(m)
        BY <2>3, <4>1 DEF RowSound
      <4>4. QED BY <3>1, <4>1, <4>2, <4>3
    <3>3. messages[m] \in MsgRow
      BY <2>1, <3>2
    <3>4. messages[m] = [body |-> messages[m].body, deleted |-> messages[m].deleted,
                         edited |-> messages[m].edited]
      BY <3>3 DEF MsgRow
    <3>5. /\ messages[m].deleted \in BOOLEAN /\ messages[m].edited \in BOOLEAN
      BY <3>3 DEF MsgRow
    <3>6. messages[m].deleted = (said[m].state = "revoked")
      BY <3>2, <3>5
    <3>7. EditSaid(m) <=> \E i \in 1 .. Len(log) : log[i].kind = "edit" /\ log[i].what = m
      BY DEF EditSaid, Positions, About, AboutMessage
    <3>8. messages[m].edited = \E i \in 1 .. Len(log) : log[i].kind = "edit" /\ log[i].what = m
      BY <3>2, <3>5, <3>7
    <3>9. QED BY <2>5, <3>2, <3>4, <3>6, <3>8 DEF Faithful
  <2>6. QED BY <2>4, <2>5
<1>2. QED BY <1>1, Invariance, PTL

-----------------------------------------------------------------------------
(* Group subjects *)

Renames(i, g) == log[i].kind = "subject" /\ log[i].what = g

\* The last rename of a group in the log is to its present subject.
LogNames ==
    \A g \in Groups, i \in Positions :
        Renames(i, g) /\ (\A j \in Positions : j > i => ~Renames(j, g))
            => log[i].text = subject[g]

Holds(s, g) == sync[s].at = "writing" /\ g \in sync[s].todo

\* What a group keeps that neither a fault nor an overtaking sync hit: with no
\* rename due, the syncs hold its present subject, and so does its row.
GroupKept(g) ==
    ~SubjectDue(g) =>
        /\ \A s \in Syncs : Holds(s, g) => sync[s].got[g] = subject[g]
        /\ chats[g] # NoRow /\ chats[g].name # Blank /\ ~InSync(g)
               => chats[g].name = subject[g]

GroupInv == LogNames /\ \A g \in Groups \ astray : GroupKept(g)

\* The change an event tells of.
LEMMA ChangeShape ==
  ASSUME IInv, Change
  PROVE  \E e \in Events :
           /\ Queue(e.kind, e.what, e.text)
           /\ \A g \in Groups :
                 subject'[g] = IF e.kind = "subject" /\ e.what = g THEN e.text ELSE subject[g]
           /\ \A c \in Contacts :
                 (e.kind = "contact" /\ e.what = c) \/ saved'[c] = saved[c]
<1>1. ASSUME NEW k \in {"send", "edit", "revoke"}, NEW m \in Msgs, NEW x \in Text
      PROVE  \E e \in Events : e.kind = k /\ e.what = m /\ e.text = x /\ e.kind # "subject"
  <2>1. [kind |-> k, what |-> m, text |-> x] \in Events
    BY <1>1 DEF Events
  <2>2. QED BY <2>1
<1>2. CASE \E m \in Msgs : Send(m) \/ Edit(m) \/ Revoke(m)
  <2>1. PICK k \in {"send", "edit", "revoke"}, m \in Msgs, x \in Text :
           Queue(k, m, x) /\ subject' = subject /\ saved' = saved
    BY <1>2 DEF Send, Edit, Revoke
  <2>2. PICK e \in Events : e.kind = k /\ e.what = m /\ e.text = x /\ e.kind # "subject"
    BY <1>1
  <2>3. QED BY <2>1, <2>2
<1>3. ASSUME NEW g \in Groups, Rename(g)
      PROVE  \E n \in Names : /\ subject' = [subject EXCEPT ![g] = n] /\ saved' = saved
                              /\ Queue("subject", g, n)
  BY <1>3 DEF Rename
<1>4. ASSUME NEW c \in Contacts, SaveContact(c)
      PROVE  /\ subject' = subject /\ Queue("contact", c, Blank)
             /\ \A d \in Contacts \ {c} : saved'[d] = saved[d]
  BY <1>4 DEF SaveContact, IInv, TypeOK
<1>5. CASE \E g \in Groups : Rename(g)
  <2>1. PICK g \in Groups, n \in Names :
          /\ subject' = [subject EXCEPT ![g] = n] /\ saved' = saved
          /\ Queue("subject", g, n)
    BY <1>3, <1>5
  <2>2. [kind |-> "subject", what |-> g, text |-> n] \in Events
    BY DEF Events
  <2>3. QED BY <2>1, <2>2 DEF IInv, TypeOK
<1>6. CASE \E c \in Contacts : SaveContact(c)
  <2>1. PICK c \in Contacts :
          /\ subject' = subject /\ Queue("contact", c, Blank)
          /\ \A d \in Contacts \ {c} : saved'[d] = saved[d]
    BY <1>4, <1>6
  <2>2. [kind |-> "contact", what |-> c, text |-> Blank] \in Events
    BY DEF Events
  <2>3. QED BY <2>1, <2>2
<1>7. QED BY <1>2, <1>5, <1>6 DEF Change

\* A rename makes its own event due, and no change hides another.
LEMMA ChangeNamed ==
  ASSUME IInv, GroupInv, Change
  PROVE  GroupInv'
<1>1. PICK e \in Events :
        /\ Queue(e.kind, e.what, e.text)
        /\ \A g \in Groups :
              subject'[g] = IF e.kind = "subject" /\ e.what = g THEN e.text ELSE subject[g]
  BY ChangeShape
<1>2. log' = Append(log, e) /\ log \in Seq(Events)
  <2>1. e = [kind |-> e.kind, what |-> e.what, text |-> e.text]
    BY DEF Events
  <2>2. QED BY <1>1, <2>1 DEF Queue, IInv, TypeOK
<1>3. PICK p \in Nat : p = Len(log) + 1
  BY <1>2
<1>4. /\ Positions' = Positions \cup {p} /\ log'[p] = e /\ next <= p
      /\ \A i \in Positions : i \in Nat /\ i < p /\ log'[i] = log[i]
  BY <1>2, <1>3, AppendFacts DEF Positions, IInv, TypeOK
<1>5. next' = next /\ chats' = chats /\ sync' = sync /\ astray' = astray
  BY <1>1, QueueShape
<1>6. \A g \in Groups : /\ Renames(p, g)' <=> e.kind = "subject" /\ e.what = g
                        /\ \A i \in Positions : Renames(i, g)' <=> Renames(i, g)
  BY <1>4 DEF Renames
<1>7. LogNames'
  <2>1. SUFFICES ASSUME NEW g \in Groups, NEW i \in Positions', Renames(i, g)',
                        \A j \in Positions' : j > i => ~Renames(j, g)'
                 PROVE  log'[i].text = subject'[g]
    BY DEF LogNames
  <2>2. CASE i = p
    BY <1>1, <1>4, <1>6, <2>1, <2>2
  <2>3. CASE i # p
    <3>1. /\ i \in Positions /\ Renames(i, g) /\ ~Renames(p, g)'
          /\ \A j \in Positions : j > i => ~Renames(j, g)
      BY <1>4, <1>6, <2>1, <2>3
    <3>2. log[i].text = subject[g] /\ subject'[g] = subject[g]
      BY <1>1, <1>6, <3>1 DEF GroupInv, LogNames
    <3>3. QED BY <1>4, <3>1, <3>2
  <2>4. QED BY <2>2, <2>3
<1>8. ASSUME NEW g \in Groups \ astray', ~SubjectDue(g)'
      PROVE  ~SubjectDue(g) /\ subject'[g] = subject[g]
  <2>1. \A i \in Positions' : i >= next => ~Renames(i, g)'
    BY <1>5, <1>8, Numbers DEF SubjectDue, Positions, Renames
  <2>2. ~Renames(p, g)' /\ \A i \in Positions : i >= next => ~Renames(i, g)
    BY <1>4, <1>6, <2>1
  <2>3. QED BY <1>1, <1>6, <2>2, Numbers DEF SubjectDue, Positions, Renames, IInv
<1>9. \A g \in Groups \ astray' : GroupKept(g)'
  BY <1>5, <1>8 DEF GroupInv, GroupKept, Holds, InSync
<1>10. QED BY <1>7, <1>9 DEF GroupInv

\* A group that a step leaves alone: Live does not pass a rename of it, its
\* row keeps its name or gets none, and the syncs that held it hold it.
LEMMA GroupUndisturbed ==
  ASSUME IInv, GroupInv, log' = log, subject' = subject,
         next' \in Nat, NEW g \in Groups, g \notin astray,
         next' <= next \/ (next' = next + 1 /\ ~Renames(next, g)),
         \A s \in Syncs : /\ Holds(s, g)' => Holds(s, g) /\ sync'[s].got[g] = sync[s].got[g]
                          /\ Holds(s, g) => Holds(s, g)',
         chats'[g] # NoRow /\ chats'[g].name # Blank
            => chats[g] # NoRow /\ chats[g].name = chats'[g].name
  PROVE  GroupKept(g)'
<1>1. SUFFICES ASSUME ~SubjectDue(g)'
               PROVE  /\ \A s \in Syncs : Holds(s, g)' => sync'[s].got[g] = subject'[g]
                      /\ chats'[g] # NoRow /\ chats'[g].name # Blank /\ ~InSync(g)'
                            => chats'[g].name = subject'[g]
  BY DEF GroupKept
<1>2. ~SubjectDue(g)
  BY <1>1, Numbers DEF SubjectDue, Renames, IInv
<1>3. GroupKept(g)
  BY DEF GroupInv
<1>4. InSync(g)' <=> InSync(g)
  BY DEF InSync, Holds
<1>5. QED BY <1>2, <1>3, <1>4 DEF GroupKept

LEMMA LogNamesKept ==
  ASSUME LogNames, log' = log, subject' = subject
  PROVE  LogNames'
BY DEF LogNames, Renames, Positions

\* A statement that touches the row of a group at most to create it.
LEMMA NamesKept ==
  ASSUME IInv, NEW c, NEW n
  PROVE  /\ \A g \in Groups :
               LET row == EnsureChat(chats, c)[g]
               IN  row # NoRow /\ row.name # Blank => chats[g] # NoRow /\ chats[g].name = row.name
         /\ \A g \in Groups :
               LET row == UpsertContactName(chats, c, n)[g]
               IN  row # NoRow /\ row.name # Blank => chats[g] # NoRow /\ chats[g].name = row.name
<1>1. chats \in [Chats -> ChatRow \cup {NoRow}]
  BY DEF IInv, TypeOK, ChatTable
<1>2. QED BY <1>1 DEF EnsureChat, UpsertContactName

\* A step of a handler that is no group event, and any statement of one.
LEMMA GroupsUndisturbed ==
  ASSUME IInv, GroupInv, log' = log, subject' = subject, sync' = sync,
         astray \cap Groups \subseteq astray', next' \in Nat,
         next' <= next \/ (next' = next + 1 /\ \A g \in Groups : ~Renames(next, g)),
         \A g \in Groups : chats'[g] # NoRow /\ chats'[g].name # Blank
                              => chats[g] # NoRow /\ chats[g].name = chats'[g].name
  PROVE  GroupInv'
<1>1. LogNames'
  BY LogNamesKept DEF GroupInv
<1>2. ASSUME NEW g \in Groups \ astray'
      PROVE  GroupKept(g)'
  BY <1>2, GroupUndisturbed DEF Holds
<1>3. QED BY <1>1, <1>2 DEF GroupInv

\* Only group events rename.
LEMMA NoRename ==
  ASSUME NEW e, e = log[next],
         AboutMessage(e) \/ e.kind = "contact" \/ ChatOfEvent(e) \in Contacts
  PROVE  \A g \in Groups : ~Renames(next, g)
BY DEF Renames, AboutMessage, ChatOfEvent

LEMMA HandlerNamed ==
  ASSUME IInv, GroupInv, NEW t \in Threads,
         \/ \E e \in Due(t) : Ensure(t, e) \/ ContactEvent(t, e)
         \/ Resolve(t) \/ Upsert(t) \/ Write(t)
  PROVE  GroupInv'
<1>1. /\ log' = log /\ subject' = subject /\ sync' = sync
      /\ astray \cap Groups \subseteq astray'
  <2>1. log' = log /\ subject' = subject /\ sync' = sync
    BY DEF Ensure, ContactEvent, Resolve, Upsert, Write
  <2>2. Resolve(t) => astray \cap Groups \subseteq astray'
    BY DEF Resolve, IInv, Works
  <2>3. Upsert(t) \/ Write(t) => astray \subseteq astray'
    BY DEF Upsert, Write
  <2>4. ASSUME NEW e \in Due(t), Ensure(t, e) \/ ContactEvent(t, e)
        PROVE  astray \subseteq astray'
    BY <2>4 DEF Ensure, ContactEvent
  <2>5. QED BY <2>1, <2>2, <2>3, <2>4
<1>2. next \in Nat /\ next' \in {next, next + 1}
  BY Numbers DEF IInv, Ensure, ContactEvent, Resolve, Upsert, Write, Continue, Return
<1>3. ASSUME next' = next + 1
      PROVE  \A g \in Groups : ~Renames(next, g)
  <2>1. CASE \E e \in Due(t) : Ensure(t, e) \/ ContactEvent(t, e)
    BY <1>2, <1>3, <2>1, DueIsEvent, NoRename
    DEF IInv, Ensure, ContactEvent, Continue, Return
  <2>2. CASE Resolve(t)
    BY <1>2, <1>3, <2>2 DEF Resolve, Continue
  <2>3. CASE Upsert(t) \/ Write(t)
    <3>1. thread[t] # Idle
      BY <2>3 DEF Upsert, Write, Idle
    <3>2. t = "live" /\ thread[t].event = log[next]
      BY <1>2, <1>3, <2>3, <3>1, WorkShape DEF Upsert, Write, Continue, Return
    <3>3. AboutMessage(thread[t].event) \/ ChatOfEvent(thread[t].event) \in Contacts
      BY <2>3, <3>1, WorkShape DEF IInv, Works, Upsert, Write
    <3>4. QED BY <3>2, <3>3, NoRename
  <2>4. QED BY <2>1, <2>2, <2>3
<1>4. \A g \in Groups : chats'[g] # NoRow /\ chats'[g].name # Blank
                           => chats[g] # NoRow /\ chats[g].name = chats'[g].name
  <2>1. CASE \E e \in Due(t) : Ensure(t, e) \/ ContactEvent(t, e)
    <3>1. PICK e \in Due(t) : chats' = chats \/ chats' = EnsureChat(chats, ChatOf[e.what])
      BY <2>1 DEF Ensure, ContactEvent
    <3>2. QED BY <3>1, NamesKept
  <2>2. CASE Upsert(t)
    <3>1. \/ chats' = chats
          \/ chats' = UpsertContactName(chats, ChatOfEvent(thread[t].event), thread[t].name)
      BY <2>2 DEF Upsert
    <3>2. QED BY <3>1, NamesKept
  <2>3. QED BY <2>1, <2>2 DEF Resolve, Write
<1>5. next' \in Nat /\ (next' <= next \/ next' = next + 1)
  BY <1>2
<1>6. QED BY <1>1, <1>3, <1>4, <1>5, GroupsUndisturbed

\* handleGroupInfoEvent: the subject it writes is the present one, unless
\* another rename is due; a sync that holds another puts the group astray.
LEMMA GroupInfoNamed ==
  ASSUME IInv, GroupInv, NEW t \in Threads, NEW e \in Due(t), GroupInfo(t, e)
  PROVE  GroupInv'
<1>1. /\ TypeOK /\ e \in Events /\ e.what \in Groups /\ e.text \in Names
      /\ e.kind = "subject" /\ ~AboutMessage(e)
  BY DueIsEvent, EventShape DEF IInv, GroupInfo, AboutMessage
<1>2. t = "live" /\ next \in Positions /\ e = log[next]
  BY <1>1, NotOfHistory
<1>3. next \in Nat /\ next' = next + 1
  BY <1>1, <1>2, Numbers DEF GroupInfo, Return
<1>4. log' = log /\ subject' = subject /\ sync' = sync /\ astray \subseteq astray'
  BY DEF GroupInfo
<1>5. ASSUME NEW g \in Groups \ astray', g # e.what
      PROVE  GroupKept(g)'
  <2>1. ~Renames(next, g)
    BY <1>2, <1>5 DEF Renames
  <2>2. chats'[g] = chats[g]
    BY <1>1, <1>5 DEF GroupInfo, UpsertChatName, TypeOK, ChatTable
  <2>3. g \notin astray
    BY <1>4, <1>5
  <2>4. QED BY <1>3, <1>4, <2>1, <2>2, <2>3, GroupUndisturbed DEF Holds
<1>6. ASSUME e.what \notin astray', ~SubjectDue(e.what)'
      PROVE  /\ \A s \in Syncs : Holds(s, e.what)' => sync'[s].got[e.what] = subject'[e.what]
             /\ chats'[e.what].name = subject'[e.what]
  <2>1. /\ chats' = UpsertChatName(chats, e.what, e.text)
        /\ ~Overtakes(e.what, e.text)
    BY <1>6 DEF GroupInfo
  <2>2. e.text = subject[e.what]
    <3>1. \A j \in Positions : j > next => ~Renames(j, e.what)
      BY <1>1, <1>3, <1>4, <1>6, Numbers DEF SubjectDue, Renames, Positions
    <3>2. Renames(next, e.what)
      BY <1>1, <1>2 DEF Renames
    <3>3. QED BY <1>1, <1>2, <3>1, <3>2 DEF GroupInv, LogNames
  <2>3. chats'[e.what].name = e.text
    BY <1>1, <2>1 DEF UpsertChatName, TypeOK, ChatTable
  <2>4. QED BY <1>4, <2>1, <2>2, <2>3 DEF Overtakes, Holds
<1>7. QED BY <1>4, <1>5, <1>6, LogNamesKept DEF GroupInv, GroupKept

\* syncJoinedGroups: what it fetches is present, and what it writes is what it
\* holds; a sync that stops short puts its groups astray.
LEMMA SyncNamed ==
  ASSUME IInv, GroupInv, NEW s \in Syncs, SyncJoinedGroups(s)
  PROVE  GroupInv'
<1>1. log' = log /\ subject' = subject /\ next' = next /\ next \in Nat
  BY Numbers DEF IInv, SyncJoinedGroups, Connected, Fetch, WriteGroup
<1>2. LogNames'
  BY <1>1, LogNamesKept DEF GroupInv
<1>3. sync \in [Syncs -> Writing \cup {NoSync, Asking}]
  BY DEF IInv, TypeOK
<1>4. CASE Connected(s)
  <2>1. chats' = chats /\ astray' = astray
    BY <1>4 DEF Connected
  <2>2. \A r \in Syncs, g \in Groups : /\ Holds(r, g)' <=> Holds(r, g)
                                       /\ Holds(r, g) => sync'[r] = sync[r]
    BY <1>3, <1>4 DEF Connected, Holds, NoSync, Asking
  <2>3. \A g \in Groups \ astray' : GroupKept(g)'
    BY <1>1, <2>1, <2>2, GroupUndisturbed
  <2>4. QED BY <1>2, <2>3 DEF GroupInv
<1>5. CASE Fetch(s) /\ sync' = [sync EXCEPT ![s] = SyncWith(subject, Groups)]
                    /\ astray' = astray \ {g \in Groups : ~HeldByOther(s, g)}
  <2>1. ASSUME NEW g \in Groups \ astray', ~SubjectDue(g)'
        PROVE  /\ InSync(g)'
               /\ \A r \in Syncs : Holds(r, g)' => sync'[r].got[g] = subject[g]
    <3>1. sync'[s] = [at |-> "writing", got |-> subject, todo |-> Groups]
      BY <1>3, <1>5 DEF SyncWith
    <3>2. InSync(g)'
      BY <3>1 DEF InSync
    <3>3. ASSUME NEW r \in Syncs \ {s}, Holds(r, g)'
          PROVE  sync'[r].got[g] = subject[g]
      <4>1. sync'[r] = sync[r] /\ Holds(r, g)
        BY <1>3, <1>5, <3>3 DEF Holds
      <4>2. g \notin astray
        BY <1>5, <4>1 DEF HeldByOther, Holds
      <4>3. ~SubjectDue(g)
        BY <1>1, <2>1 DEF SubjectDue
      <4>4. QED BY <4>1, <4>2, <4>3 DEF GroupInv, GroupKept
    <3>4. QED BY <3>1, <3>2, <3>3
  <2>2. QED BY <1>1, <1>2, <2>1 DEF GroupInv, GroupKept
<1>6. CASE Fetch(s) /\ sync' = [sync EXCEPT ![s] = NoSync] /\ astray' = astray
  <2>1. \A r \in Syncs, g \in Groups : /\ Holds(r, g)' <=> Holds(r, g)
                                       /\ Holds(r, g) => sync'[r] = sync[r]
    BY <1>3, <1>6 DEF Fetch, Holds, NoSync, Asking
  <2>2. chats' = chats
    BY <1>6 DEF Fetch
  <2>3. \A g \in Groups \ astray' : GroupKept(g)'
    BY <1>1, <1>6, <2>1, <2>2, GroupUndisturbed
  <2>4. QED BY <1>2, <2>3 DEF GroupInv
<1>7. ASSUME NEW h \in Groups, WriteGroup(s, h)
      PROVE  GroupInv'
  <2>1. /\ sync[s].got \in [Groups -> Names] /\ sync[s].todo \subseteq Groups
        /\ sync[s].at = "writing" /\ Holds(s, h)
    BY <1>7, SyncShape DEF WriteGroup, Holds, IInv
  <2>2. CASE /\ chats' = UpsertChatName(chats, h, sync[s].got[h])
             /\ sync' = [sync EXCEPT ![s] = SyncWith(@.got, @.todo \ {h})]
             /\ astray' = astray
    <3>1. \A r \in Syncs \ {s} : sync'[r] = sync[r]
      BY <1>3, <2>2
    <3>2. sync'[s] = SyncWith(sync[s].got, sync[s].todo \ {h})
      BY <1>3, <2>2
    <3>3. \A g \in Groups : /\ Holds(s, g)' <=> Holds(s, g) /\ g # h
                            /\ Holds(s, g)' => sync'[s].got = sync[s].got
      BY <2>1, <3>2 DEF Holds, SyncWith, NoSync
    <3>4. ASSUME NEW g \in Groups \ astray', g # h
          PROVE  GroupKept(g)'
      <4>1. chats'[g] = chats[g]
        BY <2>2, <3>4 DEF UpsertChatName, IInv, TypeOK, ChatTable
      <4>2. \A r \in Syncs : /\ Holds(r, g)' <=> Holds(r, g)
                             /\ Holds(r, g)' => sync'[r].got[g] = sync[r].got[g]
        BY <3>1, <3>3, <3>4 DEF Holds
      <4>3. g \notin astray /\ next' <= next
        BY <1>1, <2>2, <3>4
      <4>4. QED BY <1>1, <4>1, <4>2, <4>3, GroupUndisturbed
    <3>5. ASSUME h \notin astray', ~SubjectDue(h)'
          PROVE  /\ \A r \in Syncs : Holds(r, h)' => sync'[r].got[h] = subject'[h]
                 /\ chats'[h].name = subject'[h]
      <4>1. \A r \in Syncs : Holds(r, h) => sync[r].got[h] = subject[h]
        BY <1>1, <2>2, <3>5 DEF GroupInv, GroupKept, SubjectDue
      <4>2. chats'[h].name = sync[s].got[h]
        BY <2>1, <2>2 DEF UpsertChatName, IInv, TypeOK, ChatTable
      <4>3. QED BY <1>1, <2>1, <3>1, <3>3, <4>1, <4>2 DEF Holds
    <3>6. QED BY <1>2, <3>4, <3>5 DEF GroupInv, GroupKept
  <2>3. CASE /\ sync' = [sync EXCEPT ![s] = NoSync]
             /\ astray' = astray \cup sync[s].todo
             /\ chats' = chats
    <3>1. ASSUME NEW g \in Groups \ astray'
          PROVE  GroupKept(g)'
      <4>1. \A r \in Syncs : /\ Holds(r, g)' <=> Holds(r, g)
                             /\ Holds(r, g)' => sync'[r].got[g] = sync[r].got[g]
        BY <1>3, <2>3, <3>1 DEF Holds, NoSync
      <4>2. QED BY <1>1, <2>3, <3>1, <4>1, GroupUndisturbed
    <3>2. QED BY <1>2, <3>1 DEF GroupInv
  <2>4. QED BY <1>7, <2>2, <2>3 DEF WriteGroup
<1>8. QED BY <1>4, <1>5, <1>6, <1>7 DEF SyncJoinedGroups, Fetch

\* A kill ends every sync; what they held goes astray.
LEMMA KillNamed ==
  ASSUME IInv, GroupInv, Kill
  PROVE  GroupInv'
<1>1. /\ log' = log /\ subject' = subject /\ chats' = chats
      /\ next' \in 1 .. next /\ astray' = astray \cup Unfinished
  BY DEF Kill
<1>2. LogNames'
  BY <1>1, LogNamesKept DEF GroupInv
<1>3. ASSUME NEW g \in Groups \ astray'
      PROVE  GroupKept(g)'
  <2>1. ~InSync(g)
    BY <1>1, <1>3 DEF InSync, Unfinished
  <2>2. \A s \in Syncs : ~Holds(s, g) /\ ~Holds(s, g)'
    BY <2>1 DEF InSync, Holds, Kill, NoSync
  <2>3. next' \in Nat /\ next' <= next
    BY <1>1, Numbers DEF IInv
  <2>4. QED BY <1>1, <1>3, <2>2, <2>3, GroupUndisturbed
<1>4. QED BY <1>2, <1>3 DEF GroupInv

(***************************************************************************)
(* Group subjects settle: in every reachable state a group no fault or     *)
(* overtaking sync has hit, of which no rename is due and which no sync is *)
(* about to write, is cached with its present subject, if with any.        *)
(***************************************************************************)
THEOREM SubjectsSettle == Spec => []GroupsSettled
<1>1. Init => GroupInv
  <2>1. SUFFICES ASSUME Init PROVE GroupInv
    OBVIOUS
  <2>2. Positions = {} /\ \A c \in Chats : chats[c] = NoRow
    BY <2>1 DEF Init, Positions
  <2>3. \A s \in Syncs, g \in Groups : ~Holds(s, g)
    BY <2>1 DEF Init, Holds, NoSync
  <2>4. QED BY <2>2, <2>3 DEF GroupInv, LogNames, GroupKept
<1>2. ASSUME IInv, GroupInv, [Next]_vars
      PROVE  GroupInv'
  <2>1. CASE Change
    BY <1>2, <2>1, ChangeNamed
  <2>2. ASSUME NEW t \in Threads, Handle(t)
        PROVE  GroupInv'
    BY <1>2, <2>2, HandlerNamed, GroupInfoNamed DEF Handle
  <2>3. ASSUME NEW s \in Syncs, SyncJoinedGroups(s)
        PROVE  GroupInv'
    BY <1>2, <2>3, SyncNamed
  <2>4. CASE Kill
    BY <1>2, <2>4, KillNamed
  <2>5. CASE UNCHANGED vars
    <3>1. /\ log' = log /\ subject' = subject /\ sync' = sync /\ astray' = astray
          /\ chats' = chats /\ next' = next
      BY <2>5 DEF vars
    <3>2. next' \in Nat /\ next' <= next
      BY <1>2, <3>1, Numbers DEF IInv
    <3>3. QED BY <1>2, <3>1, <3>2, GroupsUndisturbed
  <2>6. QED BY <1>2, <2>1, <2>2, <2>3, <2>4, <2>5 DEF Next
<1>3. GroupInv => GroupsSettled
  BY DEF GroupInv, GroupKept, GroupsSettled
<1>4. QED BY <1>1, <1>2, <1>3, Invariance, PTL DEF Spec

-----------------------------------------------------------------------------
(* Contact names *)

\* The first event whose chat Live has still to look up.
FirstAhead == IF thread["live"].at = "write" THEN next + 1 ELSE next

Fresh(c) == \A i \in Positions : i >= FirstAhead => ChatOfEvent(log[i]) # c
Later(c) == \E i \in Positions : i > next /\ ChatOfEvent(log[i]) = c

\* t has read c's name and is about to write it; History is at c's name.
Carries(t, c) == thread[t].at = "upsert" /\ ChatOfEvent(thread[t].event) = c
Asks(c) == /\ thread["history"].at \in {"resolve", "upsert"}
           /\ ChatOfEvent(thread["history"].event) = c

\* What a contact keeps that neither a fault nor History's older reading hit:
\* the name in its row, or on its way there, is the address book's unless an
\* event to come will look it up again.
ContactKept(c) ==
    /\ Fresh(c) /\ chats[c] # NoRow /\ ~Asks(c) => chats[c].contact = saved[c]
    /\ Fresh(c) /\ Carries("history", c) => thread["history"].name = saved[c]
    /\ Carries("live", c) /\ ~Later(c) => thread["live"].name = saved[c]

ContactInv == \A c \in Contacts \ astray : ContactKept(c)

LEMMA AheadShape ==
  ASSUME IInv
  PROVE  /\ FirstAhead \in {next, next + 1} /\ next \in Nat /\ FirstAhead \in Nat
         /\ thread["live"].at = "write" => next \in Positions
         /\ FirstAhead <= Len(log) + 1
<1>1. next \in 1 .. Len(log) + 1 /\ next \in Nat /\ Len(log) \in Nat
  BY Numbers DEF IInv, TypeOK
<1>2. thread["live"].at = "write" => next \in 1 .. Len(log)
  BY DEF IInv, Works, Idle, Positions
<1>3. QED BY <1>1, <1>2 DEF FirstAhead, Positions

\* A contact that a step leaves alone.
LEMMA ContactUndisturbed ==
  ASSUME ContactInv, NEW c \in Contacts, c \notin astray,
         saved'[c] = saved[c],
         Fresh(c)' => Fresh(c),
         chats'[c] # NoRow => chats[c] # NoRow /\ chats'[c].contact = chats[c].contact,
         Asks(c) => Asks(c)',
         Carries("history", c)' =>
            Carries("history", c) /\ thread'["history"].name = thread["history"].name,
         Carries("live", c)' =>
            Carries("live", c) /\ thread'["live"].name = thread["live"].name,
         Later(c) => Later(c)'
  PROVE  ContactKept(c)'
<1>1. ContactKept(c)
  BY DEF ContactInv
<1>2. QED BY <1>1 DEF ContactKept

\* A change of the address book queues an event that looks the name up again.
LEMMA ChangeContacts ==
  ASSUME IInv, ContactInv, Change
  PROVE  ContactInv'
<1>1. PICK e \in Events :
        /\ Queue(e.kind, e.what, e.text)
        /\ \A c \in Contacts :
              (e.kind = "contact" /\ e.what = c) \/ saved'[c] = saved[c]
  BY ChangeShape
<1>2. log' = Append(log, e) /\ log \in Seq(Events)
  <2>1. e = [kind |-> e.kind, what |-> e.what, text |-> e.text]
    BY DEF Events
  <2>2. QED BY <1>1, <2>1 DEF Queue, IInv, TypeOK
<1>3. PICK p \in Nat : p = Len(log) + 1
  BY <1>2
<1>4. /\ Positions' = Positions \cup {p} /\ log'[p] = e /\ FirstAhead <= p
      /\ \A i \in Positions : i \in Nat /\ i < p /\ log'[i] = log[i]
  BY <1>2, <1>3, AppendFacts, AheadShape DEF Positions, IInv, TypeOK
<1>5. next' = next /\ chats' = chats /\ thread' = thread /\ astray' = astray
  BY <1>1, QueueShape
<1>6. FirstAhead' = FirstAhead
  BY <1>5 DEF FirstAhead
<1>7. ASSUME NEW c \in Contacts \ astray'
      PROVE  ContactKept(c)'
  <2>1. CASE e.kind = "contact" /\ e.what = c
    <3>1. ChatOfEvent(log'[p]) = c
      BY <1>4, <2>1 DEF ChatOfEvent, AboutMessage
    <3>2. ~Fresh(c)'
      BY <1>4, <1>6, <3>1 DEF Fresh, ChatOfEvent, AboutMessage
    <3>3. Carries("live", c)' => Later(c)'
      <4>1. SUFFICES ASSUME Carries("live", c)' PROVE Later(c)'
        OBVIOUS
      <4>2. next \in Positions
        BY <1>5, <4>1 DEF Carries, IInv, Works, Idle
      <4>3. QED BY <1>4, <1>5, <3>1, <4>2 DEF Later, ChatOfEvent, AboutMessage
    <3>4. QED BY <3>2, <3>3 DEF ContactKept
  <2>2. CASE saved'[c] = saved[c]
    <3>1. \A i \in Positions : ChatOfEvent(log'[i]) = ChatOfEvent(log[i])
      BY <1>4
    <3>2. Fresh(c)' => Fresh(c)
      BY <1>4, <1>6, <3>1 DEF Fresh, ChatOfEvent, AboutMessage
    <3>3. Later(c) => Later(c)'
      BY <1>4, <1>5, <3>1 DEF Later, ChatOfEvent, AboutMessage
    <3>4. c \notin astray /\ (Asks(c) => Asks(c)')
      BY <1>5, <1>7 DEF Asks, ChatOfEvent, AboutMessage
    <3>5. \A t \in Threads : Carries(t, c)' => Carries(t, c) /\ thread'[t].name = thread[t].name
      BY <1>5 DEF Carries, ChatOfEvent, AboutMessage
    <3>6. QED BY <1>5, <2>2, <3>2, <3>3, <3>4, <3>5, ContactUndisturbed
  <2>3. QED BY <1>1, <2>1, <2>2
<1>8. QED BY <1>7 DEF ContactInv

\* A handler's step about one chat leaves the other contacts alone.
LEMMA OtherContacts ==
  ASSUME IInv, ContactInv, NEW t \in Threads, NEW e, NEW c \in Contacts,
         c \notin astray, c # ChatOfEvent(e),
         thread[t] = Idle \/ thread[t].event = e,
         thread'[t] = Idle \/ thread'[t].event = e,
         \A u \in Threads \ {t} : thread'[u] = thread[u],
         t = "live" => e = log[next] /\ FirstAhead' \in {next, next + 1},
         t = "history" => next' = next,
         chats'[c] = chats[c], log' = log, saved' = saved
  PROVE  ContactKept(c)'
<1>1. \A x : ChatOfEvent(x)' = ChatOfEvent(x)
  BY DEF ChatOfEvent, AboutMessage
<1>2. ~Carries(t, c) /\ ~Carries(t, c)'
  BY DEF Carries, Idle, ChatOfEvent, AboutMessage
<1>3. \A u \in Threads \ {t} :
        Carries(u, c)' <=> Carries(u, c) /\ thread'[u].name = thread[u].name
  BY DEF Carries, ChatOfEvent, AboutMessage
<1>4. Asks(c) => Asks(c)'
  BY DEF Asks, Idle, ChatOfEvent, AboutMessage
<1>5. Fresh(c)' => Fresh(c)
  <2>1. CASE t = "live"
    <3>1. \A i \in Positions : i \in Nat /\ (i = next => ChatOfEvent(log[i]) # c)
      BY <2>1, Numbers DEF IInv
    <3>2. Positions' = Positions /\ FirstAhead \in {next, next + 1} /\ next \in Nat
      BY AheadShape DEF Positions
    <3>3. QED BY <2>1, <3>1, <3>2 DEF Fresh, ChatOfEvent, AboutMessage
  <2>2. CASE t = "history"
    <3>1. FirstAhead' = FirstAhead
      BY <2>2 DEF FirstAhead
    <3>2. QED BY <3>1 DEF Fresh, Positions, ChatOfEvent, AboutMessage
  <2>3. QED BY <2>1, <2>2
<1>6. CASE t = "live"
  <2>1. ~Carries("live", c)'
    BY <1>2, <1>6
  <2>2. ContactKept(c) /\ (Carries("history", c)' => 
           Carries("history", c) /\ thread'["history"].name = thread["history"].name)
    BY <1>3, <1>6 DEF ContactInv
  <2>3. QED BY <1>4, <1>5, <2>1, <2>2 DEF ContactKept
<1>7. CASE t = "history"
  <2>1. Later(c) => Later(c)'
    BY <1>7 DEF Later, Positions, ChatOfEvent, AboutMessage
  <2>2. QED BY <1>2, <1>3, <1>4, <1>5, <1>7, <2>1, ContactUndisturbed
<1>8. QED BY <1>6, <1>7

\* While Live is looking a chat up, its own event is still ahead.
LEMMA NotFresh ==
  ASSUME IInv, NEW e \in Events, next \in Positions, e = log[next],
         log' = log, FirstAhead' = next
  PROVE  ~Fresh(ChatOfEvent(e))'
<1>1. next \in Positions' /\ log'[next] = e
  BY DEF Positions
<1>2. QED BY <1>1, Numbers DEF IInv, Fresh, ChatOfEvent, AboutMessage

\* handleMessageEvent's first statement.
LEMMA EnsureContacts ==
  ASSUME IInv, ContactInv, NEW t \in Threads, NEW e \in Due(t), Ensure(t, e)
  PROVE  ContactInv'
<1>1. /\ TypeOK /\ e \in Events /\ thread[t] = Idle /\ AboutMessage(e)
      /\ e.what \in Msgs /\ ChatOf[e.what] \in Chats /\ ChatOfEvent(e) = ChatOf[e.what]
      /\ t = "live" => next \in Positions /\ e = log[next]
  BY DueIsEvent, EventShape DEF IInv, Ensure, Take, Positions, ChatOfEvent
<1>2. log' = log /\ saved' = saved /\ astray \subseteq astray'
  BY DEF Ensure
<1>3. /\ \A u \in Threads \ {t} : thread'[u] = thread[u]
      /\ thread'[t] = Idle \/ thread'[t].event = e
      /\ t = "history" => next' = next
      /\ t = "live" => FirstAhead' \in {next, next + 1}
  <2>1. CASE Continue(t, AfterEnsure(e), e, Blank)
    <3>1. /\ \A u \in Threads \ {t} : thread'[u] = thread[u]
          /\ thread'[t].event = e /\ thread'[t].at = AfterEnsure(e) /\ next' = next
      BY <1>1, <2>1, ContinueShape DEF Continue, AfterEnsure
    <3>2. QED BY <3>1 DEF FirstAhead
  <2>2. CASE Return(t)
    <3>1. /\ \A u \in Threads \ {t} : thread'[u] = thread[u]
          /\ thread'[t] = Idle /\ next' = IF t = "live" THEN next + 1 ELSE next
      BY <1>1, <2>2, ReturnShape
    <3>2. QED BY <3>1 DEF FirstAhead, Idle
  <2>3. QED BY <2>1, <2>2 DEF Ensure
<1>4. ASSUME NEW c \in Contacts \ astray', c # ChatOfEvent(e)
      PROVE  ContactKept(c)'
  <2>1. chats'[c] = chats[c]
    BY <1>1, <1>4 DEF Ensure, EnsureChat, TypeOK, ChatTable
  <2>2. QED BY <1>1, <1>2, <1>3, <1>4, <2>1, OtherContacts
<1>5. ASSUME NEW c \in Contacts \ astray', c = ChatOfEvent(e)
      PROVE  ContactKept(c)'
  <2>1. Continue(t, "resolve", e, Blank)
    BY <1>1, <1>5 DEF Ensure, AfterEnsure
  <2>2. /\ \A u \in Threads \ {t} : thread'[u] = thread[u]
        /\ thread'[t].event = e /\ thread'[t].at = "resolve" /\ next' = next
    BY <1>1, <2>1, ContinueShape DEF Continue
  <2>3. ChatOfEvent(e)' = ChatOfEvent(e)
    BY DEF ChatOfEvent, AboutMessage
  <2>4. CASE t = "live"
    <3>1. FirstAhead' = next /\ ~Carries("live", c)'
      BY <2>2, <2>4 DEF FirstAhead, Carries
    <3>2. QED BY <1>1, <1>2, <1>5, <2>4, <3>1, NotFresh DEF ContactKept
  <2>5. CASE t = "history"
    <3>1. Asks(c)' /\ ~Carries("history", c)'
      BY <1>5, <2>2, <2>3, <2>5 DEF Asks, Carries
    <3>2. Carries("live", c)' => Carries("live", c) /\ thread'["live"].name = thread["live"].name
      BY <2>2, <2>5 DEF Carries, ChatOfEvent, AboutMessage
    <3>3. Later(c) => Later(c)'
      BY <1>2, <2>2 DEF Later, Positions, ChatOfEvent, AboutMessage
    <3>4. ContactKept(c) /\ saved'[c] = saved[c]
      BY <1>2, <1>5 DEF ContactInv
    <3>5. QED BY <3>1, <3>2, <3>3, <3>4 DEF ContactKept
  <2>6. QED BY <2>4, <2>5
<1>6. QED BY <1>4, <1>5 DEF ContactInv

\* handleGroupInfoEvent is about no contact; handleContactEvent only begins.
LEMMA EventContacts ==
  ASSUME IInv, ContactInv, NEW t \in Threads, NEW e \in Due(t),
         GroupInfo(t, e) \/ ContactEvent(t, e)
  PROVE  ContactInv'
<1>1. /\ TypeOK /\ e \in Events /\ thread[t] = Idle /\ ~AboutMessage(e)
      /\ ChatOfEvent(e) = e.what
  BY DueIsEvent DEF IInv, GroupInfo, ContactEvent, Take, AboutMessage, ChatOfEvent
<1>2. t = "live" /\ next \in Positions /\ e = log[next] /\ next \in Nat
  BY <1>1, NotOfHistory, Numbers
<1>3. log' = log /\ saved' = saved /\ astray \subseteq astray'
  BY DEF GroupInfo, ContactEvent
<1>4. CASE GroupInfo(t, e)
  <2>1. /\ \A u \in Threads \ {t} : thread'[u] = thread[u]
        /\ thread'[t] = Idle /\ next' = next + 1
    BY <1>1, <1>2, <1>4, ReturnShape DEF GroupInfo
  <2>2. FirstAhead' = next + 1
    BY <1>2, <2>1 DEF FirstAhead, Idle
  <2>3. e.what \in Groups
    BY <1>1, <1>4, EventShape DEF GroupInfo
  <2>4. \A c \in Contacts : chats'[c] = chats[c] /\ c # e.what
    BY <1>1, <1>4, <2>3 DEF GroupInfo, UpsertChatName, TypeOK, ChatTable
  <2>5. QED BY <1>1, <1>2, <1>3, <2>1, <2>2, <2>4, OtherContacts DEF ContactInv
<1>5. CASE ContactEvent(t, e)
  <2>1. /\ \A u \in Threads \ {t} : thread'[u] = thread[u]
        /\ thread'[t].event = e /\ thread'[t].at = "resolve" /\ next' = next
    BY <1>1, <1>5, ContinueShape DEF ContactEvent, Continue
  <2>2. FirstAhead' = next /\ FirstAhead = next
    BY <1>1, <1>2, <2>1 DEF FirstAhead, Idle
  <2>3. chats' = chats /\ thread'["history"] = thread["history"]
    BY <1>2, <1>5, <2>1 DEF ContactEvent
  <2>4. ASSUME NEW c \in Contacts \ astray'
        PROVE  ContactKept(c)'
    <3>1. Fresh(c)' => Fresh(c)
      BY <1>3, <2>2 DEF Fresh, Positions, ChatOfEvent, AboutMessage
    <3>2. ~Carries("live", c)'
      BY <1>2, <2>1 DEF Carries
    <3>3. /\ Asks(c) => Asks(c)'
          /\ Carries("history", c)' => Carries("history", c)
      BY <2>3 DEF Asks, Carries, ChatOfEvent, AboutMessage
    <3>4. ContactKept(c)
      BY <1>3, <2>4 DEF ContactInv
    <3>5. QED BY <1>3, <2>3, <3>1, <3>2, <3>3, <3>4 DEF ContactKept
  <2>5. QED BY <2>4 DEF ContactInv
<1>6. QED BY <1>4, <1>5

\* What the steps of a busy handler have in common.
LEMMA BusyContacts ==
  ASSUME IInv, ContactInv, NEW t \in Threads, Resolve(t) \/ Upsert(t) \/ Write(t),
         NEW c \in Contacts, c \notin astray, c # ChatOfEvent(thread[t].event)
  PROVE  ContactKept(c)'
<1> DEFINE e == thread[t].event
<1>1. /\ TypeOK /\ thread[t] # Idle /\ e \in Events /\ ChatOfEvent(e) \in Chats
      /\ t = "live" => next \in Positions /\ e = log[next]
      /\ thread[t].name \in Names \cup {Blank}
      /\ ChatOfEvent(e) \in Contacts => saved[ChatOfEvent(e)] \in Names \cup {Blank}
  <2>1. TypeOK /\ thread[t] # Idle
    BY DEF IInv, Resolve, Upsert, Write, Idle
  <2>2. QED BY <2>1, WorkShape, EventShape, ThreadShape DEF TypeOK
<1>2. log' = log /\ saved' = saved
  BY DEF Resolve, Upsert, Write
<1>3. chats'[c] = chats[c]
  BY <1>1 DEF Resolve, Upsert, Write, UpsertContactName, TypeOK, ChatTable
<1>4. /\ \A u \in Threads \ {t} : thread'[u] = thread[u]
      /\ thread'[t] = Idle \/ thread'[t].event = e
      /\ t = "history" => next' = next
      /\ t = "live" => FirstAhead' \in {next, next + 1}
  <2>1. ASSUME NEW at \in {"upsert", "write"}, NEW n \in Names \cup {Blank},
               Continue(t, at, e, n)
        PROVE  /\ \A u \in Threads \ {t} : thread'[u] = thread[u]
               /\ thread'[t].event = e /\ next' = next
               /\ t = "live" => FirstAhead' \in {next, next + 1}
    <3>1. /\ \A u \in Threads \ {t} : thread'[u] = thread[u]
          /\ thread'[t].event = e /\ next' = next
      BY <1>1, <2>1, ContinueShape DEF Continue
    <3>2. QED BY <3>1 DEF FirstAhead
  <2>2. CASE Return(t)
    <3>1. /\ \A u \in Threads \ {t} : thread'[u] = thread[u]
          /\ thread'[t] = Idle /\ next' = IF t = "live" THEN next + 1 ELSE next
      BY <1>1, <2>2, ReturnShape
    <3>2. QED BY <3>1 DEF FirstAhead, Idle
  <2>3. \/ Return(t)
        \/ \E at \in {"upsert", "write"}, n \in Names \cup {Blank} : Continue(t, at, e, n)
    <3>1. CASE Resolve(t)
      <4>1. ChatOfEvent(e) \in Contacts
        BY <3>1 DEF IInv, Works, Resolve
      <4>2. QED BY <1>1, <3>1, <4>1 DEF Resolve
    <3>2. CASE Upsert(t)
      BY <3>2 DEF Upsert
    <3>3. CASE Write(t)
      BY <3>3 DEF Write
    <3>4. QED BY <3>1, <3>2, <3>3
  <2>4. QED BY <2>1, <2>2, <2>3
<1>5. QED BY <1>1, <1>2, <1>3, <1>4, OtherContacts

\* resolveContactName reads the address book as it is.
LEMMA ResolveContacts ==
  ASSUME IInv, ContactInv, NEW t \in Threads, Resolve(t),
         NEW e, e = thread[t].event, NEW k, k = ChatOfEvent(e)
  PROVE  ContactInv'
<1>1. /\ TypeOK /\ thread[t] # Idle /\ e \in Events /\ k \in Contacts
      /\ saved[k] \in Names \cup {Blank}
      /\ t = "live" => next \in Positions /\ e = log[next]
  <2>1. TypeOK /\ thread[t] # Idle /\ k \in Contacts
    BY DEF IInv, Works, Resolve, Idle
  <2>2. QED BY <2>1, WorkShape DEF TypeOK
<1>2. log' = log /\ saved' = saved /\ chats' = chats
  BY DEF Resolve
<1>3. ASSUME NEW c \in Contacts \ astray', c # k
      PROVE  ContactKept(c)'
  <2>1. c \notin astray
    BY <1>3 DEF Resolve
  <2>2. QED BY <1>3, <2>1, BusyContacts
<1>4. ASSUME k \notin astray'
      PROVE  ContactKept(k)'
  <2>1. Continue(t, "upsert", e, saved[k])
    BY <1>4 DEF Resolve
  <2>2. /\ \A u \in Threads \ {t} : thread'[u] = thread[u]
        /\ thread'[t].event = e /\ thread'[t].at = "upsert" /\ thread'[t].name = saved[k]
        /\ next' = next
    BY <1>1, <2>1, ContinueShape DEF Continue
  <2>3. CASE t = "live"
    <3>1. FirstAhead' = next
      BY <2>2, <2>3 DEF FirstAhead
    <3>2. ~Fresh(k)'
      BY <1>1, <1>2, <2>3, <3>1, NotFresh DEF ChatOfEvent, AboutMessage
    <3>3. QED BY <1>2, <2>2, <2>3, <3>2 DEF ContactKept
  <2>4. CASE t = "history"
    <3>1. Asks(k)' /\ thread'["history"].name = saved[k]
      BY <2>2, <2>4 DEF Asks, ChatOfEvent, AboutMessage
    <3>2. Carries("live", k)' => Carries("live", k) /\ thread'["live"].name = thread["live"].name
      BY <2>2, <2>4 DEF Carries, ChatOfEvent, AboutMessage
    <3>3. Later(k) => Later(k)'
      BY <1>2, <2>2 DEF Later, Positions, ChatOfEvent, AboutMessage
    <3>4. ContactKept(k)
      <4>1. k \notin astray
        BY <1>4, <2>4 DEF Resolve
      <4>2. QED BY <1>1, <4>1 DEF ContactInv
    <3>5. QED BY <1>2, <3>1, <3>2, <3>3, <3>4 DEF ContactKept
  <2>5. QED BY <2>3, <2>4
<1>5. QED BY <1>3, <1>4 DEF ContactInv

\* UpsertContactName: with no later event of the chat, the name is the present
\* one; if History is about to write another, the chat goes astray.
LEMMA UpsertContacts ==
  ASSUME IInv, ContactInv, NEW t \in Threads, Upsert(t),
         NEW e, e = thread[t].event, NEW k, k = ChatOfEvent(e), NEW n, n = thread[t].name
  PROVE  ContactInv'
<1>1. /\ TypeOK /\ thread[t] # Idle /\ e \in Events /\ k \in Contacts /\ thread[t].at = "upsert"
      /\ t = "live" => next \in Positions /\ e = log[next] /\ next \in Nat
      /\ t = "history" => AboutMessage(e)
  <2>1. TypeOK /\ thread[t] # Idle /\ k \in Contacts /\ thread[t].at = "upsert"
    BY DEF IInv, Works, Upsert, Idle
  <2>2. QED BY <2>1, WorkShape, Numbers DEF TypeOK
<1>2. log' = log /\ saved' = saved /\ astray \subseteq astray'
  BY DEF Upsert
<1>3. ASSUME NEW c \in Contacts \ astray', c # k
      PROVE  ContactKept(c)'
  BY <1>2, <1>3, BusyContacts
<1>4. /\ \A u \in Threads \ {t} : thread'[u] = thread[u]
      /\ thread'[t].at \in {"write", "idle"}
      /\ t = "live" => FirstAhead' = next + 1
      /\ t = "history" => next' = next
  <2>1. CASE AboutMessage(e)
    <3>1. /\ \A u \in Threads \ {t} : thread'[u] = thread[u]
          /\ thread'[t].at = "write" /\ next' = next
      BY <1>1, <2>1, ContinueShape DEF Upsert, Continue
    <3>2. QED BY <3>1 DEF FirstAhead
  <2>2. CASE ~AboutMessage(e)
    <3>1. t = "live"
      BY <1>1, <2>2
    <3>2. /\ \A u \in Threads \ {t} : thread'[u] = thread[u]
          /\ thread'[t] = Idle /\ next' = next + 1
      BY <1>1, <2>2, <3>1, ReturnShape DEF Upsert
    <3>3. QED BY <3>1, <3>2 DEF FirstAhead, Idle
  <2>3. QED BY <2>1, <2>2
<1>5. ASSUME k \notin astray'
      PROVE  ContactKept(k)'
  <2>1. /\ chats' = UpsertContactName(chats, k, n)
        /\ ~(t = "live" /\ HistoryHolds(k, n))
    BY <1>5 DEF Upsert
  <2>2. chats'[k].contact = n
    BY <1>1, <2>1 DEF UpsertContactName, TypeOK, ChatTable
  <2>3. ContactKept(k)
    BY <1>1, <1>2, <1>5 DEF ContactInv
  <2>4. CASE t = "live"
    <3>1. Fresh(k)' => ~Later(k)
      BY <1>1, <1>2, <1>4, <2>4 DEF Fresh, Later, Positions, ChatOfEvent, AboutMessage
    <3>2. Carries("live", k) /\ ~Carries("live", k)'
      BY <1>1, <1>4, <2>4 DEF Carries
    <3>3. Fresh(k)' => n = saved[k]
      BY <2>3, <2>4, <3>1, <3>2 DEF ContactKept
    <3>4. Carries("history", k)' => thread'["history"].name = n
      BY <1>4, <2>1, <2>4 DEF Carries, HistoryHolds, ChatOfEvent, AboutMessage
    <3>5. QED BY <1>2, <2>2, <3>2, <3>3, <3>4 DEF ContactKept
  <2>5. CASE t = "history"
    <3>1. Fresh(k)' => Fresh(k)
      <4>1. FirstAhead' = FirstAhead
        BY <1>4, <2>5 DEF FirstAhead
      <4>2. QED BY <1>2, <4>1 DEF Fresh, Positions, ChatOfEvent, AboutMessage
    <3>2. Carries("history", k) /\ ~Carries("history", k)'
      BY <1>1, <1>4, <2>5 DEF Carries
    <3>3. Fresh(k)' => n = saved[k]
      BY <2>3, <2>5, <3>1, <3>2 DEF ContactKept
    <3>4. Carries("live", k)' => Carries("live", k) /\ thread'["live"].name = thread["live"].name
      BY <1>4, <2>5 DEF Carries, ChatOfEvent, AboutMessage
    <3>5. Later(k) => Later(k)'
      BY <1>2, <1>4, <2>5 DEF Later, Positions, ChatOfEvent, AboutMessage
    <3>6. QED BY <1>2, <2>2, <2>3, <3>2, <3>3, <3>4, <3>5 DEF ContactKept
  <2>6. QED BY <2>4, <2>5
<1>6. QED BY <1>3, <1>5 DEF ContactInv

\* The last statement of handleMessageEvent is about no contact.
LEMMA WriteContacts ==
  ASSUME IInv, ContactInv, NEW t \in Threads, Write(t)
  PROVE  ContactInv'
<1> DEFINE e == thread[t].event
<1>1. /\ TypeOK /\ thread[t] # Idle /\ thread[t].at = "write"
      /\ t = "live" => next \in Positions /\ next \in Nat
  <2>1. TypeOK /\ thread[t] # Idle /\ thread[t].at = "write"
    BY DEF IInv, Write, Idle
  <2>2. QED BY <2>1, WorkShape, Numbers
<1>2. log' = log /\ saved' = saved /\ astray \subseteq astray' /\ chats' = chats
  BY DEF Write
<1>3. /\ \A u \in Threads \ {t} : thread'[u] = thread[u]
      /\ thread'[t] = Idle /\ next' = IF t = "live" THEN next + 1 ELSE next
  BY <1>1, ReturnShape DEF Write
<1>4. FirstAhead' = FirstAhead
  BY <1>1, <1>3 DEF FirstAhead, Idle
<1>5. ASSUME NEW c \in Contacts \ astray'
      PROVE  ContactKept(c)'
  <2>1. Fresh(c)' => Fresh(c)
    BY <1>2, <1>4 DEF Fresh, Positions, ChatOfEvent, AboutMessage
  <2>2. ~Carries(t, c)'
    BY <1>3 DEF Carries, Idle
  <2>3. \A u \in Threads \ {t} :
          Carries(u, c)' => Carries(u, c) /\ thread'[u].name = thread[u].name
    BY <1>3 DEF Carries, ChatOfEvent, AboutMessage
  <2>4. Asks(c) => Asks(c)'
    BY <1>1, <1>3 DEF Asks, ChatOfEvent, AboutMessage
  <2>5. ContactKept(c)
    BY <1>2, <1>5 DEF ContactInv
  <2>6. t = "history" => (Later(c) => Later(c)')
    BY <1>2, <1>3 DEF Later, Positions, ChatOfEvent, AboutMessage
  <2>7. QED BY <1>2, <2>1, <2>2, <2>3, <2>4, <2>5, <2>6 DEF ContactKept
<1>6. QED BY <1>5 DEF ContactInv

\* syncJoinedGroups writes group rows only; a kill moves Live back, and what
\* History was about goes astray.
LEMMA SyncContacts ==
  ASSUME IInv, ContactInv, NEW s \in Syncs, SyncJoinedGroups(s)
  PROVE  ContactInv'
<1>1. log' = log /\ saved' = saved /\ next' = next /\ thread' = thread
  BY DEF SyncJoinedGroups, Connected, Fetch, WriteGroup
<1>2. \A c \in Contacts \ astray' : c \notin astray
  BY DEF SyncJoinedGroups, Connected, Fetch, WriteGroup
<1>3. \A c \in Contacts : chats'[c] = chats[c]
  <2>1. Connected(s) \/ Fetch(s) => chats' = chats
    BY DEF Connected, Fetch
  <2>2. ASSUME NEW g \in Groups, WriteGroup(s, g), NEW c \in Contacts
        PROVE  chats'[c] = chats[c]
    <3>1. chats' = chats \/ chats' = UpsertChatName(chats, g, sync[s].got[g])
      BY <2>2 DEF WriteGroup
    <3>2. g # c
      OBVIOUS
    <3>3. QED BY <3>1, <3>2 DEF UpsertChatName, IInv, TypeOK, ChatTable
  <2>3. QED BY <2>1, <2>2 DEF SyncJoinedGroups
<1>4. FirstAhead' = FirstAhead
  BY <1>1 DEF FirstAhead
<1>5. ASSUME NEW c \in Contacts \ astray'
      PROVE  ContactKept(c)'
  <2>1. ContactKept(c) /\ chats'[c] = chats[c]
    BY <1>2, <1>3, <1>5 DEF ContactInv
  <2>2. Fresh(c)' => Fresh(c)
    BY <1>1, <1>4 DEF Fresh, Positions, ChatOfEvent, AboutMessage
  <2>3. (Later(c) => Later(c)') /\ (Asks(c) => Asks(c)')
    BY <1>1 DEF Later, Asks, Positions, ChatOfEvent, AboutMessage
  <2>4. \A t \in Threads : Carries(t, c)' => Carries(t, c)
    BY <1>1 DEF Carries, ChatOfEvent, AboutMessage
  <2>5. QED BY <1>1, <2>1, <2>2, <2>3, <2>4 DEF ContactKept
<1>6. QED BY <1>5 DEF ContactInv

LEMMA KillContacts ==
  ASSUME IInv, ContactInv, Kill
  PROVE  ContactInv'
<1>1. /\ log' = log /\ saved' = saved /\ chats' = chats
      /\ next' \in 1 .. next /\ astray' = astray \cup Unfinished
      /\ \A t \in Threads : thread'[t] = Idle
  BY DEF Kill
<1>2. FirstAhead' <= FirstAhead
  BY <1>1, AheadShape DEF FirstAhead, Idle
<1>3. ASSUME NEW c \in Contacts \ astray'
      PROVE  ContactKept(c)'
  <2>1. ~Asks(c)
    <3>1. SUFFICES ASSUME Asks(c) PROVE FALSE
      OBVIOUS
    <3>2. thread["history"] # Idle /\ AboutMessage(thread["history"].event)
      BY <3>1, WorkShape DEF Asks, Idle
    <3>3. ChatOf[thread["history"].event.what] = c
      BY <3>1, <3>2 DEF Asks, ChatOfEvent
    <3>4. QED BY <1>1, <1>3, <3>2, <3>3 DEF Unfinished
  <2>2. Fresh(c)' => Fresh(c)
    <3>1. FirstAhead \in Nat /\ next \in Nat /\ Positions \subseteq Nat
      BY AheadShape, Numbers DEF IInv
    <3>2. FirstAhead' \in Nat
      <4>1. thread'["live"].at = "idle"
        BY <1>1 DEF Idle
      <4>2. QED BY <1>1, <3>1, <4>1 DEF FirstAhead
    <3>3. QED BY <1>1, <1>2, <3>1, <3>2 DEF Fresh, Positions, ChatOfEvent, AboutMessage
  <2>3. \A t \in Threads : ~Carries(t, c)'
    BY <1>1 DEF Carries, Idle
  <2>4. ContactKept(c)
    BY <1>1, <1>3 DEF ContactInv
  <2>5. QED BY <1>1, <2>1, <2>2, <2>3, <2>4 DEF ContactKept
<1>4. QED BY <1>3 DEF ContactInv

(***************************************************************************)
(* Contact names settle: in every reachable state a contact no failing     *)
(* read or write and no older reading of History's has hit, and no event   *)
(* of whose chat is due or in work, has the address book's present name.   *)
(***************************************************************************)
THEOREM NamesSettle == Spec => []ContactsSettled
<1>1. Init => ContactInv
  <2>1. SUFFICES ASSUME Init PROVE ContactInv
    OBVIOUS
  <2>2. (\A c \in Chats : chats[c] = NoRow) /\ (\A t \in Threads : thread[t] = Idle)
    BY <2>1 DEF Init
  <2>3. QED BY <2>2 DEF ContactInv, ContactKept, Carries, Idle
<1>2. ASSUME IInv, ContactInv, [Next]_vars
      PROVE  ContactInv'
  <2>1. CASE Change
    BY <1>2, <2>1, ChangeContacts
  <2>2. ASSUME NEW t \in Threads, Handle(t)
        PROVE  ContactInv'
    BY <1>2, <2>2, EnsureContacts, EventContacts, ResolveContacts, UpsertContacts, WriteContacts
    DEF Handle
  <2>3. ASSUME NEW s \in Syncs, SyncJoinedGroups(s)
        PROVE  ContactInv'
    BY <1>2, <2>3, SyncContacts
  <2>4. CASE Kill
    BY <1>2, <2>4, KillContacts
  <2>5. CASE UNCHANGED vars
    BY <1>2, <2>5 DEF vars, ContactInv, ContactKept, Fresh, FirstAhead, Later, Carries, Asks,
                      Positions, ChatOfEvent, AboutMessage
  <2>6. QED BY <1>2, <2>1, <2>2, <2>3, <2>4, <2>5 DEF Next
<1>3. ASSUME IInv, ContactInv
      PROVE  ContactsSettled
  <2>1. SUFFICES ASSUME NEW c \in Contacts \ astray, chats[c] # NoRow, ~ChatDue(c),
                        thread["history"] # Idle => ChatOfEvent(thread["history"].event) # c
                 PROVE  chats[c].contact = saved[c]
    BY DEF ContactsSettled
  <2>2. ~Asks(c)
    BY <2>1 DEF Asks, Idle
  <2>3. Fresh(c)
    <3>1. FirstAhead >= next /\ FirstAhead \in Nat /\ next \in Nat
      BY <1>3, AheadShape
    <3>2. QED BY <1>3, <2>1, <3>1, Numbers DEF IInv, Fresh, ChatDue, Positions
  <2>4. QED BY <1>3, <2>1, <2>2, <2>3 DEF ContactInv, ContactKept
<1>4. QED BY <1>1, <1>2, <1>3, Invariance, PTL DEF Spec

=============================================================================
