------------------------- MODULE WhatsAppSessionProofs -------------------------
(***************************************************************************)
(* Proofs about WhatsAppSession, for any set of processes and every bound  *)
(* on launches and troubles: whatsmeow.db is open only under the flock, a  *)
(* healthy answer stands on a login that nothing has ended, and `paired`   *)
(* is told last, after a login.                                            *)
(***************************************************************************)
EXTENDS WhatsAppSession, SequenceTheorems, TLAPS

Places == {"off", "store", "lock", "session", "device", "connect", "refused",
           "serving", "qr", "await", "close", "tell", "exited"}

\* A link command that is closing knows its outcome.
Decided == \A p \in Procs : at[p] \in {"close", "tell"} => outcome[p] # "none"

\* Who has the store open, or is about to open it, holds the lock.
Locked == \A p \in Procs : open[p] \/ at[p] = "session" => holder = p

\* Before a process dials, and after it has ended, its client is silent.
Quiet ==
    \A p \in Procs : at[p] \in {"off", "store", "lock", "session", "device", "connect",
                                "tell", "exited"} =>
        /\ conn[p] = "off" /\ inbox[p] = <<>>
        /\ at[p] \in {"store", "lock", "session", "device", "connect"} => health[p] = "connecting"

\* A client is logged in only as a device the account lists.
Bound == \A p \in Procs : conn[p] = "in" => device /\ linked

\* Nothing is told of a login that has not been.
Heard ==
    \A p \in Procs :
        /\ health[p] = "linked" => entered[p]
        /\ \A i \in 1 .. Len(inbox[p]) : inbox[p][i] = "connected" => entered[p]

\* The health once every event is dispatched.
Final(p) == IF inbox[p] = <<>> THEN health[p] ELSE HealthAfter(inbox[p][Len(inbox[p])])

\* A session that has ended has said so, or will, last of all.
Announced ==
    \A p \in Procs : mode[p] = "serve" /\ at[p] \in {"refused", "serving"} /\ conn[p] = "off" =>
                        Final(p) # "linked"

\* A process that has ended, or is about to, holds nothing.
Released == \A p \in Procs : at[p] \in {"off", "exited", "tell"} => holder # p /\ ~open[p]

\* A login that is waited for, or was the outcome, has been.
Earned == \A p \in Procs : waiter[p] = "ok" \/ outcome[p] = "paired" => entered[p]

\* The outcome is the last thing a link command tells.
Said ==
    \A p \in Procs : \A i \in 1 .. Len(told[p]) :
        told[p][i] \in {"paired", "timeout"} =>
            at[p] = "exited" /\ i = Len(told[p]) /\ outcome[p] = told[p][i]

IInv ==
    /\ SessionTypeOK /\ Decided /\ Locked /\ Quiet /\ Bound /\ Heard /\ Announced
    /\ Released /\ Earned /\ Said

USE DEF Goto, Smooth, Trouble, Running, Places, Modes, Outcomes, Terminal, Healths, Events

-----------------------------------------------------------------------------
\* What handleEvent makes of an event (a CASE, so by the provers that know it).
LEMMA HealthAfterEvent ==
  ASSUME NEW e \in Events
  PROVE  /\ HealthAfter(e) \in Healths
         /\ HealthAfter(e) = "linked" <=> e = "connected"
BY DEF HealthAfter

LEMMA SignalledState ==
  ASSUME NEW w \in {"none", "armed", "ok", "failed"}, NEW e \in Events
  PROVE  /\ Signalled(w, e) \in {"none", "armed", "ok", "failed"}
         /\ Signalled(w, e) = "ok" => w = "ok" \/ e = "connected"
BY DEF Signalled

\* The queue of events, as Queue and Dispatch change it.
LEMMA Queued ==
  ASSUME NEW s \in Seq(Events), NEW e \in Events
  PROVE  /\ Append(s, e) \in Seq(Events)
         /\ Append(s, e) # <<>> /\ Append(s, e)[Len(Append(s, e))] = e
OBVIOUS

LEMMA Dequeued ==
  ASSUME NEW s \in Seq(Events), s # <<>>
  PROVE  /\ Head(s) = s[1] /\ Head(s) \in Events /\ Len(s) \in Nat \ {0}
         /\ Tail(s) \in Seq(Events)
         /\ \A i \in 1 .. Len(Tail(s)) : Tail(s)[i] = s[i + 1] /\ i + 1 \in 1 .. Len(s)
         /\ IF Len(s) = 1 THEN Tail(s) = <<>>
            ELSE Tail(s) # <<>> /\ Tail(s)[Len(Tail(s))] = s[Len(s)]
<1>1. /\ Head(s) = s[1] /\ Len(s) \in Nat \ {0} /\ Len(Tail(s)) = Len(s) - 1
      /\ Head(s) \in Events /\ Tail(s) \in Seq(Events)
      /\ \A i \in 1 .. Len(Tail(s)) : Tail(s)[i] = s[i + 1]
  BY EmptySeq, HeadTailProperties
<1>2. Len(s) = 1 => Tail(s) = <<>>
  <2>1. Tail(s) # <<>> => Len(Tail(s)) \in Nat \ {0}
    BY <1>1, EmptySeq
  <2>2. QED BY <1>1, <2>1
<1>3. Len(s) # 1 => Tail(s) # <<>> /\ Len(Tail(s)) \in 1 .. Len(Tail(s))
  BY <1>1, EmptySeq
<1>4. QED BY <1>1, <1>2, <1>3

LEMMA TroubleCounts ==
  ASSUME SessionAssumption, SessionTypeOK, troubles' = troubles \/ Trouble
  PROVE  troubles' \in 0 .. MaxTroubles
BY DEF SessionAssumption, SessionTypeOK

\* What a process and its client have not touched is announced as before.
LEMMA AnnouncedSame ==
  ASSUME Announced, Quiet,
         UNCHANGED <<mode, inbox>>,
         \A p \in Procs : /\ health'[p] = health[p]
                          /\ at'[p] \in {"refused", "serving"} /\ conn'[p] = "off" =>
                                at[p] \in {"refused", "serving"} /\ conn[p] = "off"
  PROVE  Announced'
<1>1. \A p \in Procs : Final(p)' = Final(p)
  BY DEF Final
<1>2. QED BY <1>1 DEF Announced

\* A process that ends takes only its own lock with it.
LEMMA GoneKeeps ==
  ASSUME SessionAssumption, IInv,
         NEW p \in Procs, Running(p), NEW l \in {"off", "exited"}, Gone(p, l),
         UNCHANGED <<device, linked, mode, waiter, health, outcome, told, entered, starts>>,
         troubles' \in 0 .. MaxTroubles
  PROVE  IInv'
<1> USE DEF IInv, SessionTypeOK
<1>1. SessionTypeOK'
  BY DEF Gone
<1>2. Decided'
  BY DEF Decided, Gone
<1>3. Locked'
  BY DEF Locked, Gone
<1>4. Quiet'
  BY DEF Quiet, Gone
<1>5. Bound'
  BY DEF Bound, Gone
<1>6. Heard'
  BY DEF Heard, Quiet, Gone
<1>7. Announced'
  BY DEF Announced, Final, Quiet, Gone
<1>8. Released'
  BY DEF Released, Gone, SessionAssumption
<1>9. Earned'
  BY DEF Earned, Gone
<1>10. Said'
  BY DEF Said, Gone
<1>11. QED BY <1>1, <1>2, <1>3, <1>4, <1>5, <1>6, <1>7, <1>8, <1>9, <1>10

LEMMA CloseKeeps ==
  ASSUME IInv, NEW p \in Procs, Running(p), NEW o \in {"paired", "timeout", "error"}, Finish(p, o),
         o = "paired" => waiter[p] = "ok",
         UNCHANGED <<device, linked, holder, mode, open, conn, inbox, waiter, health, told,
                     entered, starts>>,
         troubles' \in 0 .. MaxTroubles
  PROVE  IInv'
<1> USE DEF IInv, SessionTypeOK, Finish
<1>1. SessionTypeOK'
  OBVIOUS
<1>2. Decided'
  BY DEF Decided
<1>3. Locked'
  BY DEF Locked
<1>4. Quiet'
  BY DEF Quiet
<1>5. Bound'
  BY DEF Bound
<1>6. Heard'
  BY DEF Heard
<1>7. Announced'
  BY AnnouncedSame
<1>8. Released'
  BY DEF Released
<1>9. Earned'
  BY DEF Earned
<1>10. Said'
  BY DEF Said
<1>11. QED BY <1>1, <1>2, <1>3, <1>4, <1>5, <1>6, <1>7, <1>8, <1>9, <1>10

LEMMA FailStartKeeps ==
  ASSUME SessionAssumption, IInv, NEW p \in Procs, Running(p), FailStart(p),
         UNCHANGED <<device, linked, mode, waiter, health, told, entered, starts>>,
         troubles' \in 0 .. MaxTroubles
  PROVE  IInv'
<1>1. CASE mode[p] = "link"
  <2>1. Finish(p, "error") /\ UNCHANGED <<holder, open, conn, inbox>>
    BY <1>1 DEF FailStart, Finish
  <2>2. QED BY <2>1, CloseKeeps
<1>2. CASE mode[p] # "link"
  <2>1. Gone(p, "exited") /\ UNCHANGED outcome
    BY <1>2 DEF FailStart
  <2>2. QED BY <2>1, GoneKeeps
<1>3. QED BY <1>1, <1>2

LEMMA OpenMessageStoreKeeps ==
  ASSUME SessionAssumption, IInv, NEW p \in Procs, OpenMessageStore(p)
  PROVE  IInv'
<1>0. troubles' \in 0 .. MaxTroubles
  BY TroubleCounts DEF IInv, OpenMessageStore
<1>1. CASE FailStart(p) /\ UNCHANGED <<waiter, health, told>>
  BY <1>0, <1>1, FailStartKeeps DEF OpenMessageStore
<1>2. CASE Goto(p, "lock") /\ UNCHANGED <<holder, open, conn, inbox, outcome>>
  <2> USE <1>0, <1>2 DEF IInv, SessionTypeOK, OpenMessageStore
  <2>1. SessionTypeOK'
    OBVIOUS
  <2>2. Decided'
    BY DEF Decided
  <2>3. Locked'
    BY DEF Locked
  <2>4. Quiet'
    BY DEF Quiet
  <2>5. Bound'
    BY DEF Bound
  <2>6. Heard'
    BY DEF Heard, Quiet
  <2>7. Announced'
    BY AnnouncedSame
  <2>8. Released'
    BY DEF Released
  <2>9. Earned'
    BY DEF Earned
  <2>10. Said'
    BY DEF Said
  <2>11. QED BY <2>1, <2>2, <2>3, <2>4, <2>5, <2>6, <2>7, <2>8, <2>9, <2>10
<1>3. QED BY <1>1, <1>2 DEF OpenMessageStore

\* The lock is taken only when nobody has it, so nobody has the store open.
LEMMA AcquireStoreLockKeeps ==
  ASSUME SessionAssumption, IInv, NEW p \in Procs, AcquireStoreLock(p)
  PROVE  IInv'
<1>0. troubles' \in 0 .. MaxTroubles
  BY TroubleCounts DEF IInv, AcquireStoreLock
<1>1. CASE FailStart(p) /\ UNCHANGED <<waiter, health, told>>
  BY <1>0, <1>1, FailStartKeeps DEF AcquireStoreLock
<1>2. CASE /\ holder = NoProc /\ holder' = p /\ Goto(p, "session")
          /\ UNCHANGED <<open, conn, inbox, outcome>>
  <2> USE <1>0, <1>2 DEF IInv, SessionTypeOK, AcquireStoreLock
  <2>1. SessionTypeOK'
    OBVIOUS
  <2>2. Decided'
    BY DEF Decided
  <2>3. Locked'
    BY DEF Locked, SessionAssumption
  <2>4. Quiet'
    BY DEF Quiet
  <2>5. Bound'
    BY DEF Bound
  <2>6. Heard'
    BY DEF Heard, Quiet
  <2>7. Announced'
    BY AnnouncedSame
  <2>8. Released'
    BY DEF Released, SessionAssumption
  <2>9. Earned'
    BY DEF Earned, SessionAssumption
  <2>10. Said'
    BY DEF Said, SessionAssumption
  <2>11. QED BY <2>1, <2>2, <2>3, <2>4, <2>5, <2>6, <2>7, <2>8, <2>9, <2>10
<1>3. QED BY <1>1, <1>2 DEF AcquireStoreLock

\* The store is opened by the holder.
LEMMA OpenSessionKeeps ==
  ASSUME SessionAssumption, IInv, NEW p \in Procs, OpenSession(p)
  PROVE  IInv'
<1>0. troubles' \in 0 .. MaxTroubles
  BY TroubleCounts DEF IInv, OpenSession
<1>1. CASE FailStart(p) /\ UNCHANGED <<waiter, health, told>>
  BY <1>0, <1>1, FailStartKeeps DEF OpenSession
<1>2. CASE /\ open' = [open EXCEPT ![p] = TRUE] /\ Goto(p, "device")
          /\ UNCHANGED <<holder, conn, inbox, outcome>>
  <2> USE <1>0, <1>2 DEF IInv, SessionTypeOK, OpenSession
  <2>1. SessionTypeOK'
    OBVIOUS
  <2>2. Decided'
    BY DEF Decided
  <2>3. Locked'
    BY DEF Locked
  <2>4. Quiet'
    BY DEF Quiet
  <2>5. Bound'
    BY DEF Bound
  <2>6. Heard'
    BY DEF Heard, Quiet
  <2>7. Announced'
    BY AnnouncedSame
  <2>8. Released'
    BY DEF Released
  <2>9. Earned'
    BY DEF Earned
  <2>10. Said'
    BY DEF Said
  <2>11. QED BY <2>1, <2>2, <2>3, <2>4, <2>5, <2>6, <2>7, <2>8, <2>9, <2>10
<1>3. QED BY <1>1, <1>2 DEF OpenSession

\* A client that is not to dial is told of as not linked.
LEMMA ReadDeviceKeeps ==
  ASSUME SessionAssumption, IInv, NEW p \in Procs, ReadDevice(p)
  PROVE  IInv'
<1>0. troubles' \in 0 .. MaxTroubles
  BY TroubleCounts DEF IInv, ReadDevice
<1>1. CASE FailStart(p) /\ UNCHANGED <<waiter, health, told>>
  BY <1>0, <1>1, FailStartKeeps DEF ReadDevice
<1>2. CASE /\ Goto(p, IF mode[p] = "serve" /\ ~device THEN "serving" ELSE "connect")
          /\ health' = [health EXCEPT ![p] =
                          IF mode[p] = "serve" /\ ~device THEN "notLinked" ELSE "connecting"]
          /\ UNCHANGED <<holder, open, conn, inbox, outcome>>
  <2> USE <1>0, <1>2 DEF IInv, SessionTypeOK, ReadDevice
  <2>1. SessionTypeOK'
    <3>1. waiter' \in [Procs -> {"none", "armed", "ok", "failed"}]
      BY <1>2 DEF ReadDevice
    <3>2. told' \in [Procs -> Seq(Terminal \cup {"qr", "already_linked", "pairing_accepted"})]
      <4>1. told' = [told EXCEPT ![p] = Append(@, "already_linked")] \/ told' = told
        BY DEF ReadDevice
      <4>2. CASE told' = [told EXCEPT ![p] = Append(@, "already_linked")]
        BY <4>2
      <4>3. QED BY <4>1, <4>2
    <3>3. at' \in [Procs -> Places] /\ health' \in [Procs -> Healths]
      BY <1>2
    <3>4. QED BY <1>0, <1>2, <3>1, <3>2, <3>3 DEF ReadDevice
  <2>2. Decided'
    BY DEF Decided
  <2>3. Locked'
    BY DEF Locked
  <2>4. Quiet'
    BY DEF Quiet
  <2>5. Bound'
    BY DEF Bound
  <2>6. Heard'
    BY DEF Heard, Quiet
  <2>7. Announced'
    BY DEF Announced, Final, Quiet
  <2>8. Released'
    BY DEF Released
  <2>9. Earned'
    BY DEF Earned
  <2>10. Said'
    <3>1. at[p] = "device"
      BY DEF ReadDevice
    <3>2. \A q \in Procs \ {p} : at'[q] = at[q] /\ told'[q] = told[q] /\ outcome'[q] = outcome[q]
      BY <1>2 DEF ReadDevice
    <3>3. \A i \in 1 .. Len(told[p]) : told[p][i] \notin {"paired", "timeout"}
      BY <3>1 DEF Said
    <3>4. \A i \in 1 .. Len(told'[p]) : told'[p][i] \notin {"paired", "timeout"}
      <4>1. CASE told' = [told EXCEPT ![p] = Append(@, "already_linked")]
        BY <3>3, <4>1
      <4>2. CASE told' = told
        BY <3>3, <4>2
      <4>3. QED BY <4>1, <4>2 DEF ReadDevice
    <3>5. QED BY <3>2, <3>4 DEF Said
  <2>11. QED BY <2>1, <2>2, <2>3, <2>4, <2>5, <2>6, <2>7, <2>8, <2>9, <2>10
<1>3. QED BY <1>1, <1>2 DEF ReadDevice

-----------------------------------------------------------------------------

LEMMA ServeConnectKeeps ==
  ASSUME SessionAssumption, IInv, NEW p \in Procs, ServeConnect(p)
  PROVE  IInv'
<1> USE DEF IInv, SessionTypeOK
<1>1. SessionTypeOK'
  <2>1. troubles' \in 0 .. MaxTroubles
    BY TroubleCounts DEF ServeConnect
  <2>2. QED BY <2>1 DEF ServeConnect
<1>2. Decided'
  BY DEF Decided, ServeConnect
<1>3. Locked'
  BY DEF Locked, ServeConnect
<1>4. Quiet'
  BY DEF Quiet, ServeConnect
<1>5. Bound'
  BY DEF Bound, ServeConnect
<1>6. Heard'
  BY DEF Heard, Quiet, ServeConnect
<1>7. Announced'
  BY AnnouncedSame DEF ServeConnect
<1>8. Released'
  BY DEF Released, ServeConnect
<1>9. Earned'
  BY DEF Earned, ServeConnect
<1>10. Said'
  BY DEF Said, ServeConnect
<1>11. QED BY <1>1, <1>2, <1>3, <1>4, <1>5, <1>6, <1>7, <1>8, <1>9, <1>10

LEMMA ReportRefusedKeeps ==
  ASSUME SessionAssumption, IInv, NEW p \in Procs, ReportRefused(p)
  PROVE  IInv'
<1> USE DEF IInv, SessionTypeOK
<1>1. SessionTypeOK'
  BY DEF ReportRefused
<1>2. Decided'
  BY DEF Decided, ReportRefused
<1>3. Locked'
  BY DEF Locked, ReportRefused
<1>4. Quiet'
  BY DEF Quiet, ReportRefused
<1>5. Bound'
  BY DEF Bound, ReportRefused
<1>6. Heard'
  BY DEF Heard, Quiet, ReportRefused
<1>7. Announced'
  BY DEF Announced, Final, Quiet, ReportRefused
<1>8. Released'
  BY DEF Released, ReportRefused
<1>9. Earned'
  BY DEF Earned, ReportRefused
<1>10. Said'
  BY DEF Said, ReportRefused
<1>11. QED BY <1>1, <1>2, <1>3, <1>4, <1>5, <1>6, <1>7, <1>8, <1>9, <1>10

LEMMA RetireWaiterKeeps ==
  ASSUME SessionAssumption, IInv, NEW p \in Procs, RetireWaiter(p)
  PROVE  IInv'
<1> USE DEF IInv, SessionTypeOK
<1>1. SessionTypeOK'
  BY DEF RetireWaiter
<1>2. Decided'
  BY DEF Decided, RetireWaiter
<1>3. Locked'
  BY DEF Locked, RetireWaiter
<1>4. Quiet'
  BY DEF Quiet, RetireWaiter
<1>5. Bound'
  BY DEF Bound, RetireWaiter
<1>6. Heard'
  BY DEF Heard, Quiet, RetireWaiter
<1>7. Announced'
  BY AnnouncedSame DEF RetireWaiter
<1>8. Released'
  BY DEF Released, RetireWaiter
<1>9. Earned'
  BY DEF Earned, RetireWaiter
<1>10. Said'
  BY DEF Said, RetireWaiter
<1>11. QED BY <1>1, <1>2, <1>3, <1>4, <1>5, <1>6, <1>7, <1>8, <1>9, <1>10

LEMMA LinkConnectKeeps ==
  ASSUME SessionAssumption, IInv, NEW p \in Procs, LinkConnect(p)
  PROVE  IInv'
<1>0. troubles' \in 0 .. MaxTroubles
  BY TroubleCounts DEF IInv, LinkConnect
<1>1. CASE Finish(p, "error") /\ UNCHANGED conn
  BY <1>0, <1>1, CloseKeeps DEF LinkConnect
<1>2. CASE /\ conn' = [conn EXCEPT ![p] = "dialed"]
           /\ Goto(p, IF device THEN "await" ELSE "qr")
           /\ UNCHANGED outcome
  <2> USE <1>0, <1>2 DEF IInv, SessionTypeOK, LinkConnect
  <2>1. SessionTypeOK'
    OBVIOUS
  <2>2. Decided'
    BY DEF Decided
  <2>3. Locked'
    BY DEF Locked
  <2>4. Quiet'
    BY DEF Quiet
  <2>5. Bound'
    BY DEF Bound
  <2>6. Heard'
    BY DEF Heard
  <2>7. Announced'
    BY AnnouncedSame
  <2>8. Released'
    BY DEF Released
  <2>9. Earned'
    BY DEF Earned
  <2>10. Said'
    BY DEF Said
  <2>11. QED BY <2>1, <2>2, <2>3, <2>4, <2>5, <2>6, <2>7, <2>8, <2>9, <2>10
<1>3. QED BY <1>1, <1>2 DEF LinkConnect

LEMMA ShowCodeKeeps ==
  ASSUME SessionAssumption, IInv, NEW p \in Procs, ShowCode(p)
  PROVE  IInv'
<1> USE DEF IInv, SessionTypeOK
<1>1. SessionTypeOK'
  <2>1. troubles' \in 0 .. MaxTroubles
    BY TroubleCounts DEF ShowCode
  <2>2. PICK e \in {"qr", "error"} : told' = [told EXCEPT ![p] = Append(@, e)]
    BY DEF ShowCode, Tell
  <2>3. told' \in [Procs -> Seq(Terminal \cup {"qr", "already_linked", "pairing_accepted"})]
    BY <2>2
  <2>4. QED BY <2>1, <2>3 DEF ShowCode
<1>2. Decided'
  BY DEF Decided, ShowCode, Tell
<1>3. Locked'
  BY DEF Locked, ShowCode, Tell
<1>4. Quiet'
  BY DEF Quiet, ShowCode, Tell
<1>5. Bound'
  BY DEF Bound, ShowCode, Tell
<1>6. Heard'
  BY DEF Heard, Quiet, ShowCode, Tell
<1>7. Announced'
  BY AnnouncedSame DEF ShowCode, Tell
<1>8. Released'
  BY DEF Released, ShowCode, Tell
<1>9. Earned'
  BY DEF Earned, ShowCode, Tell
<1>10. Said'
  <2>1. PICK e \in {"qr", "error"} : told' = [told EXCEPT ![p] = Append(@, e)]
    BY DEF ShowCode, Tell
  <2>2. \A i \in 1 .. Len(told[p]) : told[p][i] \notin {"paired", "timeout"}
    BY DEF Said, ShowCode
  <2>3. \A i \in 1 .. Len(told'[p]) : told'[p][i] \notin {"paired", "timeout"}
    BY <2>1, <2>2
  <2>4. \A q \in Procs \ {p} : at'[q] = at[q] /\ told'[q] = told[q] /\ outcome'[q] = outcome[q]
    BY <2>1 DEF ShowCode
  <2> HIDE DEF IInv, SessionTypeOK
  <2>5. QED BY <2>3, <2>4 DEF IInv, Said
<1>11. QED BY <1>1, <1>2, <1>3, <1>4, <1>5, <1>6, <1>7, <1>8, <1>9, <1>10

LEMMA NotScannedKeeps ==
  ASSUME SessionAssumption, IInv, NEW p \in Procs, NotScanned(p)
  PROVE  IInv'
<1>1. troubles' \in 0 .. MaxTroubles
  BY TroubleCounts DEF IInv, NotScanned
<1>2. \E o \in {"timeout", "error"} : Finish(p, o)
  BY DEF NotScanned
<1>3. QED BY <1>1, <1>2, CloseKeeps DEF NotScanned

LEMMA PairingAcceptedKeeps ==
  ASSUME SessionAssumption, IInv, NEW p \in Procs, PairingAccepted(p)
  PROVE  IInv'
<1> USE DEF IInv, SessionTypeOK
<1>1. SessionTypeOK'
  BY DEF PairingAccepted, Tell
<1>2. Decided'
  BY DEF Decided, PairingAccepted, Tell
<1>3. Locked'
  BY DEF Locked, PairingAccepted, Tell
<1>4. Quiet'
  BY DEF Quiet, PairingAccepted, Tell
<1>5. Bound'
  BY DEF Bound, PairingAccepted, Tell
<1>6. Heard'
  BY DEF Heard, Quiet, PairingAccepted, Tell
<1>7. Announced'
  BY AnnouncedSame DEF PairingAccepted, Tell
<1>8. Released'
  BY DEF Released, PairingAccepted, Tell
<1>9. Earned'
  BY DEF Earned, PairingAccepted, Tell
<1>10. Said'
  BY DEF Said, PairingAccepted, Tell
<1>11. QED BY <1>1, <1>2, <1>3, <1>4, <1>5, <1>6, <1>7, <1>8, <1>9, <1>10

LEMMA AwaitLoginKeeps ==
  ASSUME SessionAssumption, IInv, NEW p \in Procs, AwaitLogin(p)
  PROVE  IInv'
<1>1. troubles' \in 0 .. MaxTroubles
  BY TroubleCounts DEF IInv, AwaitLogin
<1>2. \E o \in {"paired", "error"} : Finish(p, o)
  BY DEF AwaitLogin
<1>3. QED BY <1>1, <1>2, CloseKeeps DEF AwaitLogin

LEMMA CloseAllKeeps ==
  ASSUME SessionAssumption, IInv, NEW p \in Procs, CloseAll(p)
  PROVE  IInv'
<1> USE DEF IInv, SessionTypeOK
<1>1. SessionTypeOK'
  BY DEF CloseAll, Gone
<1>2. Decided'
  BY DEF Decided, CloseAll, Gone
<1>3. Locked'
  BY DEF Locked, CloseAll, Gone
<1>4. Quiet'
  BY DEF Quiet, CloseAll, Gone
<1>5. Bound'
  BY DEF Bound, CloseAll, Gone
<1>6. Heard'
  BY DEF Heard, Quiet, CloseAll, Gone
<1>7. Announced'
  BY DEF Announced, Final, Quiet, CloseAll, Gone
<1>8. Released'
  BY DEF Released, CloseAll, Gone, SessionAssumption
<1>9. Earned'
  BY DEF Earned, CloseAll, Gone
<1>10. Said'
  BY DEF Said, CloseAll, Gone
<1>11. QED BY <1>1, <1>2, <1>3, <1>4, <1>5, <1>6, <1>7, <1>8, <1>9, <1>10

LEMMA TellOutcomeKeeps ==
  ASSUME SessionAssumption, IInv, NEW p \in Procs, TellOutcome(p)
  PROVE  IInv'
<1> USE DEF IInv, SessionTypeOK
<1>1. SessionTypeOK'
  <2>1. outcome[p] \in Terminal
    BY DEF Decided, TellOutcome
  <2>2. QED BY <2>1 DEF TellOutcome, Tell
<1>2. Decided'
  BY DEF Decided, TellOutcome, Tell
<1>3. Locked'
  BY DEF Locked, TellOutcome, Tell
<1>4. Quiet'
  BY DEF Quiet, TellOutcome, Tell
<1>5. Bound'
  BY DEF Bound, TellOutcome, Tell
<1>6. Heard'
  BY DEF Heard, Quiet, TellOutcome, Tell
<1>7. Announced'
  BY AnnouncedSame DEF TellOutcome, Tell
<1>8. Released'
  BY DEF Released, TellOutcome, Tell
<1>9. Earned'
  BY DEF Earned, TellOutcome, Tell
<1>10. Said'
  BY DEF Said, TellOutcome, Tell
<1>11. QED BY <1>1, <1>2, <1>3, <1>4, <1>5, <1>6, <1>7, <1>8, <1>9, <1>10

-----------------------------------------------------------------------------

LEMMA ScanKeeps ==
  ASSUME SessionAssumption, IInv, NEW p \in Procs, Scan(p)
  PROVE  IInv'
<1> USE DEF IInv, SessionTypeOK
<1>1. SessionTypeOK'
  BY DEF Scan
<1>2. Decided'
  BY DEF Decided, Scan
<1>3. Locked'
  BY DEF Locked, Scan
<1>4. Quiet'
  BY DEF Quiet, Scan
<1>5. Bound'
  BY DEF Bound, Scan
<1>6. Heard'
  BY DEF Heard, Quiet, Scan
<1>7. Announced'
  BY AnnouncedSame DEF Scan
<1>8. Released'
  BY DEF Released, Scan
<1>9. Earned'
  BY DEF Earned, Scan
<1>10. Said'
  BY DEF Said, Scan
<1>11. QED BY <1>1, <1>2, <1>3, <1>4, <1>5, <1>6, <1>7, <1>8, <1>9, <1>10

LEMMA LoginKeeps ==
  ASSUME SessionAssumption, IInv, NEW p \in Procs, Login(p)
  PROVE  IInv'
<1> USE DEF IInv, SessionTypeOK
<1>1. SessionTypeOK'
  BY DEF Login, Queue
<1>2. Decided'
  BY DEF Decided, Login, Queue
<1>3. Locked'
  BY DEF Locked, Login, Queue
<1>4. Quiet'
  BY DEF Quiet, Login, Queue
<1>5. Bound'
  BY DEF Bound, Login, Queue
<1>6. Heard'
  BY DEF Heard, Quiet, Login, Queue
<1>7. Announced'
  BY DEF Announced, Final, Quiet, Login, Queue
<1>8. Released'
  BY DEF Released, Login
<1>9. Earned'
  BY DEF Earned, Login
<1>10. Said'
  BY DEF Said, Login
<1>11. QED BY <1>1, <1>2, <1>3, <1>4, <1>5, <1>6, <1>7, <1>8, <1>9, <1>10

LEMMA LoginRefusedKeeps ==
  ASSUME SessionAssumption, IInv, NEW p \in Procs, LoginRefused(p)
  PROVE  IInv'
<1> USE DEF IInv, SessionTypeOK
<1>1. SessionTypeOK'
  <2>1. PICK e \in {"unlinked", "gone", "restricted"} : Queue(p, e)
    BY DEF LoginRefused
  <2>2. inbox' \in [Procs -> Seq(Events)]
    BY <2>1, Queued DEF Queue
  <2>3. troubles' \in 0 .. MaxTroubles
    BY TroubleCounts DEF LoginRefused
  <2>4. QED BY <2>2, <2>3 DEF LoginRefused
<1>2. Decided'
  BY DEF Decided, LoginRefused, Queue
<1>3. Locked'
  BY DEF Locked, LoginRefused, Queue
<1>4. Quiet'
  BY DEF Quiet, LoginRefused, Queue
<1>5. Bound'
  BY DEF Bound, LoginRefused, Queue
<1>6. Heard'
  BY DEF Heard, Quiet, LoginRefused, Queue
<1>7. Announced'
  <2>1. PICK e \in {"unlinked", "gone", "restricted"} : Queue(p, e)
    BY DEF LoginRefused
  <2>2. Final(p)' # "linked"
    <3>1. /\ inbox'[p] = Append(inbox[p], e) /\ inbox[p] \in Seq(Events)
          /\ e \in Events \ {"connected"}
      BY <2>1 DEF Queue
    <3>2. Final(p)' = HealthAfter(e)
      <4>1. inbox'[p] # <<>> /\ inbox'[p][Len(inbox'[p])] = e
        <5> HIDE DEF IInv, SessionTypeOK, Events
        <5>1. QED BY <3>1, Queued
      <4>2. QED BY <4>1 DEF Final
    <3>3. QED BY <3>1, <3>2, HealthAfterEvent
  <2>3. \A q \in Procs \ {p} : Final(q)' = Final(q) /\ conn'[q] = conn[q]
    BY <2>1 DEF Final, Queue, LoginRefused
  <2>4. QED BY <2>2, <2>3 DEF Announced, LoginRefused
<1>8. Released'
  BY DEF Released, LoginRefused
<1>9. Earned'
  BY DEF Earned, LoginRefused
<1>10. Said'
  BY DEF Said, LoginRefused
<1>11. QED BY <1>1, <1>2, <1>3, <1>4, <1>5, <1>6, <1>7, <1>8, <1>9, <1>10

LEMMA ServerEndsKeeps ==
  ASSUME SessionAssumption, IInv, NEW p \in Procs, ServerEnds(p)
  PROVE  IInv'
<1> USE DEF IInv, SessionTypeOK
<1>1. SessionTypeOK'
  <2>1. PICK e \in {"ban", "failure", "replaced"} : Queue(p, e)
    BY DEF ServerEnds
  <2>2. inbox' \in [Procs -> Seq(Events)]
    BY <2>1, Queued DEF Queue
  <2>3. troubles' \in 0 .. MaxTroubles
    BY TroubleCounts DEF ServerEnds
  <2>4. QED BY <2>2, <2>3 DEF ServerEnds
<1>2. Decided'
  BY DEF Decided, ServerEnds, Queue
<1>3. Locked'
  BY DEF Locked, ServerEnds, Queue
<1>4. Quiet'
  BY DEF Quiet, ServerEnds, Queue
<1>5. Bound'
  BY DEF Bound, ServerEnds, Queue
<1>6. Heard'
  BY DEF Heard, Quiet, ServerEnds, Queue
<1>7. Announced'
  <2>1. PICK e \in {"ban", "failure", "replaced"} : Queue(p, e)
    BY DEF ServerEnds
  <2>2. Final(p)' # "linked"
    <3>1. /\ inbox'[p] = Append(inbox[p], e) /\ inbox[p] \in Seq(Events)
          /\ e \in Events \ {"connected"}
      BY <2>1 DEF Queue
    <3>2. Final(p)' = HealthAfter(e)
      <4>1. inbox'[p] # <<>> /\ inbox'[p][Len(inbox'[p])] = e
        <5> HIDE DEF IInv, SessionTypeOK, Events
        <5>1. QED BY <3>1, Queued
      <4>2. QED BY <4>1 DEF Final
    <3>3. QED BY <3>1, <3>2, HealthAfterEvent
  <2>3. \A q \in Procs \ {p} : Final(q)' = Final(q) /\ conn'[q] = conn[q]
    BY <2>1 DEF Final, Queue, ServerEnds
  <2>4. QED BY <2>2, <2>3 DEF Announced, ServerEnds
<1>8. Released'
  BY DEF Released, ServerEnds
<1>9. Earned'
  BY DEF Earned, ServerEnds
<1>10. Said'
  BY DEF Said, ServerEnds
<1>11. QED BY <1>1, <1>2, <1>3, <1>4, <1>5, <1>6, <1>7, <1>8, <1>9, <1>10

LEMMA DropKeeps ==
  ASSUME SessionAssumption, IInv, NEW p \in Procs, Drop(p)
  PROVE  IInv'
<1> USE DEF IInv, SessionTypeOK
<1>1. SessionTypeOK'
  <2>1. troubles' \in 0 .. MaxTroubles
    BY TroubleCounts DEF Drop
  <2>2. QED BY <2>1 DEF Drop
<1>2. Decided'
  BY DEF Decided, Drop
<1>3. Locked'
  BY DEF Locked, Drop
<1>4. Quiet'
  BY DEF Quiet, Drop
<1>5. Bound'
  BY DEF Bound, Drop
<1>6. Heard'
  BY DEF Heard, Quiet, Drop
<1>7. Announced'
  BY AnnouncedSame DEF Drop
<1>8. Released'
  BY DEF Released, Drop
<1>9. Earned'
  BY DEF Earned, Drop
<1>10. Said'
  BY DEF Said, Drop
<1>11. QED BY <1>1, <1>2, <1>3, <1>4, <1>5, <1>6, <1>7, <1>8, <1>9, <1>10

LEMMA RedialKeeps ==
  ASSUME SessionAssumption, IInv, NEW p \in Procs, Redial(p)
  PROVE  IInv'
<1> USE DEF IInv, SessionTypeOK
<1>1. SessionTypeOK'
  BY DEF Redial
<1>2. Decided'
  BY DEF Decided, Redial
<1>3. Locked'
  BY DEF Locked, Redial
<1>4. Quiet'
  BY DEF Quiet, Redial
<1>5. Bound'
  BY DEF Bound, Redial
<1>6. Heard'
  BY DEF Heard, Quiet, Redial
<1>7. Announced'
  BY AnnouncedSame DEF Redial
<1>8. Released'
  BY DEF Released, Redial
<1>9. Earned'
  BY DEF Earned, Redial
<1>10. Said'
  BY DEF Said, Redial
<1>11. QED BY <1>1, <1>2, <1>3, <1>4, <1>5, <1>6, <1>7, <1>8, <1>9, <1>10

LEMMA DispatchKeeps ==
  ASSUME SessionAssumption, IInv, NEW p \in Procs, Dispatch(p)
  PROVE  IInv'
<1> USE DEF IInv, SessionTypeOK
<1> DEFINE s == inbox[p]
<1>a. s \in Seq(Events) /\ s # <<>>
  BY DEF Dispatch
<1>b. /\ Head(s) = s[1] /\ Head(s) \in Events /\ Len(s) \in Nat \ {0}
      /\ Tail(s) \in Seq(Events)
      /\ \A i \in 1 .. Len(Tail(s)) : Tail(s)[i] = s[i + 1] /\ i + 1 \in 1 .. Len(s)
      /\ IF Len(s) = 1 THEN Tail(s) = <<>>
         ELSE Tail(s) # <<>> /\ Tail(s)[Len(Tail(s))] = s[Len(s)]
  <2> HIDE DEF s
  <2>1. QED BY <1>a, Dequeued
<1>c. /\ HealthAfter(Head(s)) \in Healths
      /\ HealthAfter(Head(s)) = "linked" <=> Head(s) = "connected"
  <2> HIDE DEF s
  <2>1. QED BY <1>b, HealthAfterEvent
<1>d. inbox' = [inbox EXCEPT ![p] = Tail(s)] /\ inbox'[p] = Tail(s)
  BY DEF Dispatch
<1>e. health' = IF mode[p] = "serve" THEN [health EXCEPT ![p] = HealthAfter(Head(s))] ELSE health
  BY DEF Dispatch
<1>f. waiter' = [waiter EXCEPT ![p] = Signalled(waiter[p], Head(s))]
  BY DEF Dispatch
<1>g. Head(s) = "connected" => entered[p]
  <2>1. 1 \in 1 .. Len(s)
    BY <1>b
  <2>2. QED BY <1>b, <2>1 DEF Heard
<1>1. SessionTypeOK'
  <2>1. waiter[p] \in {"none", "armed", "ok", "failed"}
    BY DEF SessionTypeOK
  <2>2. Signalled(waiter[p], Head(s)) \in {"none", "armed", "ok", "failed"}
    <3> HIDE DEF s
    <3>1. QED BY <1>b, <2>1, SignalledState
  <2>3. QED BY <1>b, <1>c, <1>d, <1>e, <1>f, <2>2 DEF Dispatch
<1>2. Decided'
  BY DEF Decided, Dispatch
<1>3. Locked'
  BY DEF Locked, Dispatch
<1>4. Quiet'
  BY DEF Quiet, Dispatch
<1>5. Bound'
  BY DEF Bound, Dispatch
<1>6. Heard'
  <2>1. health'[p] = "linked" => entered[p]
    BY <1>c, <1>e, <1>g DEF Heard
  <2>2. \A i \in 1 .. Len(Tail(s)) : Tail(s)[i] = "connected" => entered[p]
    BY <1>b DEF Heard
  <2>3. \A q \in Procs \ {p} : inbox'[q] = inbox[q] /\ health'[q] = health[q]
    BY <1>d, <1>e
  <2>4. entered' = entered
    BY DEF Dispatch
  <2>5. QED BY <1>d, <2>1, <2>2, <2>3, <2>4 DEF Heard
<1>7. Announced'
  <2>1. mode[p] = "serve" => Final(p)' = Final(p)
    <3>1. CASE Len(s) = 1
      BY <1>a, <1>b, <1>d, <1>e, <3>1 DEF Final
    <3>2. CASE Len(s) # 1
      <4>1. Final(p) = HealthAfter(s[Len(s)])
        BY <1>a DEF Final
      <4>2. Final(p)' = HealthAfter(Tail(s)[Len(Tail(s))])
        BY <1>b, <1>d, <3>2 DEF Final
      <4>3. QED BY <1>b, <3>2, <4>1, <4>2
    <3>3. QED BY <3>1, <3>2
  <2>2. \A q \in Procs \ {p} : Final(q)' = Final(q)
    BY <1>d, <1>e DEF Final
  <2>3. UNCHANGED <<mode, at, conn>>
    BY DEF Dispatch
  <2>4. QED BY <2>1, <2>2, <2>3 DEF Announced
<1>8. Released'
  BY DEF Released, Dispatch
<1>9. Earned'
  <2>1. Signalled(waiter[p], Head(s)) = "ok" => waiter[p] = "ok" \/ Head(s) = "connected"
    <3>1. waiter[p] \in {"none", "armed", "ok", "failed"}
      BY DEF SessionTypeOK
    <3> HIDE DEF s
    <3>2. QED BY <1>b, <3>1, SignalledState
  <2>2. UNCHANGED <<outcome, entered>>
    BY DEF Dispatch
  <2>3. QED BY <1>f, <1>g, <2>1, <2>2 DEF Earned
<1>10. Said'
  BY DEF Said, Dispatch
<1>11. QED BY <1>1, <1>2, <1>3, <1>4, <1>5, <1>6, <1>7, <1>8, <1>9, <1>10

-----------------------------------------------------------------------------

LEMMA StartKeeps ==
  ASSUME SessionAssumption, IInv, NEW p \in Procs, NEW m \in Modes, Start(p, m)
  PROVE  IInv'
<1> USE DEF IInv, SessionTypeOK
<1>1. SessionTypeOK'
  <2>1. starts' \in 0 .. MaxStarts
    BY DEF SessionAssumption, Start
  <2>2. at' \in [Procs -> Places]
    BY DEF Start
  <2>3. QED BY <2>1, <2>2 DEF Start
<1>2. Decided'
  BY DEF Decided, Start
<1>3. Locked'
  BY DEF Locked, Start
<1>4. Quiet'
  BY DEF Quiet, Start
<1>5. Bound'
  BY DEF Bound, Start
<1>6. Heard'
  BY DEF Heard, Quiet, Start
<1>7. Announced'
  <2>1. inbox[p] = <<>> /\ health'[p] = "connecting"
    BY DEF Quiet, Start
  <2>2. Final(p)' # "linked"
    BY <2>1 DEF Final, Start
  <2>3. \A q \in Procs \ {p} : Final(q)' = Final(q) /\ at'[q] = at[q]
    BY DEF Final, Start
  <2>4. QED BY <2>2, <2>3 DEF Announced, Start
<1>8. Released'
  BY DEF Released, Start
<1>9. Earned'
  BY DEF Earned, Start
<1>10. Said'
  BY DEF Said, Start
<1>11. QED BY <1>1, <1>2, <1>3, <1>4, <1>5, <1>6, <1>7, <1>8, <1>9, <1>10

LEMMA KillKeeps ==
  ASSUME SessionAssumption, IInv, NEW p \in Procs, Kill(p)
  PROVE  IInv'
<1>1. troubles' \in 0 .. MaxTroubles
  BY TroubleCounts DEF IInv, Kill
<1>2. QED BY <1>1, GoneKeeps DEF Kill

LEMMA UnlinkKeeps ==
  ASSUME SessionAssumption, IInv, Unlink
  PROVE  IInv'
<1> USE DEF IInv, SessionTypeOK
<1>1. SessionTypeOK'
  <2>1. troubles' \in 0 .. MaxTroubles
    BY TroubleCounts DEF Unlink
  <2>2. \A q \in Procs : inbox'[q] \in Seq(Events)
    BY Queued DEF Unlink
  <2>3. inbox' = [q \in Procs |-> inbox'[q]]
    BY DEF Unlink
  <2>4. inbox' \in [Procs -> Seq(Events)]
    BY <2>2, <2>3
  <2>5. conn' \in [Procs -> {"off", "dialed", "in", "lost"}] /\ device' \in BOOLEAN
    BY DEF Unlink
  <2>6. QED BY <2>1, <2>4, <2>5 DEF Unlink
<1>2. Decided'
  BY DEF Decided, Unlink
<1>3. Locked'
  BY DEF Locked, Unlink
<1>4. Quiet'
  BY DEF Quiet, Unlink
<1>5. Bound'
  BY DEF Bound, Unlink
<1>6. Heard'
  BY DEF Heard, Quiet, Unlink
<1>7. Announced'
  <2>1. \A q \in Procs : conn[q] = "in" => Final(q)' # "linked"
    <3> SUFFICES ASSUME NEW q \in Procs, conn[q] = "in" PROVE Final(q)' # "linked"
      OBVIOUS
    <3>1. inbox'[q] = Append(inbox[q], "unlinked") /\ inbox[q] \in Seq(Events)
      BY DEF Unlink
    <3>2. Final(q)' = HealthAfter("unlinked")
      <4>1. inbox'[q] # <<>> /\ inbox'[q][Len(inbox'[q])] = "unlinked"
        <5> HIDE DEF IInv, SessionTypeOK, Events
        <5>1. "unlinked" \in Events
          BY DEF Events
        <5>2. QED BY <3>1, <5>1, Queued
      <4>2. QED BY <4>1 DEF Final
    <3>3. QED BY <3>2, HealthAfterEvent
  <2>2. \A q \in Procs : conn[q] # "in" => Final(q)' = Final(q) /\ conn'[q] = conn[q]
    BY DEF Final, Unlink
  <2>3. UNCHANGED <<mode, at>>
    BY DEF Unlink
  <2>4. QED BY <2>1, <2>2, <2>3 DEF Announced
<1>8. Released'
  BY DEF Released, Unlink
<1>9. Earned'
  BY DEF Earned, Unlink
<1>10. Said'
  BY DEF Said, Unlink
<1>11. QED BY <1>1, <1>2, <1>3, <1>4, <1>5, <1>6, <1>7, <1>8, <1>9, <1>10

-----------------------------------------------------------------------------
LEMMA InvInit == SessionAssumption /\ Init => IInv
BY DEF Init, IInv, SessionTypeOK, SessionAssumption, Decided, Locked, Quiet, Bound, Heard,
       Announced, Final, Released, Earned, Said

\* What every step of every process keeps.
LEMMA InvNext ==
  ASSUME SessionAssumption, IInv, [Next]_vars
  PROVE  IInv'
<1>1. CASE UNCHANGED vars
  BY <1>1 DEF vars, IInv, SessionTypeOK, Decided, Locked, Quiet, Bound, Heard, Announced, Final,
             Released, Earned, Said
<1>2. CASE Unlink
  BY <1>2, UnlinkKeeps
<1>3. ASSUME NEW p \in Procs, NEW m \in Modes, Start(p, m) PROVE IInv'
  BY <1>3, StartKeeps
<1>4. ASSUME NEW p \in Procs, Startup(p) PROVE IInv'
  BY <1>4, OpenMessageStoreKeeps, AcquireStoreLockKeeps, OpenSessionKeeps, ReadDeviceKeeps,
       ServeConnectKeeps, ReportRefusedKeeps
     DEF Startup
<1>5. ASSUME NEW p \in Procs, Link(p) PROVE IInv'
  BY <1>5, LinkConnectKeeps, PairingAcceptedKeeps, NotScannedKeeps, AwaitLoginKeeps,
       CloseAllKeeps, TellOutcomeKeeps
     DEF Link
<1>6. ASSUME NEW p \in Procs, Library(p) PROVE IInv'
  BY <1>6, ScanKeeps, LoginKeeps, LoginRefusedKeeps, ServerEndsKeeps, DropKeeps,
       RedialKeeps
     DEF Library
<1>7. ASSUME NEW p \in Procs, Kill(p) \/ ShowCode(p) \/ RetireWaiter(p) \/ Dispatch(p)
      PROVE  IInv'
  BY <1>7, KillKeeps, ShowCodeKeeps, RetireWaiterKeeps, DispatchKeeps
<1>8. QED BY <1>1, <1>2, <1>3, <1>4, <1>5, <1>6, <1>7 DEF Next

\* The inductive invariant holds of every behaviour.
THEOREM Inductive ==
  ASSUME SessionAssumption
  PROVE  Spec => []IInv
BY InvInit, InvNext, PTL DEF Spec

\* Every variable keeps to its type: a process that is to tell an outcome has one.
THEOREM TypeCorrect ==
  ASSUME SessionAssumption
  PROVE  Spec => []SessionTypeOK
<1>1. IInv => SessionTypeOK
  BY DEF IInv
<1>2. QED BY <1>1, Inductive, PTL

\* The flock of storelock.go keeps whatsmeow.db to the process that holds it,
\* whatever starts, fails or is killed: with one holder, a link command and a
\* serving plugin never both have it open.
THEOREM StoreExclusive ==
  ASSUME SessionAssumption
  PROVE  Spec => []OneSession
<1>1. IInv => OneSession
  BY DEF IInv, Locked, OneSession
<1>2. QED BY <1>1, Inductive, PTL

\* A healthy answer (health.go, plugin.go) stands on a login of this client that
\* no logout, ban or replacement the plugin has been told of has ended.
THEOREM HealthStands ==
  ASSUME SessionAssumption
  PROVE  Spec => []HealthyNeedsSession
<1>1. IInv => HealthyNeedsSession
  BY DEF IInv, SessionTypeOK, Heard, Announced, Final, Bound, HealthyNeedsSession, Serves
<1>2. QED BY <1>1, Inductive, PTL

\* What the host reads of a link command (link.go): `paired` comes after a login
\* of this client, last, and with the store and its lock released.
THEOREM PairingTold ==
  ASSUME SessionAssumption
  PROVE  Spec => []TellsHonestly
<1>1. IInv => TellsHonestly
  BY DEF IInv, SessionTypeOK, Released, Earned, Said, TellsHonestly
<1>2. QED BY <1>1, Inductive, PTL
=============================================================================
