---------------------------- MODULE WhatsAppSession ----------------------------
(***************************************************************************)
(* The processes of the WhatsApp plugin over one data directory            *)
(* (plugins/whatsapp/main.go, connect.go, link.go, pairwait.go,            *)
(* storelock.go, health.go): the serving plugin the host launches, the     *)
(* link command that pairs a device, and the describe-only launch.         *)
(*                                                                         *)
(* whatsmeow.db holds the paired device's row; an flock on whatsapp.lock   *)
(* is to keep it to one process.  The library (external, as the code uses  *)
(* it) dials, logs in, reconnects by itself, deletes the device row when   *)
(* the server logs the device out, and dispatches its events in order to   *)
(* every registered handler.                                               *)
(***************************************************************************)
EXTENDS Naturals, Sequences

CONSTANTS
    Procs,          \* processes that may run at once
    NoProc,         \* stands for no process
    MaxStarts,      \* bound: launches
    MaxTroubles     \* bound: failures, kills, drops and logouts

SessionAssumption == NoProc \notin Procs /\ MaxStarts \in Nat /\ MaxTroubles \in Nat

VARIABLES
    device,     \* whatsmeow.db has a device row
    linked,     \* the account lists this device (the server's view)
    holder,     \* who holds the flock
    mode,       \* how each process was launched
    at,         \* where it is
    open,       \* whether it has whatsmeow.db open
    conn,       \* its client's connection
    inbox,      \* events the library has still to dispatch
    waiter,     \* its pairLoginWaiter
    health,     \* SourcePlugin.state
    outcome,    \* what runLinkCore returned
    told,       \* the events the link command wrote, in order
    entered,    \* history: its client has logged in
    starts, troubles

vars == <<device, linked, holder, mode, at, open, conn, inbox, waiter, health,
          outcome, told, entered, starts, troubles>>

Modes  == {"serve", "link", "describe"}
Events == {"connected", "unlinked", "gone", "restricted", "ban", "failure", "replaced"}
Healths == {"connecting", "notLinked", "linked", "delinked", "banned", "expired", "replaced"}
Outcomes == {"none", "paired", "timeout", "error"}
Terminal == {"paired", "timeout", "error"}
Running(p) == at[p] \notin {"off", "exited"}

SessionTypeOK ==
    /\ device \in BOOLEAN /\ linked \in BOOLEAN
    /\ holder \in Procs \cup {NoProc}
    /\ mode \in [Procs -> Modes]
    /\ at \in [Procs -> {"off", "store", "lock", "session", "device", "connect", "refused",
                         "serving", "qr", "await", "close", "tell", "exited"}]
    /\ open \in [Procs -> BOOLEAN]
    /\ conn \in [Procs -> {"off", "dialed", "in", "lost"}]
    /\ inbox \in [Procs -> Seq(Events)]
    /\ waiter \in [Procs -> {"none", "armed", "ok", "failed"}]
    /\ health \in [Procs -> Healths]
    /\ outcome \in [Procs -> Outcomes]
    /\ told \in [Procs -> Seq(Terminal \cup {"qr", "already_linked", "pairing_accepted"})]
    /\ entered \in [Procs -> BOOLEAN]
    /\ starts \in 0 .. MaxStarts /\ troubles \in 0 .. MaxTroubles

Init ==
    /\ device \in BOOLEAN /\ linked \in BOOLEAN /\ (linked => device)
    /\ holder = NoProc
    /\ mode = [p \in Procs |-> "describe"]
    /\ at = [p \in Procs |-> "off"]
    /\ open = [p \in Procs |-> FALSE]
    /\ conn = [p \in Procs |-> "off"]
    /\ inbox = [p \in Procs |-> <<>>]
    /\ waiter = [p \in Procs |-> "none"]
    /\ health = [p \in Procs |-> "connecting"]
    /\ outcome = [p \in Procs |-> "none"]
    /\ told = [p \in Procs |-> <<>>]
    /\ entered = [p \in Procs |-> FALSE]
    /\ starts = 0 /\ troubles = 0

-----------------------------------------------------------------------------
Trouble == troubles < MaxTroubles /\ troubles' = troubles + 1
Smooth  == UNCHANGED troubles

Goto(p, l) == at' = [at EXCEPT ![p] = l]

\* The end of a process: the OS closes its files, its sockets and its flock.
Gone(p, l) ==
    /\ Goto(p, l)
    /\ holder' = IF holder = p THEN NoProc ELSE holder
    /\ open' = [open EXCEPT ![p] = FALSE]
    /\ conn' = [conn EXCEPT ![p] = "off"]
    /\ inbox' = [inbox EXCEPT ![p] = <<>>]

\* main: a describe-only launch serves at once and opens nothing; serving
\* opens messages.db before it asks for the lock.
Start(p, m) ==
    /\ ~Running(p) /\ starts < MaxStarts
    /\ starts' = starts + 1
    /\ mode' = [mode EXCEPT ![p] = m]
    /\ Goto(p, CASE m = "describe" -> "serving" [] m = "serve" -> "store" [] m = "link" -> "lock")
    /\ waiter' = [waiter EXCEPT ![p] = "none"]
    /\ health' = [health EXCEPT ![p] = "connecting"]
    /\ outcome' = [outcome EXCEPT ![p] = "none"]
    /\ told' = [told EXCEPT ![p] = <<>>]
    /\ entered' = [entered EXCEPT ![p] = FALSE]
    /\ UNCHANGED <<device, linked, holder, open, conn, inbox, troubles>>

Kill(p) ==
    /\ Running(p) /\ Trouble
    /\ Gone(p, "off")
    /\ UNCHANGED <<device, linked, mode, waiter, health, outcome, told, entered, starts>>

\* An error before serving is fatal; in the link command it is the outcome,
\* told once its deferred calls have run.
FailStart(p) ==
    IF mode[p] = "link"
      THEN /\ Goto(p, "close")
           /\ outcome' = [outcome EXCEPT ![p] = "error"]
           /\ UNCHANGED <<holder, open, conn, inbox>>
      ELSE Gone(p, "exited") /\ UNCHANGED outcome

OpenMessageStore(p) ==
    /\ at[p] = "store"
    /\ \/ Smooth /\ Goto(p, "lock") /\ UNCHANGED <<holder, open, conn, inbox, outcome>>
       \/ Trouble /\ FailStart(p)
    /\ UNCHANGED <<device, linked, mode, waiter, health, told, entered, starts>>

\* A plausible slip: the lock is taken for free because the file could be opened.
AcquireBlindly(p) ==
    /\ at[p] = "lock" /\ Smooth
    /\ holder' = p
    /\ Goto(p, "session")
    /\ UNCHANGED <<open, conn, inbox, outcome>>
    /\ UNCHANGED <<device, linked, mode, waiter, health, told, entered, starts>>

\* acquireStoreLock: ErrStoreInUse at once when another process has it.
AcquireStoreLock(p) ==
    /\ at[p] = "lock"
    /\ \/ /\ holder = NoProc /\ Smooth
          /\ holder' = p
          /\ Goto(p, "session")
          /\ UNCHANGED <<open, conn, inbox, outcome>>
       \/ /\ holder # NoProc /\ Smooth
          /\ FailStart(p)
       \/ /\ Trouble
          /\ FailStart(p)
    /\ UNCHANGED <<device, linked, mode, waiter, health, told, entered, starts>>

\* sqlstore.New
OpenSession(p) ==
    /\ at[p] = "session"
    /\ \/ /\ Smooth
          /\ open' = [open EXCEPT ![p] = TRUE]
          /\ Goto(p, "device")
          /\ UNCHANGED <<holder, conn, inbox, outcome>>
       \/ /\ Trouble
          /\ FailStart(p)
    /\ UNCHANGED <<device, linked, mode, waiter, health, told, entered, starts>>

\* GetFirstDevice, NewClient, the handlers; the waiter is registered before
\* any dial.  Serving without a device row goes on without a connection.
ReadDevice(p) ==
    /\ at[p] = "device"
    /\ \/ /\ Smooth
          /\ Goto(p, IF mode[p] = "serve" /\ ~device THEN "serving" ELSE "connect")
          /\ health' = [health EXCEPT ![p] =
                          IF mode[p] = "serve" /\ ~device THEN "notLinked" ELSE "connecting"]
          /\ waiter' = [waiter EXCEPT ![p] =
                          IF mode[p] = "serve" /\ ~device THEN "none" ELSE "armed"]
          /\ told' = IF mode[p] = "link" /\ device
                       THEN [told EXCEPT ![p] = Append(@, "already_linked")] ELSE told
          /\ UNCHANGED <<holder, open, conn, inbox, outcome>>
       \/ /\ Trouble
          /\ FailStart(p)
          /\ UNCHANGED <<health, waiter, told>>
    /\ UNCHANGED <<device, linked, mode, entered, starts>>

-----------------------------------------------------------------------------
\* Serving: connect.go

\* Connect: after a failed dial the library retries by itself.
ServeConnect(p) ==
    /\ at[p] = "connect" /\ mode[p] = "serve"
    /\ \/ Smooth  /\ conn' = [conn EXCEPT ![p] = "dialed"] /\ Goto(p, "serving")
       \/ Trouble /\ conn' = [conn EXCEPT ![p] = "lost"] /\ Goto(p, "refused")
    /\ UNCHANGED <<device, linked, holder, mode, open, inbox, waiter, health, outcome, told,
                   entered, starts>>

\* The state a failed dial leaves, set after Connect has returned.
ReportRefused(p) ==
    /\ at[p] = "refused"
    /\ health' = [health EXCEPT ![p] = "notLinked"]
    /\ waiter' = [waiter EXCEPT ![p] = "none"]
    /\ Goto(p, "serving")
    /\ UNCHANGED <<device, linked, holder, mode, open, conn, inbox, outcome, told, entered,
                   starts, troubles>>

\* The goroutine that waits for the login outcome retires its handler, after
\* serveLoginTimeout at the latest.
RetireWaiter(p) ==
    /\ at[p] = "serving" /\ mode[p] = "serve" /\ waiter[p] # "none"
    /\ waiter' = [waiter EXCEPT ![p] = "none"]
    /\ UNCHANGED <<device, linked, holder, mode, at, open, conn, inbox, health, outcome, told,
                   entered, starts, troubles>>

-----------------------------------------------------------------------------
\* Linking: runLinkCore and runLinkJSON

Finish(p, o) == Goto(p, "close") /\ outcome' = [outcome EXCEPT ![p] = o]
Tell(p, e)   == told' = [told EXCEPT ![p] = Append(@, e)]

LinkConnect(p) ==
    /\ at[p] = "connect" /\ mode[p] = "link"
    /\ \/ /\ Smooth
          /\ conn' = [conn EXCEPT ![p] = "dialed"]
          /\ Goto(p, IF device THEN "await" ELSE "qr")
          /\ UNCHANGED outcome
       \/ /\ Trouble
          /\ Finish(p, "error")
          /\ UNCHANGED conn
    /\ UNCHANGED <<device, linked, holder, mode, open, inbox, waiter, health, told, entered,
                   starts>>

\* The channel gives a first code and rotates it (once here); a code that
\* cannot be rendered is told as an error event, and the loop goes on.
ShowCode(p) ==
    /\ at[p] = "qr" /\ ~device /\ Len(told[p]) < 2
    /\ \/ Smooth  /\ Tell(p, "qr")
       \/ Trouble /\ Tell(p, "error")
    /\ UNCHANGED <<device, linked, holder, mode, at, open, conn, inbox, waiter, health, outcome,
                   entered, starts>>

\* The channel ends without a scan: timeout, an error, or another event.
NotScanned(p) ==
    /\ at[p] = "qr" /\ ~device
    /\ \/ Smooth  /\ Finish(p, "timeout")
       \/ Trouble /\ Finish(p, "error")
    /\ UNCHANGED <<device, linked, holder, mode, open, conn, inbox, waiter, health, told,
                   entered, starts>>

\* The channel's "success", then its close.
PairingAccepted(p) ==
    /\ at[p] = "qr" /\ device
    /\ Tell(p, "pairing_accepted")
    /\ Goto(p, "await")
    /\ UNCHANGED <<device, linked, holder, mode, open, conn, inbox, waiter, health, outcome,
                   entered, starts, troubles>>

\* A plausible slip: the wait has no timeout.
AwaitForever(p) ==
    /\ at[p] = "await"
    /\ \/ waiter[p] = "ok" /\ Smooth /\ Finish(p, "paired")
       \/ waiter[p] = "failed" /\ Smooth /\ Finish(p, "error")
    /\ UNCHANGED <<device, linked, holder, mode, open, conn, inbox, waiter, health, told,
                   entered, starts>>

\* wait: the first qualifying event, or the timeout (which may also win).
AwaitLogin(p) ==
    /\ at[p] = "await"
    /\ \/ waiter[p] = "ok" /\ Smooth /\ Finish(p, "paired")
       \/ waiter[p] = "failed" /\ Smooth /\ Finish(p, "error")
       \/ Smooth /\ waiter[p] = "armed" /\ Finish(p, "error")
    /\ UNCHANGED <<device, linked, holder, mode, open, conn, inbox, waiter, health, told,
                   entered, starts>>

\* A plausible slip: the terminal event is written before the deferred calls.
TellThenClose(p) ==
    /\ at[p] = "close"
    /\ Tell(p, outcome[p])
    /\ Goto(p, "tell")
    /\ UNCHANGED <<device, linked, holder, mode, open, conn, inbox, waiter, health, outcome,
                   entered, starts, troubles>>

\* The deferred Disconnect, container.Close and lock.Release.
CloseAll(p) ==
    /\ at[p] = "close"
    /\ Gone(p, "tell")
    /\ UNCHANGED <<device, linked, mode, waiter, health, outcome, told, entered, starts,
                   troubles>>

\* runLinkJSON's terminal event and the exit.
TellOutcome(p) ==
    /\ at[p] = "tell"
    /\ Tell(p, outcome[p])
    /\ Goto(p, "exited")
    /\ UNCHANGED <<device, linked, holder, mode, open, conn, inbox, waiter, health, outcome,
                   entered, starts, troubles>>

-----------------------------------------------------------------------------
\* The library and the server

Queue(p, e) == inbox' = [inbox EXCEPT ![p] = Append(@, e)]

\* The phone scans the code: the device row is written at once, and the
\* client reconnects to log in.
Scan(p) ==
    /\ at[p] = "qr" /\ ~device /\ conn[p] = "dialed"
    /\ device' = TRUE /\ linked' = TRUE
    /\ UNCHANGED <<holder, mode, at, open, conn, inbox, waiter, health, outcome, told, entered,
                   starts, troubles>>

Login(p) ==
    /\ conn[p] = "dialed" /\ device /\ linked
    /\ conn' = [conn EXCEPT ![p] = "in"]
    /\ entered' = [entered EXCEPT ![p] = TRUE]
    /\ Queue(p, "connected")
    /\ UNCHANGED <<device, linked, holder, mode, at, open, waiter, health, outcome, told,
                   starts, troubles>>

\* The login of a device the account no longer lists; its row is deleted.
LoginRefused(p) ==
    /\ conn[p] = "dialed" /\ device /\ ~linked
    /\ device' = FALSE
    /\ conn' = [conn EXCEPT ![p] = "off"]
    /\ \E e \in {"unlinked", "gone", "restricted"} : Queue(p, e)
    /\ UNCHANGED <<linked, holder, mode, at, open, waiter, health, outcome, told, entered,
                   starts, troubles>>

\* A temporary ban, an unknown connect failure, or the stream taken by
\* another client of the same session.
ServerEnds(p) ==
    /\ conn[p] \in {"dialed", "in"} /\ device /\ Trouble
    /\ conn' = [conn EXCEPT ![p] = "off"]
    /\ \E e \in {"ban", "failure", "replaced"} : Queue(p, e)
    /\ UNCHANGED <<device, linked, holder, mode, at, open, waiter, health, outcome, told,
                   entered, starts>>

\* The phone removes the device: a client that is logged in is told at once.
Unlink ==
    /\ linked /\ Trouble
    /\ linked' = FALSE
    /\ LET here == {p \in Procs : conn[p] = "in"}
       IN  /\ device' = IF here = {} THEN device ELSE FALSE
           /\ conn' = [p \in Procs |-> IF p \in here THEN "off" ELSE conn[p]]
           /\ inbox' = [p \in Procs |-> IF p \in here THEN Append(inbox[p], "unlinked")
                                                      ELSE inbox[p]]
    /\ UNCHANGED <<holder, mode, at, open, waiter, health, outcome, told, entered, starts>>

Drop(p) ==
    /\ conn[p] \in {"dialed", "in"} /\ Trouble
    /\ conn' = [conn EXCEPT ![p] = "lost"]
    /\ UNCHANGED <<device, linked, holder, mode, at, open, inbox, waiter, health, outcome, told,
                   entered, starts>>

Redial(p) ==
    /\ conn[p] = "lost"
    /\ conn' = [conn EXCEPT ![p] = "dialed"]
    /\ UNCHANGED <<device, linked, holder, mode, at, open, inbox, waiter, health, outcome, told,
                   entered, starts, troubles>>

\* A plausible slip: handleEvent does not know the logout of a removed device.
HealthAfterMissesLogout(e) ==
    CASE e \in {"connected", "unlinked"} -> "linked"
      [] e = "gone"       -> "expired"
      [] e \in {"restricted", "ban"} -> "banned"
      [] e = "replaced"   -> "replaced"
      [] e = "failure"    -> "delinked"

\* healthStateFromLogoutReason and the other cases of handleEvent.
HealthAfter(e) ==
    CASE e = "connected"  -> "linked"
      [] e = "gone"       -> "expired"
      [] e \in {"restricted", "ban"} -> "banned"
      [] e = "replaced"   -> "replaced"
      [] e \in {"unlinked", "failure"} -> "delinked"

\* pairLoginWaiter.handleEvent: the first qualifying event only; a temporary
\* ban is none.
Signalled(w, e) ==
    CASE w # "armed" \/ e = "ban" -> w
      [] w = "armed" /\ e = "connected" -> "ok"
      [] OTHER -> "failed"

\* One event, given to both handlers in turn.
Dispatch(p) ==
    /\ inbox[p] # <<>>
    /\ LET e == Head(inbox[p])
       IN  /\ health' = IF mode[p] = "serve" THEN [health EXCEPT ![p] = HealthAfter(e)] ELSE health
           /\ waiter' = [waiter EXCEPT ![p] = Signalled(@, e)]
    /\ inbox' = [inbox EXCEPT ![p] = Tail(@)]
    /\ UNCHANGED <<device, linked, holder, mode, at, open, conn, outcome, told, entered, starts,
                   troubles>>

-----------------------------------------------------------------------------
Startup(p) ==
    \/ OpenMessageStore(p) \/ AcquireStoreLock(p) \/ OpenSession(p) \/ ReadDevice(p)
    \/ ServeConnect(p) \/ ReportRefused(p)

Link(p) ==
    \/ LinkConnect(p) \/ PairingAccepted(p) \/ NotScanned(p) \/ AwaitLogin(p)
    \/ CloseAll(p) \/ TellOutcome(p)

Library(p) ==
    \/ Scan(p) \/ Login(p) \/ LoginRefused(p) \/ ServerEnds(p) \/ Drop(p) \/ Redial(p)

Next ==
    \/ Unlink
    \/ \E p \in Procs :
        \/ \E m \in Modes : Start(p, m)
        \/ Kill(p) \/ Startup(p) \/ Link(p) \/ ShowCode(p) \/ RetireWaiter(p)
        \/ Library(p) \/ Dispatch(p)

Spec == Init /\ [][Next]_vars

\* A process, its client's event queue included, runs on.  The end of the QR
\* channel is the library's own timer.  Nothing is assumed of the network, the
\* phone or the host.
Fair(p) == WF_vars(Startup(p) \/ Link(p) \/ Dispatch(p))

FairSession == \A p \in Procs : Fair(p)

FairSpec == Spec /\ FairSession

-----------------------------------------------------------------------------
\* Properties

(***************************************************************************)
(* storelock.go: the link command and a serving plugin never both hold     *)
(* whatsmeow.db open, whatever starts, fails or is killed; and the file is *)
(* never open without the lock.                                            *)
(***************************************************************************)
OneSession == \A p \in Procs : open[p] => holder = p

(***************************************************************************)
(* Match may answer with a list, and Health with reachable, only for a     *)
(* process whose client has logged in, and not once the account has        *)
(* removed the device or another client has taken the stream, as soon as   *)
(* the event that said so is dispatched.                                   *)
(***************************************************************************)
Serves(p) == mode[p] = "serve" /\ at[p] = "serving" /\ health[p] = "linked"

HealthyNeedsSession ==
    \A p \in Procs : Serves(p) /\ inbox[p] = <<>> =>
        entered[p] /\ conn[p] # "off" /\ (conn[p] = "in" => device /\ linked)

(***************************************************************************)
(* link.go: `paired` is told only after a login on this client, once the   *)
(* lock is released for the plugin the host then starts, and as the only   *)
(* terminal event, unless a code could not be rendered (which is told as   *)
(* an error event although the loop goes on).                              *)
(***************************************************************************)
TellsHonestly ==
    \A p \in Procs : \A i \in 1 .. Len(told[p]) :
        mode[p] = "link" /\ told[p][i] = "paired" =>
            /\ entered[p] /\ holder # p /\ ~open[p] /\ at[p] = "exited"
            /\ i = Len(told[p])
            /\ \A j \in 1 .. i - 1 : told[p][j] \in Terminal => told[p][j] = "error"

(***************************************************************************)
(* A launch never waits for the network: a serving process answers, or has *)
(* exited, whether or not a login ever comes; and a link command ends.     *)
(***************************************************************************)
LaunchesEnd ==
    \A p \in Procs : []<>(at[p] = "serving" \/ ~Running(p))

=============================================================================
