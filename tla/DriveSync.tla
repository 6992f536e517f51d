------------------------------ MODULE DriveSync ------------------------------
(***************************************************************************)
(* How the Google Drive plugin keeps syncstate.json in step with a Drive   *)
(* that changes underneath it (plugins/gdrive/syncengine.go, syncstate.go, *)
(* folderwalk.go, changepoll.go and plugin.go's Match).                    *)
(*                                                                         *)
(* Every call of the host runs ensureSynced under one mutex: load the      *)
(* stored state, poll the change feed page by page and apply it, or, with  *)
(* no usable state or a token Drive has forgotten (410), capture a fresh   *)
(* token and walk the whole folder; then write the new state through a     *)
(* temporary file and a rename.  Drive changes between any two requests,   *)
(* any step may fail, and the process may be killed at any point.          *)
(***************************************************************************)
EXTENDS DriveTree, Sequences

CONSTANTS
  Calls,       \* concurrent Match calls, one per webspace of the host
  NoCall,      \* nobody holds the mutex
  NoFile, Malformed, Partial,  \* file contents other than a sync state
  NoState,     \* no state computed yet
  NoReply, Failed,
  MaxLog,      \* bound: events Drive ever logs
  MaxFaults,   \* bound: failed requests, failed writes, crashes, reconfigurations
  StartDrives, \* the arrangements of files Drive may start with
  PageSize,    \* changes per changes.list page; 1000 in the code
  MoveDirs     \* whether folders are moved, or restored from the trash

ASSUME SyncAssumption ==
  /\ MaxLog \in Nat /\ MaxFaults \in Nat
  /\ PageSize \in Nat \ {0}
  /\ MoveDirs \in BOOLEAN
  /\ StartDrives \subseteq [Nodes -> Parents]
  /\ NoCall \notin Calls

VARIABLES
  drive,     \* [Nodes -> Parents]: where each file is, in Drive
  log,       \* ids in the order Drive logged a change of them
  oldest,    \* tokens before this one answer 410 Gone
  folder,    \* the folder_id the running process is configured with
  file,      \* syncstate.json
  tmp,       \* syncstate.json.tmp
  mu,        \* the call holding syncMu, or NoCall
  pc,        \* where each call is
  work,      \* each call's local variables
  reply,     \* what ensureSynced returned to each call
  index,     \* external: the items the host keeps for each call's webspace
  faults     \* failures so far

driveVars == <<drive, log, oldest>>
diskVars  == <<file, tmp>>
callVars  == <<mu, pc, work, reply>>
vars == <<drive, log, oldest, folder, file, tmp, mu, pc, work, reply, index, faults>>

Tokens == 0..MaxLog

\* syncState.  via is history: how the state was computed.
SyncStates ==
  [root : Roots, token : Tokens, tree : Trees, via : {"delta", "walk"}]

ASSUME SentinelAssumption ==
  \A s \in {NoFile, Malformed, Partial, NoState, NoReply, Failed} : s \notin SyncStates

\* What one call holds in its local variables.
Locals ==
  [loaded : SyncStates \union {NoFile, Malformed},
   cursor : Tokens,
   batch  : SUBSET Changes,
   queue  : Seq(Dirs \union Roots),
   fresh  : SyncStates \union {NoState}]

\* A call's locals when it is not syncing.
Idle == [loaded |-> NoFile, cursor |-> 0, batch |-> {}, queue |-> <<>>,
         fresh |-> NoState]

Before  == {"idle", "wait", "load", "reply"}
Walking == {"token", "name", "walk"}
Saving  == {"create", "write", "rename"}
Fresh   == {"name", "walk"} \union Saving
Holding == {"load", "poll"} \union Walking \union Saving

-----------------------------------------------------------------------------
(* Drive: external, as the plugin's requests see it *)

\* Not in the trash, and in no folder that is.
Alive == UNION {Below(drive, top) : top \in Roots \union {Outside}}

\* What Drive reports as a file's place.
Reported(n) == IF n \in Alive THEN drive[n] ELSE Gone

\* The positions after a token that changes.list still lists: a file's most
\* recent change only.
Listed(token) ==
  {i \in token + 1 .. Len(log) : \A j \in i + 1 .. Len(log) : log[j] # log[i]}

\* Those changes as Drive reports them now.
Entries(positions) ==
  {[at |-> i, id |-> log[i], parent |-> Reported(log[i])] : i \in positions}

Logged(n) ==
  /\ Len(log) < MaxLog
  /\ log' = Append(log, n)
  /\ UNCHANGED <<oldest, folder, index, faults>>
  /\ UNCHANGED diskVars /\ UNCHANGED callVars

\* A file or folder is created, restored or moved.  Only its own change is
\* logged, none of what is inside it.
Put(n, p) ==
  /\ p # drive[n] /\ p # n /\ p \notin Below(drive, n)
  /\ p \in Alive \union Roots \union {Outside}
  /\ drive[n] = Gone \/ n \in Alive
  /\ n \in Dirs /\ ~MoveDirs =>
       /\ drive[n] = Gone /\ \A i \in 1..Len(log) : log[i] # n
       /\ \A m \in Nodes : drive[m] # n
  /\ drive' = [drive EXCEPT ![n] = p]
  /\ Logged(n)

Trash(n) ==
  /\ n \in Alive
  /\ drive' = [drive EXCEPT ![n] = Gone]
  /\ Logged(n)

\* Renamed or edited in place.
Touch(n) ==
  /\ n \in Alive
  /\ UNCHANGED drive
  /\ Logged(n)

\* Drive forgets the change history so far.
Expire ==
  /\ oldest < Len(log)
  /\ oldest' = Len(log)
  /\ UNCHANGED <<drive, log, folder, index, faults>>
  /\ UNCHANGED diskVars /\ UNCHANGED callVars

DriveNext ==
  \/ \E n \in Nodes : Trash(n) \/ Touch(n)
  \/ \E n \in Nodes, p \in Parents \ {Gone} : Put(n, p)
  \/ Expire

-----------------------------------------------------------------------------
(* ensureSynced *)

Goto(c, from, to) == pc[c] = from /\ pc' = [pc EXCEPT ![c] = to]

\* ensureSynced returns r: the deferred unlock, and its locals are gone.
Return(c, r) ==
  /\ mu' = NoCall
  /\ pc' = [pc EXCEPT ![c] = "reply"]
  /\ work' = [work EXCEPT ![c] = Idle]
  /\ reply' = [reply EXCEPT ![c] = r]

\* The host asks for a source's items.
Arrive(c) ==
  /\ Goto(c, "idle", "wait")
  /\ UNCHANGED <<folder, mu, work, reply, index, faults>>
  /\ UNCHANGED diskVars /\ UNCHANGED driveVars

\* The token cannot be refreshed or the configuration cannot be read: Match
\* answers Unavailable before it takes the mutex.
Refuse(c) ==
  /\ Goto(c, "wait", "reply")
  /\ faults < MaxFaults /\ faults' = faults + 1
  /\ reply' = [reply EXCEPT ![c] = Failed]
  /\ UNCHANGED <<folder, mu, work, index>>
  /\ UNCHANGED diskVars /\ UNCHANGED driveVars

\* Mutant: the sync runs without taking the mutex.
AcquireUnguarded(c) ==
  /\ Goto(c, "wait", "load")
  /\ mu' = c
  /\ UNCHANGED <<folder, work, reply, index, faults>>
  /\ UNCHANGED diskVars /\ UNCHANGED driveVars

Acquire(c) ==
  /\ mu = NoCall
  /\ mu' = c
  /\ Goto(c, "wait", "load")
  /\ UNCHANGED <<folder, work, reply, index, faults>>
  /\ UNCHANGED diskVars /\ UNCHANGED driveVars

\* loadSyncState, and resolveSyncState's choice between poll and walk.
Load(c) ==
  /\ pc[c] = "load"
  /\ \/ /\ file \in {NoFile, Malformed}
        /\ pc' = [pc EXCEPT ![c] = "token"]
        /\ work' = [work EXCEPT ![c].loaded = file]
     \/ /\ file \in SyncStates
        /\ pc' = [pc EXCEPT ![c] = "poll"]
        /\ work' = [work EXCEPT ![c].loaded = file, ![c].cursor = file.token]
  /\ UNCHANGED <<folder, mu, reply, index, faults>>
  /\ UNCHANGED diskVars /\ UNCHANGED driveVars

\* changes.list answers 410 Gone: the stored token and tree are given up.
PollStale(c) ==
  /\ Goto(c, "poll", "token")
  /\ work[c].cursor < oldest
  /\ work' = [work EXCEPT ![c].batch = {}]
  /\ UNCHANGED <<folder, mu, reply, index, faults>>
  /\ UNCHANGED diskVars /\ UNCHANGED driveVars

\* The batch so far with one more page.
Drained(c, page) == work[c].batch \union Entries(page)

\* A full page, with a nextPageToken: the position of its last change.
PollPage(c) ==
  LET changes == Listed(work[c].cursor)
  IN  /\ pc[c] = "poll"
      /\ work[c].cursor >= oldest
      /\ Cardinality(changes) > PageSize
      /\ \E last \in changes :
           LET page == {i \in changes : i <= last}
           IN  /\ Cardinality(page) = PageSize
               /\ work' = [work EXCEPT ![c].batch = Drained(c, page),
                                       ![c].cursor = last]
      /\ UNCHANGED <<folder, mu, pc, reply, index, faults>>
      /\ UNCHANGED diskVars /\ UNCHANGED driveVars

\* deltaSyncState: the batch applied to a copy of the loaded tree.
Delta(c, batch, token) ==
  [root |-> work[c].loaded.root, token |-> token,
   tree |-> ApplyChanges(work[c].loaded.tree, work[c].loaded.root, batch),
   via |-> "delta"]

\* The last page carries the token to poll from next time; should Drive leave
\* it out, the loaded one is kept.
PollLast(c) ==
  LET changes == Listed(work[c].cursor)
  IN  /\ Goto(c, "poll", "create")
      /\ work[c].cursor >= oldest
      /\ Cardinality(changes) <= PageSize
      /\ \E token \in {Len(log), work[c].loaded.token} :
           work' = [work EXCEPT ![c].batch = {}, ![c].cursor = 0,
                                ![c].fresh = Delta(c, Drained(c, changes), token)]
      /\ UNCHANGED <<folder, mu, reply, index, faults>>
      /\ UNCHANGED diskVars /\ UNCHANGED driveVars

\* resync: the token first, ...
StartPageToken(c) ==
  /\ Goto(c, "token", "name")
  /\ work' = [work EXCEPT ![c].cursor = 0,
                          ![c].fresh = [root |-> folder, token |-> Len(log),
                                        tree |-> EmptyTree, via |-> "walk"]]
  /\ UNCHANGED <<folder, mu, reply, index, faults>>
  /\ UNCHANGED diskVars /\ UNCHANGED driveVars

\* ... then the root's own name, ...
RootFolderName(c) ==
  /\ Goto(c, "name", "walk")
  /\ work' = [work EXCEPT ![c].queue = <<work[c].fresh.root>>]
  /\ UNCHANGED <<folder, mu, reply, index, faults>>
  /\ UNCHANGED diskVars /\ UNCHANGED driveVars

\* ... then one listing per folder, breadth first.  Drive lists a folder's
\* untrashed children in any order.
ListFolder(c) ==
  LET parent   == Head(work[c].queue)
      children == {n \in Nodes : Reported(n) = parent}
  IN  /\ pc[c] = "walk"
      /\ work[c].queue # <<>>
      /\ \E order \in [1..Cardinality(children \intersect Dirs) ->
                         children \intersect Dirs] :
           /\ \A d \in children \intersect Dirs : \E i \in DOMAIN order : order[i] = d
           /\ work' = [work EXCEPT
                ![c].queue = Tail(work[c].queue) \o order,
                ![c].fresh.tree = [n \in Nodes |-> IF n \in children THEN parent
                                                   ELSE work[c].fresh.tree[n]]]
      /\ UNCHANGED <<folder, mu, pc, reply, index, faults>>
      /\ UNCHANGED diskVars /\ UNCHANGED driveVars

\* Mutant: the token is captured after the walk.
WalkDoneLateToken(c) ==
  /\ Goto(c, "walk", "create")
  /\ work[c].queue = <<>>
  /\ work' = [work EXCEPT ![c].fresh.token = Len(log)]
  /\ UNCHANGED <<folder, mu, reply, index, faults>>
  /\ UNCHANGED diskVars /\ UNCHANGED driveVars

WalkDone(c) ==
  /\ Goto(c, "walk", "create")
  /\ work[c].queue = <<>>
  /\ UNCHANGED <<folder, mu, work, reply, index, faults>>
  /\ UNCHANGED diskVars /\ UNCHANGED driveVars

-----------------------------------------------------------------------------
(* saveSyncState *)

\* Mutant: the temporary file is renamed without having been written.
CreateTmpUnwritten(c) ==
  /\ Goto(c, "create", "rename")
  /\ tmp = NoFile
  /\ tmp' = Partial
  /\ UNCHANGED <<folder, file, mu, work, reply, index, faults>>
  /\ UNCHANGED driveVars

\* O_EXCL: an existing temporary file fails the save, and is left there.
CreateTmp(c) ==
  /\ pc[c] = "create"
  /\ \/ /\ tmp = NoFile
        /\ tmp' = Partial
        /\ pc' = [pc EXCEPT ![c] = "write"]
        /\ UNCHANGED <<mu, work, reply>>
     \/ /\ tmp # NoFile
        /\ Return(c, Failed)
        /\ UNCHANGED tmp
  /\ UNCHANGED <<folder, file, index, faults>> /\ UNCHANGED driveVars

\* Write, Sync and Close.
WriteTmp(c) ==
  /\ Goto(c, "write", "rename")
  /\ tmp' = work[c].fresh
  /\ UNCHANGED <<folder, file, mu, work, reply, index, faults>>
  /\ UNCHANGED driveVars

RenameTmp(c) ==
  /\ pc[c] = "rename"
  /\ file' = tmp
  /\ tmp' = NoFile
  /\ Return(c, work[c].fresh)
  /\ UNCHANGED <<folder, index, faults>> /\ UNCHANGED driveVars

\* Mutant: the freshly computed state is handed out although saving it failed.
FailButAnswer(c) ==
  /\ pc[c] \in Saving
  /\ faults < MaxFaults /\ faults' = faults + 1
  /\ tmp' = IF pc[c] \in {"write", "rename"} THEN NoFile ELSE tmp
  /\ Return(c, work[c].fresh)
  /\ UNCHANGED <<folder, file, index>> /\ UNCHANGED driveVars

\* A request or a disk operation fails: the error is returned, and saving
\* removes its temporary file on every branch after creating it.
Fail(c) ==
  /\ pc[c] \in Holding
  /\ faults < MaxFaults /\ faults' = faults + 1
  /\ tmp' = IF pc[c] \in {"write", "rename"} THEN NoFile ELSE tmp
  /\ Return(c, Failed)
  /\ UNCHANGED <<folder, file, index>> /\ UNCHANGED driveVars

-----------------------------------------------------------------------------
(* The host *)

\* Match's answer arrives.  External: a success replaces the webspace's whole
\* item set, an error leaves it.
Deliver(c) ==
  /\ Goto(c, "reply", "idle")
  /\ index' = IF reply[c] \in SyncStates
                THEN [index EXCEPT ![c] = MatchItems(reply[c].tree, reply[c].root)]
                ELSE index
  /\ reply' = [reply EXCEPT ![c] = NoReply]
  /\ UNCHANGED <<folder, mu, work, faults>>
  /\ UNCHANGED diskVars /\ UNCHANGED driveVars

\* The host has given up waiting and never sees the answer.
Lose(c) ==
  /\ reply[c] # Failed
  /\ Goto(c, "reply", "idle")
  /\ faults < MaxFaults /\ faults' = faults + 1
  /\ reply' = [reply EXCEPT ![c] = NoReply]
  /\ UNCHANGED <<folder, mu, work, index>>
  /\ UNCHANGED diskVars /\ UNCHANGED driveVars

Reset ==
  /\ mu' = NoCall
  /\ pc' = [c \in Calls |-> "idle"]
  /\ work' = [c \in Calls |-> Idle]
  /\ reply' = [c \in Calls |-> NoReply]
  /\ faults < MaxFaults /\ faults' = faults + 1

\* The process is killed; the host starts it again.
Crash ==
  /\ \E c \in Calls : pc[c] # "idle"
  /\ Reset
  /\ UNCHANGED <<folder, index>> /\ UNCHANGED diskVars /\ UNCHANGED driveVars

\* The operator edits folder_id: the host starts the process with it.
Reconfigure ==
  /\ \A c \in Calls : pc[c] = "idle"
  /\ folder' \in Roots \ {folder}
  /\ Reset
  /\ UNCHANGED index /\ UNCHANGED diskVars /\ UNCHANGED driveVars

-----------------------------------------------------------------------------

Init ==
  /\ drive \in StartDrives
  /\ log = <<>>
  /\ oldest = 0
  /\ folder \in Roots
  /\ file \in {NoFile, Malformed}
  /\ tmp = NoFile
  /\ mu = NoCall
  /\ pc = [c \in Calls |-> "idle"]
  /\ work = [c \in Calls |-> Idle]
  /\ reply = [c \in Calls |-> NoReply]
  /\ index = [c \in Calls |-> {}]
  /\ faults = 0

\* Steps a running call takes.
Step(c) ==
  \/ Load(c)
  \/ PollStale(c) \/ PollPage(c) \/ PollLast(c)
  \/ StartPageToken(c) \/ RootFolderName(c) \/ ListFolder(c) \/ WalkDone(c)
  \/ CreateTmp(c) \/ WriteTmp(c) \/ RenameTmp(c)
  \/ Deliver(c)

CallNext(c) ==
  Arrive(c) \/ Acquire(c) \/ Step(c) \/ Refuse(c) \/ Fail(c) \/ Lose(c)

Next == DriveNext \/ (\E c \in Calls : CallNext(c)) \/ Crash \/ Reconfigure

Spec == Init /\ [][Next]_vars

\* The host refreshes each source again and again, a Go mutex hands itself to
\* a waiter before long, and a call that holds it ends: syncRetryDeadline bounds
\* everything between the lock and the answer.  (A running call can always
\* step, so this is weak fairness of its steps; it is stated of the states
\* because TLC would otherwise apply every batch once more for each ENABLED.)
Fairness ==
  \A c \in Calls :
    /\ WF_vars(Arrive(c))
    /\ SF_vars(Acquire(c))
    /\ []<>(pc[c] \in {"idle", "wait"})

FairSpec == Spec /\ Fairness

-----------------------------------------------------------------------------
(* Properties *)

\* Where each call is, what it holds, and what is on disk.
TypeOK ==
  /\ drive \in [Nodes -> Parents]
  /\ log \in Seq(Nodes) /\ Len(log) \in Tokens
  /\ oldest \in Tokens
  /\ folder \in Roots
  /\ file \in SyncStates \union {NoFile, Malformed}
  /\ tmp \in SyncStates \union {NoFile, Partial}
  /\ mu \in Calls \union {NoCall}
  /\ pc \in [Calls -> Before \union Holding]
  /\ work \in [Calls -> Locals]
  /\ reply \in [Calls -> SyncStates \union {NoReply, Failed}]
  /\ index \in [Calls -> SUBSET Docs]
  /\ faults \in 0..MaxFaults

\* The mutex: only its holder is between Acquire and the answer.
Exclusive == \A c \in Calls : pc[c] \in Holding => mu = c

\* What each call has in hand where it is: a loaded state to poll from, a
\* computed state to save, and that very state in the temporary file it renames.
Computed ==
  \A c \in Calls :
    /\ pc[c] = "poll" => work[c].loaded \in SyncStates
    /\ pc[c] \in Fresh => work[c].fresh \in SyncStates
    /\ pc[c] \in {"name", "walk"} => work[c].fresh.via = "walk"
    /\ pc[c] = "rename" => tmp = work[c].fresh

\* No token is from the future, and what a call is about to save knows at
\* least as much of the feed as what is stored and, if a delta, extends it.
Monotone ==
  /\ file \in SyncStates => file.token <= Len(log)
  /\ \A c \in Calls : pc[c] \in Fresh =>
       /\ work[c].fresh.token <= Len(log)
       /\ file \in SyncStates => work[c].fresh.token >= file.token
       /\ work[c].fresh.via = "delta" =>
            file \in SyncStates /\ work[c].fresh.root = file.root

\* What a call loaded is still what is stored when it comes to save: no other
\* call has committed in between, so no commit is overwritten by one that did
\* not see it (syncMu, plugin.go).
LoadedIsCurrent ==
  \A c \in Calls : pc[c] \in Holding \ {"load"} => work[c].loaded = file

\* Default deny: after any batch of changes, however the feed was ordered,
\* paged or interleaved with moves, no entry is kept whose chain of parents
\* does not end at the root (pruneUnreachable, changepoll.go).
DeltaScoped ==
  \A s \in {file, tmp} \union {work[c].fresh : c \in Calls} :
     s \in SyncStates /\ s.via = "delta" => Scoped(s.tree, s.root)

\* The inductive invariant behind the theorems of DriveSyncProofs.
IInv ==
  TypeOK /\ Exclusive /\ LoadedIsCurrent /\ Computed /\ Monotone /\ DeltaScoped

\* A call commits exactly the state it answers with or leaves the store as it
\* was, a delta extends the state it was computed from, and the stored token
\* never moves back, whatever fails or crashes (ensureSynced, syncengine.go).
Store == INSTANCE DriveStore WITH
  States <- SyncStates, Unusable <- {NoFile, Malformed},
  store <- file, answer <- reply

StoreSpec == Store!StoreSpec

\* Drive's own folder tree under a root.
DriveUnder(root) ==
  [n \in Nodes |-> IF n \in Below(drive, root) THEN drive[n] ELSE NoNode]

\* The stored token never advances past a change the stored tree is missing:
\* a delta made now would give exactly Drive's own tree (T-03-10 and GAP-11).
NoLostChange ==
  file \in SyncStates =>
    ApplyChanges(file.tree, file.root, Entries(Listed(file.token)))
      = DriveUnder(file.root)

\* A folder has been put somewhere, trashed or renamed since a state's token.
Rearranged(s) == \E i \in s.token + 1 .. Len(log) : log[i] \in Dirs

\* The whole stored tree is in scope, also when a walk built it folder by
\* folder; only a walk that folders were rearranged under may keep chains of
\* parents that end nowhere, and then the next poll delivers what moved
\* (walkFolder, folderwalk.go; pruneUnreachable, changepoll.go).
StoredInScope ==
  file \in SyncStates =>
    Scoped(file.tree, file.root) \/ (file.via = "walk" /\ Rearranged(file))

\* A temporary file that no running save will rename or remove.
Orphaned == tmp # NoFile /\ \A c \in Calls : pc[c] \notin {"write", "rename"}

\* The host shows, for every webspace, the files now under the stored root.
Mirrored ==
  file \in SyncStates /\
  \A c \in Calls : index[c] = Docs \intersect Below(drive, file.root)

\* Once Drive stops changing, the host catches up for good, after any failure
\* or crash and any expired token: the kill/restart-resume guarantee.
Converges == <>[]Mirrored

\* The same, unless a killed save has left its temporary file behind.
ConvergesUnlessOrphaned == <>[]Orphaned \/ <>[]Mirrored

\* What is stored after a sync is the folder the operator configured: the root
\* id of the stored state is always the configured folder_id.
StoresConfiguredFolder ==
  \A c \in Calls : reply[c] \in SyncStates => reply[c].root = folder
=============================================================================
