---------------------------- MODULE DriveSyncProofs ----------------------------
(***************************************************************************)
(* Proofs about DriveSync, for every set of files and calls and every      *)
(* bound.  IInv of DriveSync is inductive; type correctness, the mutex's   *)
(* guarantee, the default-deny scope and the refinement of DriveStore      *)
(* follow from it, and with WalkScoped, which says what a walk has built   *)
(* folder by folder, that all that is stored is in scope.  Kept says what  *)
(* the feed still has to tell of what is stored and of what a call has in  *)
(* hand; it gives that no change is lost (ChangesKept).                    *)
(***************************************************************************)
EXTENDS DriveSync, DriveTreeProofs, FiniteSetTheorems, FunctionTheorems

USE DEF Before, Walking, Saving, Fresh, Holding

-----------------------------------------------------------------------------
(* Drive's own steps touch nothing of the plugin's *)

\* Drive only ever appends to its log; no call and no file on disk changes.
LEMMA DriveStepAlone ==
  ASSUME TypeOK, DriveNext
  PROVE  /\ drive' \in [Nodes -> Parents]
         /\ log' \in Seq(Nodes) /\ Len(log') \in Tokens /\ Len(log') >= Len(log)
         /\ oldest' \in Tokens
         /\ UNCHANGED <<folder, index, faults, file, tmp, mu, pc, work, reply>>
<1> USE DEF diskVars, callVars
<1>1. Len(log) \in Nat /\ MaxLog \in Nat
  BY SyncAssumption DEF TypeOK, Tokens
<1>2. ASSUME NEW n \in Nodes, Logged(n)
      PROVE  /\ log' \in Seq(Nodes) /\ Len(log') \in Tokens /\ Len(log') >= Len(log)
             /\ oldest' \in Tokens
             /\ UNCHANGED <<folder, index, faults, file, tmp, mu, pc, work, reply>>
  <2>1. log' = Append(log, n) /\ Len(log) < MaxLog
    BY <1>2 DEF Logged
  <2>2. log' \in Seq(Nodes) /\ Len(log') = Len(log) + 1
    BY <2>1 DEF TypeOK
  <2>3. QED BY <1>1, <1>2, <2>1, <2>2 DEF Logged, TypeOK, Tokens
<1>3. CASE \E n \in Nodes : Trash(n)
  BY <1>2, <1>3 DEF Trash, TypeOK, Parents
<1>4. CASE \E n \in Nodes : Touch(n)
  BY <1>2, <1>4 DEF Touch, TypeOK
<1>5. CASE \E n \in Nodes, p \in Parents \ {Gone} : Put(n, p)
  BY <1>2, <1>5 DEF Put, TypeOK
<1>6. CASE Expire
  BY <1>1, <1>6 DEF Expire, TypeOK, Tokens
<1>7. QED BY <1>3, <1>4, <1>5, <1>6 DEF DriveNext

-----------------------------------------------------------------------------
(* The data a step computes *)

\* What a page adds to a batch are changes at places in the feed.
LEMMA DrainedTyped ==
  ASSUME TypeOK, NEW c \in Calls, NEW page \in SUBSET Listed(work[c].cursor)
  PROVE  Drained(c, page) \in SUBSET Changes
<1>1. Len(log) \in Nat /\ work[c].cursor \in Nat
  BY SyncAssumption DEF TypeOK, Tokens, Locals
<1>2. page \subseteq 1..Len(log)
  BY <1>1 DEF Listed
<1>3. \A i \in page : i \in Nat /\ log[i] \in Nodes
  BY <1>1, <1>2 DEF TypeOK
<1>4. \A n \in Nodes : Reported(n) \in Parents
  BY DEF Reported, TypeOK, Parents
<1>5. Entries(page) \subseteq Changes
  BY <1>3, <1>4 DEF Entries, Changes
<1>6. work[c].batch \subseteq Changes
  BY DEF TypeOK, Locals
<1>7. QED BY <1>5, <1>6 DEF Drained

\* A delta is a sync state with everything it holds in scope.
LEMMA DeltaState ==
  ASSUME TypeOK, NEW c \in Calls, work[c].loaded \in SyncStates,
         NEW batch, NEW token \in Tokens
  PROVE  /\ Delta(c, batch, token) \in SyncStates
         /\ Scoped(Delta(c, batch, token).tree, Delta(c, batch, token).root)
<1>1. work[c].loaded.root \in Roots
  BY DEF SyncStates
<1>2. QED BY <1>1, ApplyChangesScoped DEF Delta, SyncStates

\* The locals of a call that is not syncing.
LEMMA IdleTyped == Idle \in Locals
BY SyncAssumption DEF Idle, Locals, Tokens

\* What the steps of a call assign to its locals: when it has loaded, ...
LEMMA LoadedTyped ==
  ASSUME NEW c \in Calls, NEW w \in [Calls -> Locals],
         NEW loaded \in SyncStates \union {NoFile, Malformed}, NEW cursor \in Tokens
  PROVE  /\ [w EXCEPT ![c].loaded = loaded] \in [Calls -> Locals]
         /\ [w EXCEPT ![c].loaded = loaded, ![c].cursor = cursor] \in [Calls -> Locals]
BY DEF Locals

\* ... when a page has arrived, ...
LEMMA PageTyped ==
  ASSUME NEW c \in Calls, NEW w \in [Calls -> Locals],
         NEW batch \in SUBSET Changes, NEW cursor \in Tokens
  PROVE  [w EXCEPT ![c].batch = batch, ![c].cursor = cursor] \in [Calls -> Locals]
BY DEF Locals

\* ... when it has computed a state.
LEMMA FreshTyped ==
  ASSUME NEW c \in Calls, NEW w \in [Calls -> Locals], NEW fresh \in SyncStates
  PROVE  /\ [w EXCEPT ![c].cursor = 0, ![c].fresh = fresh] \in [Calls -> Locals]
         /\ [w EXCEPT ![c].batch = {}, ![c].cursor = 0, ![c].fresh = fresh]
              \in [Calls -> Locals]
<1>1. 0 \in Tokens
  BY SyncAssumption DEF Tokens
<1>2. \A cursor \in Tokens :
        [w EXCEPT ![c].cursor = cursor, ![c].fresh = fresh] \in [Calls -> Locals]
  BY DEF Locals
<1>3. \A cursor \in Tokens, batch \in SUBSET Changes :
        [w EXCEPT ![c].batch = batch, ![c].cursor = cursor, ![c].fresh = fresh]
          \in [Calls -> Locals]
  <2>1. SUFFICES ASSUME NEW cursor \in Tokens, NEW batch \in SUBSET Changes
                 PROVE  [w EXCEPT ![c].batch = batch, ![c].cursor = cursor,
                                  ![c].fresh = fresh] \in [Calls -> Locals]
    OBVIOUS
  <2>2. [w[c] EXCEPT !.batch = batch, !.cursor = cursor, !.fresh = fresh] \in Locals
    BY DEF Locals
  <2>3. QED BY <2>2
<1>4. QED BY <1>1, <1>2, <1>3, Zenon

\* One more listing: the queue grows and the tree under construction changes.
LEMMA WalkTyped ==
  ASSUME NEW c \in Calls, NEW w \in [Calls -> Locals], w[c].fresh \in SyncStates,
         NEW queue \in Seq(Dirs \union Roots), NEW tree \in Trees
  PROVE  [w EXCEPT ![c].queue = queue, ![c].fresh.tree = tree] \in [Calls -> Locals]
<1> DEFINE fresh == [w[c].fresh EXCEPT !.tree = tree]
<1>1. fresh \in SyncStates
  BY DEF SyncStates
<1>2. [w[c] EXCEPT !.queue = queue, !.fresh.tree = tree] \in Locals
  <2>1. [w[c] EXCEPT !.queue = queue, !.fresh = fresh] \in Locals
    BY <1>1 DEF Locals
  <2>2. [w[c] EXCEPT !.queue = queue, !.fresh.tree = tree]
          = [w[c] EXCEPT !.queue = queue, !.fresh = fresh]
    BY DEF Locals
  <2>3. QED BY <2>1, <2>2
<1>3. [w EXCEPT ![c].queue = queue, ![c].fresh.tree = tree]
        = [w EXCEPT ![c] = [w[c] EXCEPT !.queue = queue, !.fresh.tree = tree]]
  OBVIOUS
<1>4. QED BY <1>2, <1>3

\* A listing of S in some order is a sequence over any set that includes S.
LEMMA OrderIsSequence ==
  ASSUME NEW n \in Nat, NEW S, NEW T, S \subseteq T, NEW order \in [1..n -> S]
  PROVE  order \in Seq(T)
OBVIOUS

\* Listing a folder queues folders and records the folder as their parent.
LEMMA Listing ==
  ASSUME TypeOK, Computed, NEW c \in Calls, ListFolder(c)
  PROVE  \E queue \in Seq(Dirs \union Roots), tree \in Trees :
           work' = [work EXCEPT ![c].queue = queue, ![c].fresh.tree = tree]
<1> DEFINE parent   == Head(work[c].queue)
           children == {n \in Nodes : Reported(n) = parent}
           inner    == children \intersect Dirs
           listed   == [n \in Nodes |-> IF n \in children THEN parent
                                         ELSE work[c].fresh.tree[n]]
<1>1. PICK order \in [1..Cardinality(inner) -> inner] :
        work' = [work EXCEPT ![c].queue = Tail(work[c].queue) \o order,
                             ![c].fresh.tree = listed]
  BY DEF ListFolder
<1>2. /\ work[c].queue \in Seq(Dirs \union Roots)
      /\ work[c].queue # <<>>
      /\ work[c].fresh \in SyncStates
  BY DEF ListFolder, TypeOK, Locals, Computed
<1>3. parent \in Dirs \union Roots /\ Tail(work[c].queue) \in Seq(Dirs \union Roots)
  BY <1>2
<1>4. order \in Seq(Dirs \union Roots)
  <2>1. IsFiniteSet(inner)
    BY TreeAssumption, FS_Subset
  <2>2. Cardinality(inner) \in Nat
    BY <2>1, FS_CardinalityType
  <2>3. QED BY <2>2, OrderIsSequence
<1>5. Tail(work[c].queue) \o order \in Seq(Dirs \union Roots)
  BY <1>3, <1>4
<1>6. listed \in Trees
  BY <1>2, <1>3 DEF Trees, SyncStates, Nodes
<1>7. QED BY <1>1, <1>5, <1>6

-----------------------------------------------------------------------------
(* Type correctness *)

\* Each step leaves every variable in its set.  Only the steps of calls that
\* are computing need more than TypeOK: that what they work on is a state.
LEMMA TypeStep ==
  ASSUME TypeOK, Computed, [Next]_vars
  PROVE  TypeOK'
<1> USE DEF diskVars, callVars, driveVars, Goto
<1>1. MaxLog \in Nat /\ Len(log) \in Tokens /\ Tokens \subseteq Nat /\ 0 \in Tokens
  BY SyncAssumption DEF TypeOK, Tokens
<1>0. work \in [Calls -> Locals]
  BY DEF TypeOK
<1>2. ASSUME faults < MaxFaults, faults' = faults + 1
      PROVE  faults' \in 0..MaxFaults
  BY <1>2, SyncAssumption DEF TypeOK
<1>3. ASSUME NEW c \in Calls, NEW r \in SyncStates \union {Failed}, Return(c, r)
      PROVE  /\ mu' \in Calls \union {NoCall}
             /\ pc' \in [Calls -> Before \union Holding]
             /\ work' \in [Calls -> Locals]
             /\ reply' \in [Calls -> SyncStates \union {NoReply, Failed}]
  BY <1>3, IdleTyped DEF Return, TypeOK
<1>4. CASE DriveNext
  BY <1>4, DriveStepAlone DEF TypeOK
<1>5. ASSUME NEW c \in Calls, Arrive(c) \/ Acquire(c)
      PROVE  TypeOK'
  BY <1>5 DEF Arrive, Acquire, TypeOK
<1>6. ASSUME NEW c \in Calls, Refuse(c) \/ Lose(c)
      PROVE  TypeOK'
  BY <1>2, <1>6 DEF Refuse, Lose, TypeOK
<1>7. ASSUME NEW c \in Calls, Load(c)
      PROVE  TypeOK'
  <2>1. work' \in [Calls -> Locals]
    <3>1. file \in SyncStates => file.token \in Tokens
      BY DEF SyncStates
    <3>2. CASE file \in {NoFile, Malformed} /\ work' = [work EXCEPT ![c].loaded = file]
      BY <1>0, <1>1, <3>2, LoadedTyped
    <3>3. CASE /\ file \in SyncStates
               /\ work' = [work EXCEPT ![c].loaded = file, ![c].cursor = file.token]
      BY <1>0, <3>1, <3>3, LoadedTyped, Zenon
    <3>4. QED BY <1>7, <3>2, <3>3 DEF Load
  <2>2. QED BY <1>7, <2>1 DEF Load, TypeOK
<1>8. ASSUME NEW c \in Calls, PollStale(c)
      PROVE  TypeOK'
  <2>1. work' \in [Calls -> Locals]
    BY <1>8 DEF PollStale, TypeOK, Locals
  <2>2. QED BY <1>8, <2>1 DEF PollStale, TypeOK
<1>9. ASSUME NEW c \in Calls, PollPage(c)
      PROVE  TypeOK'
  <2> DEFINE changes == Listed(work[c].cursor)
  <2>1. PICK last \in changes :
          work' = [work EXCEPT ![c].batch = Drained(c, {i \in changes : i <= last}),
                               ![c].cursor = last]
    BY <1>9 DEF PollPage
  <2>2. last \in Tokens
    BY <1>1 DEF Listed, Tokens, TypeOK, Locals
  <2>3. Drained(c, {i \in changes : i <= last}) \in SUBSET Changes
    BY DrainedTyped
  <2>4. work' \in [Calls -> Locals]
    BY <1>0, <2>1, <2>2, <2>3, PageTyped, Zenon
  <2>5. QED BY <1>9, <2>4 DEF PollPage, TypeOK
<1>10. ASSUME NEW c \in Calls, PollLast(c)
       PROVE  TypeOK'
  <2> DEFINE changes == Listed(work[c].cursor)
  <2>1. PICK token \in {Len(log), work[c].loaded.token} :
          work' = [work EXCEPT ![c].batch = {}, ![c].cursor = 0,
                     ![c].fresh = Delta(c, Drained(c, changes), token)]
    BY <1>10 DEF PollLast
  <2>2. work[c].loaded \in SyncStates
    BY <1>10 DEF PollLast, Computed
  <2>3. token \in Tokens
    BY <1>1, <2>2 DEF SyncStates
  <2>4. Delta(c, Drained(c, changes), token) \in SyncStates
    BY <2>2, <2>3, DeltaState
  <2>5. work' \in [Calls -> Locals]
    BY <1>0, <2>1, <2>4, FreshTyped, Zenon
  <2>6. QED BY <1>10, <2>5 DEF PollLast, TypeOK
<1>11. ASSUME NEW c \in Calls, StartPageToken(c)
       PROVE  TypeOK'
  <2>1. [root |-> folder, token |-> Len(log), tree |-> EmptyTree, via |-> "walk"]
          \in SyncStates
    BY <1>1 DEF SyncStates, EmptyTree, Trees, TypeOK
  <2>2. work' \in [Calls -> Locals]
    BY <1>0, <1>11, <2>1, FreshTyped, Zenon DEF StartPageToken
  <2>3. QED BY <1>11, <2>2 DEF StartPageToken, TypeOK
<1>12. ASSUME NEW c \in Calls, RootFolderName(c)
       PROVE  TypeOK'
  <2>1. work[c].fresh.root \in Roots
    BY <1>12 DEF RootFolderName, Computed, SyncStates
  <2>2. <<work[c].fresh.root>> \in Seq(Dirs \union Roots)
    BY <2>1
  <2>3. work' \in [Calls -> Locals]
    BY <1>12, <2>2 DEF RootFolderName, TypeOK, Locals
  <2>4. QED BY <1>12, <2>3 DEF RootFolderName, TypeOK
<1>13. ASSUME NEW c \in Calls, ListFolder(c)
       PROVE  TypeOK'
  <2>1. PICK queue \in Seq(Dirs \union Roots), tree \in Trees :
          work' = [work EXCEPT ![c].queue = queue, ![c].fresh.tree = tree]
    BY <1>13, Listing
  <2>2. work[c].fresh \in SyncStates
    BY <1>13 DEF ListFolder, Computed
  <2>3. work' \in [Calls -> Locals]
    BY <1>0, <2>1, <2>2, WalkTyped
  <2>4. QED BY <1>13, <2>3 DEF ListFolder, TypeOK
<1>14. ASSUME NEW c \in Calls, WalkDone(c)
       PROVE  TypeOK'
  BY <1>14 DEF WalkDone, TypeOK
<1>15. ASSUME NEW c \in Calls, CreateTmp(c)
       PROVE  TypeOK'
  BY <1>3, <1>15 DEF CreateTmp, TypeOK
<1>16. ASSUME NEW c \in Calls, WriteTmp(c)
       PROVE  TypeOK'
  BY <1>16 DEF WriteTmp, TypeOK, Computed
<1>17. ASSUME NEW c \in Calls, RenameTmp(c)
       PROVE  TypeOK'
  BY <1>3, <1>17 DEF RenameTmp, TypeOK, Computed
<1>18. ASSUME NEW c \in Calls, Fail(c)
       PROVE  TypeOK'
  BY <1>2, <1>3, <1>18 DEF Fail, TypeOK
<1>19. ASSUME NEW c \in Calls, Deliver(c)
       PROVE  TypeOK'
  <2>1. \A s : MatchItems(s.tree, s.root) \in SUBSET Docs
    BY DEF MatchItems
  <2>2. QED BY <1>19, <2>1 DEF Deliver, TypeOK
<1>20. CASE Crash \/ Reconfigure
  BY <1>2, <1>20, IdleTyped DEF Crash, Reconfigure, Reset, TypeOK
<1>21. CASE UNCHANGED vars
  BY <1>21 DEF vars, TypeOK
<1>22. QED
  BY <1>4, <1>5, <1>6, <1>7, <1>8, <1>9, <1>10, <1>11, <1>12, <1>13, <1>14, <1>15,
     <1>16, <1>17, <1>18, <1>19, <1>20, <1>21 DEF Next, CallNext, Step

-----------------------------------------------------------------------------
(* The mutex *)

\* A step of one call is none of the others' business.
LEMMA OwnCall ==
  ASSUME TypeOK, NEW c \in Calls, CallNext(c), NEW d \in Calls, d # c
  PROVE  pc'[d] = pc[d] /\ work'[d] = work[d] /\ reply'[d] = reply[d]
<1> USE DEF diskVars, driveVars, Goto, Return, TypeOK
<1>1. CASE Arrive(c) \/ Acquire(c) \/ Refuse(c) \/ Lose(c) \/ Deliver(c)
  BY <1>1 DEF Arrive, Acquire, Refuse, Lose, Deliver
<1>2. CASE Load(c) \/ PollStale(c) \/ PollPage(c) \/ PollLast(c)
  BY <1>2 DEF Load, PollStale, PollPage, PollLast
<1>3. CASE StartPageToken(c) \/ RootFolderName(c) \/ ListFolder(c) \/ WalkDone(c)
  BY <1>3 DEF StartPageToken, RootFolderName, ListFolder, WalkDone
<1>4. CASE CreateTmp(c) \/ WriteTmp(c) \/ RenameTmp(c) \/ Fail(c)
  BY <1>4 DEF CreateTmp, WriteTmp, RenameTmp, Fail
<1>5. QED BY <1>1, <1>2, <1>3, <1>4 DEF CallNext, Step

\* A call's own step takes the mutex from nobody, and gives it back exactly
\* when the call has its answer.
LEMMA HolderStep ==
  ASSUME TypeOK, NEW c \in Calls, CallNext(c)
  PROVE  \/ mu' = mu /\ pc[c] \notin Holding /\ pc'[c] \notin Holding
         \/ mu = NoCall /\ mu' = c /\ pc[c] \notin Holding
         \/ mu' = mu /\ pc[c] \in Holding
         \/ mu' = NoCall /\ pc[c] \in Holding /\ pc'[c] = "reply"
<1> USE DEF diskVars, driveVars, Goto, Return, TypeOK
<1>1. CASE Arrive(c) \/ Acquire(c) \/ Refuse(c) \/ Lose(c) \/ Deliver(c)
  BY <1>1 DEF Arrive, Acquire, Refuse, Lose, Deliver
<1>2. CASE Load(c) \/ PollStale(c) \/ PollPage(c) \/ PollLast(c)
  BY <1>2 DEF Load, PollStale, PollPage, PollLast
<1>3. CASE StartPageToken(c) \/ RootFolderName(c) \/ ListFolder(c) \/ WalkDone(c)
  BY <1>3 DEF StartPageToken, RootFolderName, ListFolder, WalkDone
<1>4. CASE CreateTmp(c) \/ WriteTmp(c) \/ RenameTmp(c) \/ Fail(c)
  BY <1>4 DEF CreateTmp, WriteTmp, RenameTmp, Fail
<1>5. QED BY <1>1, <1>2, <1>3, <1>4 DEF CallNext, Step

\* At most the holder of syncMu is between Acquire and its answer.
LEMMA ExclusiveStep ==
  ASSUME TypeOK, Exclusive, [Next]_vars
  PROVE  Exclusive'
<1>1. CASE DriveNext
  BY <1>1, DriveStepAlone DEF Exclusive
<1>2. ASSUME NEW c \in Calls, CallNext(c)
      PROVE  Exclusive'
  BY <1>2, OwnCall, HolderStep, SyncAssumption DEF Exclusive
<1>3. CASE Crash \/ Reconfigure
  BY <1>3 DEF Crash, Reconfigure, Reset, Exclusive
<1>4. CASE UNCHANGED vars
  BY <1>4 DEF vars, Exclusive
<1>5. QED BY <1>1, <1>2, <1>3, <1>4 DEF Next

-----------------------------------------------------------------------------
(* What a call has in hand *)

\* The disk is written by the holder of the mutex only, and the state file
\* only by the step that also ends the call.
LEMMA DiskStep ==
  ASSUME TypeOK, NEW c \in Calls, CallNext(c)
  PROVE  /\ pc[c] \notin Holding => file' = file /\ tmp' = tmp
         /\ pc'[c] \in Holding => file' = file
         /\ log' = log
<1> USE DEF diskVars, driveVars, Goto, Return, TypeOK
<1>1. CASE Arrive(c) \/ Acquire(c) \/ Refuse(c) \/ Lose(c) \/ Deliver(c)
  BY <1>1 DEF Arrive, Acquire, Refuse, Lose, Deliver
<1>2. CASE Load(c) \/ PollStale(c) \/ PollPage(c) \/ PollLast(c)
  BY <1>2 DEF Load, PollStale, PollPage, PollLast
<1>3. CASE StartPageToken(c) \/ RootFolderName(c) \/ ListFolder(c) \/ WalkDone(c)
  BY <1>3 DEF StartPageToken, RootFolderName, ListFolder, WalkDone
<1>4. CASE CreateTmp(c) \/ WriteTmp(c) \/ RenameTmp(c) \/ Fail(c)
  BY <1>4 DEF CreateTmp, WriteTmp, RenameTmp, Fail
<1>5. QED BY <1>1, <1>2, <1>3, <1>4 DEF CallNext, Step

\* What a call has loaded, it keeps until it answers.
LEMMA OwnLoaded ==
  ASSUME TypeOK, NEW c \in Calls, CallNext(c), pc'[c] \in Holding \ {"load"}
  PROVE  \/ pc[c] = "load" /\ work'[c].loaded = file
         \/ pc[c] \in Holding \ {"load"} /\ work'[c].loaded = work[c].loaded
<1> USE DEF diskVars, driveVars, Goto, Return, TypeOK
<1>0. work \in [Calls -> Locals] /\ work[c] \in Locals
  OBVIOUS
<1>1. CASE Arrive(c) \/ Acquire(c) \/ Refuse(c) \/ Lose(c) \/ Deliver(c)
  BY <1>1 DEF Arrive, Acquire, Refuse, Lose, Deliver
<1>2. CASE Load(c)
  BY <1>2 DEF Load, Locals
<1>3. CASE PollStale(c)
  BY <1>3 DEF PollStale, Locals
<1>4. CASE PollPage(c)
  <2>1. PICK batch, cursor : work' = [work EXCEPT ![c].batch = batch, ![c].cursor = cursor]
    BY <1>4 DEF PollPage
  <2>2. QED BY <1>4, <2>1 DEF PollPage, Locals
<1>5. CASE PollLast(c)
  <2>1. PICK fresh :
          work' = [work EXCEPT ![c].batch = {}, ![c].cursor = 0, ![c].fresh = fresh]
    BY <1>5 DEF PollLast
  <2>2. QED BY <1>5, <2>1 DEF PollLast, Locals
<1>6. CASE StartPageToken(c) \/ RootFolderName(c)
  BY <1>6 DEF StartPageToken, RootFolderName, Locals
<1>7. CASE ListFolder(c)
  <2>1. PICK queue, tree :
          work' = [work EXCEPT ![c].queue = queue, ![c].fresh.tree = tree]
    BY <1>7 DEF ListFolder
  <2>2. work'[c].loaded = work[c].loaded
    BY <2>1 DEF Locals
  <2>3. QED BY <1>7, <2>2 DEF ListFolder
<1>8. CASE WalkDone(c) \/ CreateTmp(c) \/ WriteTmp(c) \/ RenameTmp(c) \/ Fail(c)
  BY <1>8 DEF WalkDone, CreateTmp, WriteTmp, RenameTmp, Fail
<1>9. QED BY <1>1, <1>2, <1>3, <1>4, <1>5, <1>6, <1>7, <1>8 DEF CallNext, Step

\* The state file stays what a call loaded from it until that call commits.
LEMMA LoadedStep ==
  ASSUME TypeOK, Exclusive, LoadedIsCurrent, [Next]_vars
  PROVE  LoadedIsCurrent'
<1>1. CASE DriveNext
  BY <1>1, DriveStepAlone DEF LoadedIsCurrent
<1>2. ASSUME NEW c \in Calls, CallNext(c)
      PROVE  LoadedIsCurrent'
  <2>1. SUFFICES ASSUME NEW d \in Calls, pc'[d] \in Holding \ {"load"}
                 PROVE  work'[d].loaded = file'
    BY DEF LoadedIsCurrent
  <2>2. CASE d = c
    BY <1>2, <2>1, <2>2, OwnLoaded, DiskStep DEF LoadedIsCurrent
  <2>3. CASE d # c
    <3>1. pc[d] \in Holding \ {"load"} /\ work'[d].loaded = work[d].loaded
      BY <1>2, <2>1, <2>3, OwnCall
    <3>2. pc[c] \notin Holding
      BY <2>3, <3>1 DEF Exclusive
    <3>3. QED BY <1>2, <3>1, <3>2, DiskStep DEF LoadedIsCurrent
  <2>4. QED BY <2>2, <2>3
<1>3. CASE Crash \/ Reconfigure
  BY <1>3 DEF Crash, Reconfigure, Reset, LoadedIsCurrent
<1>4. CASE UNCHANGED vars
  BY <1>4 DEF vars, LoadedIsCurrent
<1>5. QED BY <1>1, <1>2, <1>3, <1>4 DEF Next

-----------------------------------------------------------------------------
(* What a call computes *)

\* Where the state a call has computed comes from: a delta, a fresh token and
\* an empty tree, one more listing, or the step before.
LEMMA OwnFresh ==
  ASSUME TypeOK, Computed, NEW c \in Calls, CallNext(c), pc'[c] \in Fresh
  PROVE  \/ /\ pc[c] = "poll" /\ pc'[c] = "create"
            /\ \E batch \in SUBSET Changes, token \in {Len(log), work[c].loaded.token} :
                 work'[c].fresh = Delta(c, batch, token)
         \/ /\ pc[c] = "token" /\ pc'[c] = "name"
            /\ work'[c].fresh = [root |-> folder, token |-> Len(log),
                                 tree |-> EmptyTree, via |-> "walk"]
         \/ /\ pc[c] = "walk" /\ pc'[c] = "walk"
            /\ \E tree \in Trees :
                 work'[c].fresh = [work[c].fresh EXCEPT !.tree = tree]
         \/ /\ pc[c] \in Fresh
            /\ pc'[c] \in {"name", "walk"} => pc[c] \in {"name", "walk"}
            /\ work'[c].fresh = work[c].fresh
<1> USE DEF diskVars, driveVars, Goto, Return
<1>0. work \in [Calls -> Locals] /\ work[c] \in Locals /\ pc \in [Calls -> Before \union Holding]
  BY DEF TypeOK
<1>1. CASE Arrive(c) \/ Acquire(c) \/ Refuse(c) \/ Lose(c) \/ Deliver(c)
  BY <1>0, <1>1 DEF Arrive, Acquire, Refuse, Lose, Deliver
<1>2. CASE Load(c) \/ PollStale(c) \/ PollPage(c)
  BY <1>0, <1>2 DEF Load, PollStale, PollPage
<1>3. CASE PollLast(c)
  <2> DEFINE batch == Drained(c, Listed(work[c].cursor))
  <2>1. PICK token \in {Len(log), work[c].loaded.token} :
          work' = [work EXCEPT ![c].batch = {}, ![c].cursor = 0,
                               ![c].fresh = Delta(c, batch, token)]
    BY <1>3 DEF PollLast
  <2>2. work'[c].fresh = Delta(c, batch, token)
    BY <1>0, <2>1 DEF Locals
  <2>3. batch \in SUBSET Changes
    BY DrainedTyped
  <2>4. QED BY <1>0, <1>3, <2>2, <2>3 DEF PollLast
<1>4. CASE StartPageToken(c)
  <2>1. work'[c].fresh = [root |-> folder, token |-> Len(log),
                          tree |-> EmptyTree, via |-> "walk"]
    BY <1>0, <1>4 DEF StartPageToken, Locals
  <2>2. QED BY <1>0, <1>4, <2>1 DEF StartPageToken
<1>5. CASE RootFolderName(c)
  BY <1>0, <1>5 DEF RootFolderName, Locals
<1>6. CASE ListFolder(c)
  <2>1. PICK queue \in Seq(Dirs \union Roots), tree \in Trees :
          work' = [work EXCEPT ![c].queue = queue, ![c].fresh.tree = tree]
    BY <1>6, Listing
  <2>2. work'[c].fresh = [work[c].fresh EXCEPT !.tree = tree]
    BY <1>0, <2>1 DEF Locals
  <2>3. QED BY <1>0, <1>6, <2>2 DEF ListFolder
<1>7. CASE WalkDone(c) \/ CreateTmp(c) \/ WriteTmp(c) \/ RenameTmp(c) \/ Fail(c)
  BY <1>0, <1>7 DEF WalkDone, CreateTmp, WriteTmp, RenameTmp, Fail
<1>8. QED BY <1>1, <1>2, <1>3, <1>4, <1>5, <1>6, <1>7 DEF CallNext, Step

\* A call polls only from a loaded state, and reaches the rename only by
\* writing the temporary file.
LEMMA OwnPlace ==
  ASSUME TypeOK, NEW c \in Calls, CallNext(c)
  PROVE  /\ pc'[c] = "poll" =>
              \/ pc[c] = "load" /\ file \in SyncStates
              \/ pc[c] = "poll"
         /\ pc'[c] = "rename" => tmp' = work'[c].fresh
<1> USE DEF diskVars, driveVars, Goto, Return
<1>0. pc \in [Calls -> Before \union Holding]
  BY DEF TypeOK
<1>1. CASE Arrive(c) \/ Acquire(c) \/ Refuse(c) \/ Lose(c) \/ Deliver(c)
  BY <1>0, <1>1 DEF Arrive, Acquire, Refuse, Lose, Deliver
<1>2. CASE Load(c) \/ PollStale(c) \/ PollPage(c) \/ PollLast(c)
  BY <1>0, <1>2 DEF Load, PollStale, PollPage, PollLast
<1>3. CASE StartPageToken(c) \/ RootFolderName(c) \/ ListFolder(c) \/ WalkDone(c)
  BY <1>0, <1>3 DEF StartPageToken, RootFolderName, ListFolder, WalkDone
<1>4. CASE CreateTmp(c) \/ WriteTmp(c) \/ RenameTmp(c) \/ Fail(c)
  BY <1>0, <1>4 DEF CreateTmp, WriteTmp, RenameTmp, Fail
<1>5. QED BY <1>1, <1>2, <1>3, <1>4 DEF CallNext, Step

\* Every step keeps what a call has computed so far what its code computes.
LEMMA ComputedStep ==
  ASSUME TypeOK, Exclusive, LoadedIsCurrent, Computed, [Next]_vars
  PROVE  Computed'
<1>1. CASE DriveNext
  BY <1>1, DriveStepAlone DEF Computed
<1>2. ASSUME NEW c \in Calls, CallNext(c)
      PROVE  Computed'
  <2>1. SUFFICES ASSUME NEW d \in Calls
                 PROVE  /\ pc'[d] = "poll" => work'[d].loaded \in SyncStates
                        /\ pc'[d] \in Fresh => work'[d].fresh \in SyncStates
                        /\ pc'[d] \in {"name", "walk"} => work'[d].fresh.via = "walk"
                        /\ pc'[d] = "rename" => tmp' = work'[d].fresh
    BY DEF Computed
  <2>2. CASE d # c
    <3>1. pc'[d] = pc[d] /\ work'[d] = work[d]
      BY <1>2, <2>2, OwnCall
    <3>2. pc[d] \in Holding => pc[c] \notin Holding
      BY <2>2 DEF Exclusive
    <3>3. pc[d] \in Holding => tmp' = tmp
      BY <1>2, <3>2, DiskStep
    <3>4. QED BY <3>1, <3>3 DEF Computed
  <2>3. CASE d = c
    <3>1. pc'[c] = "poll" => work'[c].loaded \in SyncStates
      BY <1>2, OwnLoaded, OwnPlace DEF Computed
    <3>2. ASSUME pc'[c] \in Fresh
          PROVE  /\ work'[c].fresh \in SyncStates
                 /\ pc'[c] \in {"name", "walk"} => work'[c].fresh.via = "walk"
      <4>1. ASSUME pc[c] = "poll", pc'[c] = "create",
                   NEW batch \in SUBSET Changes,
                   NEW token \in {Len(log), work[c].loaded.token},
                   work'[c].fresh = Delta(c, batch, token)
            PROVE  work'[c].fresh \in SyncStates
        <5>1. work[c].loaded \in SyncStates
          BY <4>1 DEF Computed
        <5>2. token \in Tokens
          BY <5>1 DEF TypeOK, SyncStates
        <5>3. QED BY <4>1, <5>1, <5>2, DeltaState
      <4>2. ASSUME work'[c].fresh = [root |-> folder, token |-> Len(log),
                                     tree |-> EmptyTree, via |-> "walk"]
            PROVE  work'[c].fresh \in SyncStates /\ work'[c].fresh.via = "walk"
        BY <4>2 DEF TypeOK, SyncStates, EmptyTree, Trees
      <4>3. ASSUME pc[c] = "walk", NEW tree \in Trees,
                   work'[c].fresh = [work[c].fresh EXCEPT !.tree = tree]
            PROVE  work'[c].fresh \in SyncStates /\ work'[c].fresh.via = "walk"
        BY <4>3 DEF Computed, SyncStates
      <4>4. QED BY <1>2, <3>2, <4>1, <4>2, <4>3, OwnFresh DEF Computed
    <3>3. QED BY <1>2, <2>3, <3>1, <3>2, OwnPlace
  <2>4. QED BY <2>2, <2>3
<1>3. CASE Crash \/ Reconfigure
  BY <1>3 DEF Crash, Reconfigure, Reset, Computed
<1>4. CASE UNCHANGED vars
  BY <1>4 DEF vars, Computed
<1>5. QED BY <1>1, <1>2, <1>3, <1>4 DEF Next

-----------------------------------------------------------------------------
(* What reaches the disk *)

\* The state file changes only by renaming the temporary file over it, which
\* holds what the call has computed.
LEMMA OwnDisk ==
  ASSUME TypeOK, Computed, NEW c \in Calls, CallNext(c)
  PROVE  /\ file' = file \/ (pc[c] = "rename" /\ file' = work[c].fresh)
         /\ tmp' \in {tmp, NoFile, Partial, work[c].fresh}
<1> USE DEF diskVars, driveVars, Goto, Return
<1>1. CASE Arrive(c) \/ Acquire(c) \/ Refuse(c) \/ Lose(c) \/ Deliver(c)
  BY <1>1 DEF Arrive, Acquire, Refuse, Lose, Deliver
<1>2. CASE Load(c) \/ PollStale(c) \/ PollPage(c) \/ PollLast(c)
  BY <1>2 DEF Load, PollStale, PollPage, PollLast
<1>3. CASE StartPageToken(c) \/ RootFolderName(c) \/ ListFolder(c) \/ WalkDone(c)
  BY <1>3 DEF StartPageToken, RootFolderName, ListFolder, WalkDone
<1>4. CASE CreateTmp(c) \/ WriteTmp(c) \/ RenameTmp(c) \/ Fail(c)
  BY <1>4 DEF CreateTmp, WriteTmp, RenameTmp, Fail, Computed
<1>5. QED BY <1>1, <1>2, <1>3, <1>4 DEF CallNext, Step

\* The feed's tokens only grow, in memory and on disk.
LEMMA MonotoneStep ==
  ASSUME TypeOK, Exclusive, LoadedIsCurrent, Computed, Monotone, [Next]_vars
  PROVE  Monotone'
<1>0. Len(log) \in Nat /\ Tokens \subseteq Nat
  BY SyncAssumption DEF TypeOK, Tokens
<1>01. \A s \in SyncStates : s.token \in Nat
  BY <1>0 DEF SyncStates
<1>1. CASE DriveNext
  <2>1. Len(log') \in Nat /\ Len(log') >= Len(log)
    BY <1>0, <1>1, DriveStepAlone
  <2>2. UNCHANGED <<file, pc, work>>
    BY <1>1, DriveStepAlone
  <2>3. file \in SyncStates => file.token <= Len(log')
    BY <1>0, <1>01, <2>1 DEF Monotone
  <2>4. \A c \in Calls : pc[c] \in Fresh => work[c].fresh.token <= Len(log')
    BY <1>0, <1>01, <2>1 DEF Monotone, Computed
  <2>5. QED BY <2>2, <2>3, <2>4 DEF Monotone
<1>2. ASSUME NEW c \in Calls, CallNext(c)
      PROVE  Monotone'
  <2>1. log' = log
    BY <1>2, DiskStep
  <2>2. file' \in SyncStates => file'.token <= Len(log)
    BY <1>2, OwnDisk DEF Monotone
  <2>3. SUFFICES ASSUME NEW d \in Calls, pc'[d] \in Fresh
                 PROVE  /\ work'[d].fresh.token <= Len(log)
                        /\ file' \in SyncStates => work'[d].fresh.token >= file'.token
                        /\ work'[d].fresh.via = "delta" =>
                             file' \in SyncStates /\ work'[d].fresh.root = file'.root
    BY <2>1, <2>2 DEF Monotone
  <2>4. CASE d # c
    <3>1. pc'[d] = pc[d] /\ work'[d] = work[d]
      BY <1>2, <2>4, OwnCall
    <3>2. pc[c] \notin Holding
      BY <2>3, <2>4, <3>1 DEF Exclusive
    <3>3. file' = file
      BY <1>2, <3>2, DiskStep
    <3>4. QED BY <2>3, <3>1, <3>3 DEF Monotone
  <2>5. CASE d = c
    <3>1. file' = file
      BY <1>2, <2>3, <2>5, DiskStep
    <3>2. ASSUME pc[c] = "poll", NEW batch \in SUBSET Changes,
                 NEW token \in {Len(log), work[c].loaded.token},
                 work'[c].fresh = Delta(c, batch, token)
          PROVE  /\ work'[c].fresh.token <= Len(log)
                 /\ work'[c].fresh.token >= file.token
                 /\ file \in SyncStates /\ work'[c].fresh.root = file.root
      <4>1. work[c].loaded = file /\ file \in SyncStates
        BY <3>2 DEF LoadedIsCurrent, Computed
      <4>2. work'[c].fresh.token = token /\ work'[c].fresh.root = file.root
        BY <3>2, <4>1 DEF Delta
      <4>3. QED BY <1>0, <1>01, <3>2, <4>1, <4>2 DEF Monotone
    <3>3. ASSUME work'[c].fresh = [root |-> folder, token |-> Len(log),
                                   tree |-> EmptyTree, via |-> "walk"]
          PROVE  /\ work'[c].fresh.token <= Len(log)
                 /\ file \in SyncStates => work'[c].fresh.token >= file.token
                 /\ work'[c].fresh.via # "delta"
      BY <1>0, <1>01, <3>3 DEF Monotone
    <3>4. ASSUME pc[c] = "walk", NEW tree \in Trees,
                 work'[c].fresh = [work[c].fresh EXCEPT !.tree = tree]
          PROVE  /\ work'[c].fresh.token = work[c].fresh.token
                 /\ work'[c].fresh.via = work[c].fresh.via
                 /\ work'[c].fresh.root = work[c].fresh.root
      BY <3>4 DEF Computed, SyncStates
    <3>5. QED BY <1>2, <2>3, <2>5, <3>1, <3>2, <3>3, <3>4, OwnFresh DEF Monotone
  <2>6. QED BY <2>4, <2>5
<1>3. CASE Crash \/ Reconfigure
  BY <1>3 DEF Crash, Reconfigure, Reset, Monotone, diskVars, driveVars
<1>4. CASE UNCHANGED vars
  BY <1>4 DEF vars, Monotone
<1>5. QED BY <1>1, <1>2, <1>3, <1>4 DEF Next

-----------------------------------------------------------------------------
(* Default deny *)

\* A call that is not computing a state has the one it had or none.
LEMMA OwnStale ==
  ASSUME TypeOK, NEW c \in Calls, CallNext(c), pc'[c] \notin Fresh
  PROVE  work'[c].fresh \in {work[c].fresh, NoState}
<1> USE DEF diskVars, driveVars, Goto, Return
<1>0. work \in [Calls -> Locals] /\ work[c] \in Locals /\ pc \in [Calls -> Before \union Holding]
  BY DEF TypeOK
<1>1. CASE Arrive(c) \/ Acquire(c) \/ Refuse(c) \/ Lose(c) \/ Deliver(c)
  BY <1>1 DEF Arrive, Acquire, Refuse, Lose, Deliver
<1>2. CASE Load(c)
  BY <1>0, <1>2 DEF Load, Locals
<1>3. CASE PollStale(c)
  BY <1>0, <1>3 DEF PollStale, Locals
<1>4. CASE PollPage(c)
  <2>1. PICK batch, cursor : work' = [work EXCEPT ![c].batch = batch, ![c].cursor = cursor]
    BY <1>4 DEF PollPage
  <2>2. QED BY <1>0, <2>1 DEF Locals
<1>5. CASE PollLast(c)
  BY <1>0, <1>5 DEF PollLast
<1>6. CASE StartPageToken(c) \/ RootFolderName(c) \/ ListFolder(c) \/ WalkDone(c)
  BY <1>0, <1>6 DEF StartPageToken, RootFolderName, ListFolder, WalkDone
<1>7. CASE CreateTmp(c) \/ WriteTmp(c) \/ RenameTmp(c) \/ Fail(c)
  BY <1>0, <1>7 DEF CreateTmp, WriteTmp, RenameTmp, Fail, Idle
<1>8. QED BY <1>1, <1>2, <1>3, <1>4, <1>5, <1>6, <1>7 DEF CallNext, Step

\* A delta that is in scope, or no delta.
ScopedDelta(s) == s \in SyncStates /\ s.via = "delta" => Scoped(s.tree, s.root)

\* A delta is pruned before anything is kept of it, so every step leaves all
\* deltas in scope.
LEMMA ScopedStep ==
  ASSUME TypeOK, LoadedIsCurrent, Computed, DeltaScoped, Computed', [Next]_vars
  PROVE  DeltaScoped'
<1>0. /\ ScopedDelta(file) /\ ScopedDelta(tmp)
      /\ \A c \in Calls : ScopedDelta(work[c].fresh)
  BY DEF DeltaScoped, ScopedDelta
<1>1. SUFFICES /\ ScopedDelta(file') /\ ScopedDelta(tmp')
               /\ \A c \in Calls : ScopedDelta(work'[c].fresh)
  BY DEF DeltaScoped, ScopedDelta
<1>2. ScopedDelta(NoFile) /\ ScopedDelta(Partial) /\ ScopedDelta(NoState)
  BY SentinelAssumption DEF ScopedDelta
<1>3. CASE DriveNext
  BY <1>0, <1>3, DriveStepAlone
<1>4. ASSUME NEW c \in Calls, CallNext(c)
      PROVE  /\ ScopedDelta(file') /\ ScopedDelta(tmp')
             /\ \A d \in Calls : ScopedDelta(work'[d].fresh)
  <2>1. ScopedDelta(file') /\ ScopedDelta(tmp')
    BY <1>0, <1>2, <1>4, OwnDisk, Zenon
  <2>2. ASSUME pc[c] = "poll",
               NEW batch \in SUBSET Changes,
               NEW token \in {Len(log), work[c].loaded.token},
               work'[c].fresh = Delta(c, batch, token)
        PROVE  ScopedDelta(work'[c].fresh)
    <3>1. work[c].loaded \in SyncStates
      BY <2>2 DEF Computed
    <3>2. token \in Tokens
      BY <3>1 DEF TypeOK, SyncStates
    <3>3. QED BY <2>2, <3>1, <3>2, DeltaState DEF ScopedDelta
  <2>3. ASSUME pc'[c] \in {"name", "walk"}
        PROVE  ScopedDelta(work'[c].fresh)
    BY <2>3 DEF Computed, ScopedDelta
  <2>4. ScopedDelta(work'[c].fresh)
    <3>1. CASE pc'[c] \in Fresh
      BY <1>0, <1>4, <2>2, <2>3, <3>1, OwnFresh
    <3>2. CASE pc'[c] \notin Fresh
      BY <1>0, <1>2, <1>4, <3>2, OwnStale, Zenon
    <3>3. QED BY <3>1, <3>2
  <2>5. ASSUME NEW d \in Calls, d # c
        PROVE  ScopedDelta(work'[d].fresh)
    BY <1>0, <1>4, <2>5, OwnCall
  <2>6. QED BY <2>1, <2>4, <2>5
<1>5. CASE Crash \/ Reconfigure
  BY <1>0, <1>2, <1>5 DEF Crash, Reconfigure, Reset, Idle, diskVars
<1>6. CASE UNCHANGED vars
  BY <1>0, <1>6 DEF vars
<1>7. QED BY <1>3, <1>4, <1>5, <1>6 DEF Next

-----------------------------------------------------------------------------
(* What a walk builds *)

\* Every entry hangs from the root or from a folder with an entry.
Upright(tree, root) ==
  \A n \in Nodes : tree[n] # NoNode =>
    tree[n] = root \/ (tree[n] \in Dirs /\ tree[tree[n]] # NoNode)

\* The tree with one folder's children recorded.
WithChildren(tree, children, parent) ==
  [n \in Nodes |-> IF n \in children THEN parent ELSE tree[n]]

\* A listing of a folder that is in scope leaves everything in scope, provided
\* no folder it names was recorded elsewhere before.  (Given a set closed for
\* the new tree, adding the documents and the folders named for the first time,
\* from which nothing hung, closes it for the tree as it was.)
LEMMA ListedScoped ==
  ASSUME NEW tree \in Trees, NEW root \in Roots, NEW parent, NEW children \in SUBSET Nodes,
         Scoped(tree, root), Upright(tree, root),
         parent = root \/ (parent \in Dirs /\ tree[parent] # NoNode),
         \A d \in children \intersect Dirs : tree[d] = NoNode \/ tree[d] = parent
  PROVE  /\ Scoped(WithChildren(tree, children, parent), root)
         /\ Upright(WithChildren(tree, children, parent), root)
<1> DEFINE listed == WithChildren(tree, children, parent)
<1>1. /\ Docs \intersect Dirs = {} /\ root \notin Nodes /\ root # NoNode /\ NoNode \notin Nodes
      /\ Dirs \subseteq Nodes /\ Nodes = Docs \union Dirs
  BY TreeAssumption DEF Nodes
<1>2. \A n \in Nodes : listed[n] = IF n \in children THEN parent ELSE tree[n]
  BY DEF WithChildren
<1>3. Upright(listed, root)
  BY <1>1, <1>2 DEF Upright
<1>4. Scoped(listed, root)
  <2>1. SUFFICES ASSUME NEW S \in SUBSET Nodes, ClosedBelow(listed, root, S),
                        NEW n \in Nodes, listed[n] # NoNode
                 PROVE  n \in S
    BY DEF Scoped, Below
  <2> DEFINE new == {d \in children : tree[d] = NoNode}
             S0  == S \union Docs \union new
  <2>2. ClosedBelow(tree, root, S0)
    <3>1. SUFFICES ASSUME NEW m \in Nodes, tree[m] = root \/ tree[m] \in S0
                   PROVE  m \in S0
      BY DEF ClosedBelow
    <3>2. tree[m] # NoNode
      BY <1>1, <3>1
    <3>3. CASE m \in children /\ m \in Dirs
      <4>1. tree[m] = parent /\ listed[m] = parent
        BY <1>2, <3>2, <3>3
      <4>2. tree[m] = root \/ tree[m] \in S
        BY <1>1, <3>1, <3>2 DEF Upright
      <4>3. QED BY <2>1, <4>1, <4>2 DEF ClosedBelow
    <3>4. CASE m \notin children
      <4>1. tree[m] = root \/ tree[m] \in S
        BY <1>1, <3>1, <3>2 DEF Upright
      <4>2. QED BY <1>2, <2>1, <3>4, <4>1 DEF ClosedBelow
    <3>5. QED BY <1>1, <3>3, <3>4
  <2>3. S0 \in SUBSET Nodes
    BY <1>1
  <2>4. \A m \in Nodes : tree[m] # NoNode => m \in S0
    BY <2>2, <2>3 DEF Scoped, Below
  <2>5. \A d \in Dirs : tree[d] # NoNode => d \in S
    BY <1>1, <2>4
  <2>6. parent = root \/ parent \in S
    BY <2>5
  <2>7. listed[n] = root \/ listed[n] \in S
    <3>1. CASE n \in children
      BY <1>2, <2>6, <3>1
    <3>2. CASE n \notin children
      BY <1>2, <2>1, <2>5, <3>2 DEF Upright
    <3>3. QED BY <3>1, <3>2
  <2>8. QED BY <2>1, <2>7 DEF ClosedBelow
<1>5. QED BY <1>3, <1>4

\* Folders a walk may list: the root, and those it has met.
Met(s) == {s.root} \union {d \in Dirs : s.tree[d] # NoNode}

\* What a walk has built so far, if no folder was touched since its token:
\* everything is in scope, and every folder is still where it was met.
Steady(s, queue) ==
  /\ Upright(s.tree, s.root)
  /\ \A d \in Dirs : s.tree[d] # NoNode => s.tree[d] = drive[d]
  /\ queue \in Seq(Met(s))

\* What a walk made is in scope if no folder was moved under it.
Walked(s) == s.via = "walk" /\ ~Rearranged(s) => Scoped(s.tree, s.root)

\* Everything a walk has stored or is building is so, and what it is building
\* is still steady.
WalkScoped ==
  /\ file \in SyncStates => Walked(file)
  /\ \A c \in Calls : pc[c] \in Fresh /\ work[c].fresh.via = "walk" =>
       /\ Walked(work[c].fresh)
       /\ pc[c] = "name" => work[c].fresh.tree = EmptyTree
       /\ pc[c] = "walk" /\ ~Rearranged(work[c].fresh) =>
            Steady(work[c].fresh, work[c].queue)

\* No call changes anything in Drive.
LEMMA CallsLeaveDrive ==
  ASSUME NEW c \in Calls, CallNext(c)
  PROVE  UNCHANGED <<drive, log, oldest>>
<1> USE DEF driveVars
<1>1. CASE Arrive(c) \/ Acquire(c) \/ Refuse(c) \/ Lose(c) \/ Deliver(c)
  BY <1>1 DEF Arrive, Acquire, Refuse, Lose, Deliver
<1>2. CASE Load(c) \/ PollStale(c) \/ PollPage(c) \/ PollLast(c)
  BY <1>2 DEF Load, PollStale, PollPage, PollLast
<1>3. CASE StartPageToken(c) \/ RootFolderName(c) \/ ListFolder(c) \/ WalkDone(c)
  BY <1>3 DEF StartPageToken, RootFolderName, ListFolder, WalkDone
<1>4. CASE CreateTmp(c) \/ WriteTmp(c) \/ RenameTmp(c) \/ Fail(c)
  BY <1>4 DEF CreateTmp, WriteTmp, RenameTmp, Fail
<1>5. QED BY <1>1, <1>2, <1>3, <1>4 DEF CallNext, Step

\* A folder rearranged stays so, and unless one is rearranged now, every
\* folder stays where it is.
LEMMA FoldersStay ==
  ASSUME TypeOK, DriveNext, NEW s \in SyncStates, s.token <= Len(log)
  PROVE  /\ Rearranged(s) => Rearranged(s)'
         /\ ~Rearranged(s)' => \A d \in Dirs : drive'[d] = drive[d]
<1>1. Len(log) \in Nat /\ s.token \in Nat
  BY SyncAssumption DEF TypeOK, Tokens, SyncStates
<1>2. ASSUME NEW n \in Nodes, log' = Append(log, n),
             \A m \in Nodes : m # n => drive'[m] = drive[m]
      PROVE  /\ Rearranged(s) => Rearranged(s)'
             /\ ~Rearranged(s)' => \A d \in Dirs : drive'[d] = drive[d]
  <2>1. /\ Len(log') = Len(log) + 1 /\ log'[Len(log) + 1] = n
        /\ \A i \in 1 .. Len(log) : log'[i] = log[i]
    BY <1>2 DEF TypeOK
  <2>2. Rearranged(s) => Rearranged(s)'
    BY <1>1, <2>1 DEF Rearranged
  <2>3. n \in Dirs => Rearranged(s)'
    <3>1. Len(log) + 1 \in s.token + 1 .. Len(log')
      BY <1>1, <2>1
    <3>2. QED BY <2>1, <3>1 DEF Rearranged
  <2>4. QED BY <1>2, <2>2, <2>3 DEF Nodes
<1>3. CASE \E n \in Nodes : Trash(n) \/ Touch(n)
  BY <1>2, <1>3 DEF Trash, Touch, Logged, TypeOK
<1>4. CASE \E n \in Nodes, p \in Parents \ {Gone} : Put(n, p)
  BY <1>2, <1>4 DEF Put, Logged, TypeOK
<1>5. CASE Expire
  BY <1>5 DEF Expire, Rearranged
<1>6. QED BY <1>3, <1>4, <1>5 DEF DriveNext

\* One more listing: of a folder the walk has met, which is where it was, as
\* are the folders it names.
LEMMA ListingScoped ==
  ASSUME TypeOK, Computed, NEW c \in Calls, ListFolder(c),
         Scoped(work[c].fresh.tree, work[c].fresh.root),
         Steady(work[c].fresh, work[c].queue)
  PROVE  /\ Scoped(work'[c].fresh.tree, work'[c].fresh.root)
         /\ Steady(work'[c].fresh, work'[c].queue)
<1> DEFINE s        == work[c].fresh
           parent   == Head(work[c].queue)
           children == {n \in Nodes : Reported(n) = parent}
           inner    == children \intersect Dirs
           listed   == WithChildren(s.tree, children, parent)
<1>1. PICK order \in [1..Cardinality(inner) -> inner] :
        work' = [work EXCEPT ![c].queue = Tail(work[c].queue) \o order,
                             ![c].fresh.tree = listed]
  BY DEF ListFolder, WithChildren
<1>2. /\ s \in SyncStates /\ work[c].queue \in Seq(Met(s)) /\ work[c].queue # <<>>
      /\ work \in [Calls -> Locals] /\ UNCHANGED drive
  BY DEF ListFolder, TypeOK, Computed, Steady, driveVars
<1>3. parent \in Met(s) /\ Tail(work[c].queue) \in Seq(Met(s))
  <2>1. ASSUME NEW S, NEW q \in Seq(S), q # <<>> PROVE Head(q) \in S /\ Tail(q) \in Seq(S)
    BY <2>1
  <2>2. QED BY <1>2, <2>1
<1>4. /\ s.root \in Roots /\ s.tree \in Trees
      /\ parent = s.root \/ (parent \in Dirs /\ s.tree[parent] # NoNode)
      /\ parent # Gone /\ parent # NoNode
  BY <1>2, <1>3, TreeAssumption DEF Met, SyncStates, Nodes
<1>5. \A n \in children : drive[n] = parent
  BY <1>4 DEF Reported
<1>6. \A d \in inner : s.tree[d] = NoNode \/ s.tree[d] = parent
  BY <1>5 DEF Steady
<1>7. Scoped(listed, s.root) /\ Upright(listed, s.root)
  <2>1. children \in SUBSET Nodes
    OBVIOUS
  <2>2. QED BY <1>4, <1>6, <2>1, ListedScoped DEF Steady
<1>8. work'[c].fresh = [s EXCEPT !.tree = listed] /\ work'[c].queue = Tail(work[c].queue) \o order
  <2>1. work[c] \in Locals
    BY <1>2
  <2>2. work'[c] = [work[c] EXCEPT !.queue = Tail(work[c].queue) \o order, !.fresh.tree = listed]
    BY <1>1, <1>2
  <2>3. QED BY <2>1, <2>2 DEF Locals
<1>9. work'[c].fresh.tree = listed /\ work'[c].fresh.root = s.root
  BY <1>2, <1>8 DEF SyncStates
<1>10. \A d \in Dirs : listed[d] = IF d \in inner THEN parent ELSE s.tree[d]
  BY DEF WithChildren, Nodes
<1>11. \A d \in Dirs : listed[d] # NoNode => listed[d] = drive'[d]
  BY <1>2, <1>5, <1>10 DEF Steady
<1>12. Tail(work[c].queue) \o order \in Seq(Met(work'[c].fresh))
  <2> DEFINE after == Met(work'[c].fresh)
  <2>1. Met(s) \subseteq after /\ inner \subseteq after
    BY <1>4, <1>9, <1>10 DEF Met
  <2>2. Tail(work[c].queue) \in Seq(after)
    BY <1>3, <2>1
  <2>3. Cardinality(inner) \in Nat
    BY TreeAssumption, FS_Subset, FS_CardinalityType
  <2> HIDE DEF after, inner
  <2>4. order \in Seq(after)
    BY <2>1, <2>3, OrderIsSequence
  <2>5. QED BY <2>2, <2>4 DEF after
<1> HIDE DEF listed, s, inner, children, parent
<1>13. Steady(work'[c].fresh, work'[c].queue)
  BY <1>2, <1>7, <1>8, <1>9, <1>11, <1>12 DEF Steady, Met
<1>14. QED BY <1>7, <1>9, <1>13

\* Where the state of a call that walks comes from.
LEMMA OwnWalk ==
  ASSUME TypeOK, Computed, NEW c \in Calls, CallNext(c), pc'[c] \in Fresh,
         work'[c].fresh.via = "walk"
  PROVE  \/ pc'[c] = "name" /\ work'[c].fresh.tree = EmptyTree
         \/ /\ pc[c] = "name" /\ pc'[c] = "walk" /\ work'[c].fresh = work[c].fresh
            /\ work'[c].queue = <<work[c].fresh.root>>
         \/ pc[c] = "walk" /\ pc'[c] = "walk" /\ ListFolder(c)
         \/ pc[c] \in Fresh /\ pc'[c] \in Saving /\ work'[c].fresh = work[c].fresh
<1> USE DEF diskVars, driveVars, Goto, Return
<1>0. work \in [Calls -> Locals] /\ work[c] \in Locals /\ pc \in [Calls -> Before \union Holding]
  BY DEF TypeOK
<1>1. CASE Arrive(c) \/ Acquire(c) \/ Refuse(c) \/ Lose(c) \/ Deliver(c)
  BY <1>0, <1>1 DEF Arrive, Acquire, Refuse, Lose, Deliver
<1>2. CASE Load(c) \/ PollStale(c) \/ PollPage(c)
  BY <1>0, <1>2 DEF Load, PollStale, PollPage
<1>3. CASE PollLast(c)
  <2>1. PICK token \in {Len(log), work[c].loaded.token} :
          work' = [work EXCEPT ![c].batch = {}, ![c].cursor = 0,
                     ![c].fresh = Delta(c, Drained(c, Listed(work[c].cursor)), token)]
    BY <1>3 DEF PollLast
  <2>2. work'[c].fresh = Delta(c, Drained(c, Listed(work[c].cursor)), token)
    BY <1>0, <2>1 DEF Locals
  <2>3. QED BY <2>2 DEF Delta
<1>4. CASE StartPageToken(c)
  BY <1>0, <1>4 DEF StartPageToken, Locals
<1>5. CASE RootFolderName(c)
  BY <1>0, <1>5 DEF RootFolderName, Locals
<1>6. CASE ListFolder(c)
  BY <1>0, <1>6 DEF ListFolder
<1>7. CASE WalkDone(c) \/ CreateTmp(c) \/ WriteTmp(c) \/ RenameTmp(c) \/ Fail(c)
  BY <1>0, <1>7 DEF WalkDone, CreateTmp, WriteTmp, RenameTmp, Fail
<1>8. QED BY <1>1, <1>2, <1>3, <1>4, <1>5, <1>6, <1>7 DEF CallNext, Step

\* An empty tree is in scope, and the walk of it begins at the root.
LEMMA EmptyScoped ==
  ASSUME NEW s, s.tree = EmptyTree, NEW queue, queue = <<s.root>>
  PROVE  Scoped(s.tree, s.root) /\ Steady(s, queue)
<1>1. \A n \in Nodes : s.tree[n] = NoNode
  BY DEF EmptyTree
<1>2. Scoped(s.tree, s.root) /\ Upright(s.tree, s.root)
  BY <1>1 DEF Scoped, Upright
<1>3. <<s.root>> \in Seq(Met(s))
  BY DEF Met
<1>4. QED BY <1>1, <1>2, <1>3 DEF Steady, Nodes

\* Every step keeps the walks' part of the invariant.
LEMMA WalkStep ==
  ASSUME IInv, WalkScoped, [Next]_vars
  PROVE  WalkScoped'
<1>0. TypeOK /\ Computed /\ Monotone /\ Exclusive
  BY DEF IInv
<1>1. CASE DriveNext
  <2>1. UNCHANGED <<file, pc, work>>
    BY <1>0, <1>1, DriveStepAlone
  <2>2. ASSUME NEW s \in SyncStates, s.token <= Len(log), Walked(s) PROVE Walked(s)'
    BY <1>0, <1>1, <2>2, FoldersStay DEF Walked
  <2>3. file' \in SyncStates => Walked(file)'
    <3>1. SUFFICES ASSUME file \in SyncStates PROVE Walked(file)'
      BY <2>1
    <3>2. file.token <= Len(log) /\ Walked(file)
      BY <1>0, <3>1 DEF Monotone, WalkScoped
    <3>3. file.via = "walk" /\ ~Rearranged(file)' => ~Rearranged(file)
      BY <1>0, <1>1, <2>1, <3>1, <3>2, FoldersStay DEF Rearranged
    <3>4. QED BY <2>1, <3>2, <3>3 DEF Walked
  <2>4. SUFFICES ASSUME NEW c \in Calls, pc[c] \in Fresh, work[c].fresh.via = "walk"
                 PROVE  /\ Walked(work[c].fresh)'
                        /\ pc[c] = "name" => work[c].fresh.tree = EmptyTree
                        /\ pc[c] = "walk" /\ ~Rearranged(work[c].fresh)' =>
                             Steady(work[c].fresh, work[c].queue)'
    BY <2>1, <2>3 DEF WalkScoped
  <2>5. /\ work[c].fresh \in SyncStates /\ work[c].fresh.token <= Len(log)
        /\ Walked(work[c].fresh) /\ work'[c] = work[c]
        /\ pc[c] = "name" => work[c].fresh.tree = EmptyTree
        /\ pc[c] = "walk" /\ ~Rearranged(work[c].fresh) => Steady(work[c].fresh, work[c].queue)
    BY <1>0, <2>1, <2>4 DEF Computed, Monotone, WalkScoped
  <2>6. ~Rearranged(work[c].fresh)' => /\ ~Rearranged(work[c].fresh)
                                       /\ \A d \in Dirs : drive'[d] = drive[d]
    BY <1>0, <1>1, <2>5, FoldersStay DEF Rearranged
  <2>7. QED BY <2>5, <2>6 DEF Walked, Steady
<1>2. ASSUME NEW c \in Calls, CallNext(c)
      PROVE  WalkScoped'
  <2>1. /\ log' = log /\ drive' = drive
        /\ file' = file \/ (pc[c] = "rename" /\ file' = work[c].fresh)
    BY <1>0, <1>2, CallsLeaveDrive, DiskStep, OwnDisk
  <2>2. \A s : Rearranged(s)' <=> Rearranged(s)
    BY <2>1 DEF Rearranged
  <2>3. file' \in SyncStates => Walked(file')
    BY <2>1 DEF WalkScoped, Walked
  <2>4. SUFFICES ASSUME NEW d \in Calls, pc'[d] \in Fresh, work'[d].fresh.via = "walk"
                 PROVE  /\ Walked(work'[d].fresh)
                        /\ pc'[d] = "name" => work'[d].fresh.tree = EmptyTree
                        /\ pc'[d] = "walk" /\ ~Rearranged(work'[d].fresh) =>
                             Steady(work'[d].fresh, work'[d].queue)
    BY <2>1, <2>3 DEF WalkScoped, Walked, Steady, Rearranged, Met
  <2>5. CASE d # c
    BY <1>0, <1>2, <2>4, <2>5, OwnCall DEF WalkScoped
  <2>6. CASE d = c
    <3>1. CASE pc'[c] = "name" /\ work'[c].fresh.tree = EmptyTree
      BY <2>6, <3>1, EmptyScoped DEF Walked
    <3>2. CASE /\ pc[c] = "name" /\ pc'[c] = "walk" /\ work'[c].fresh = work[c].fresh
               /\ work'[c].queue = <<work[c].fresh.root>>
      <4>1. work'[c].fresh.tree = EmptyTree
        BY <2>4, <2>6, <3>2 DEF WalkScoped
      <4>2. QED BY <2>6, <3>2, <4>1, EmptyScoped DEF Walked
    <3>3. CASE pc[c] = "walk" /\ pc'[c] = "walk" /\ ListFolder(c)
      <4>1. /\ work[c].fresh \in SyncStates /\ work[c].fresh.via = "walk"
            /\ work'[c].fresh.token = work[c].fresh.token
        <5>1. work[c].fresh \in SyncStates /\ work[c].fresh.via = "walk"
          BY <1>0, <3>3 DEF Computed
        <5>2. PICK queue \in Seq(Dirs \union Roots), tree \in Trees :
                work' = [work EXCEPT ![c].queue = queue, ![c].fresh.tree = tree]
          BY <1>0, <3>3, Listing
        <5>3. work[c] \in Locals /\ work \in [Calls -> Locals]
          BY <1>0 DEF TypeOK
        <5>4. work'[c].fresh = [work[c].fresh EXCEPT !.tree = tree]
          BY <5>2, <5>3 DEF Locals
        <5>5. QED BY <5>1, <5>4 DEF SyncStates
      <4>2. Rearranged(work'[c].fresh) <=> Rearranged(work[c].fresh)
        BY <4>1 DEF Rearranged
      <4>3. SUFFICES ASSUME ~Rearranged(work[c].fresh)
                     PROVE  /\ Scoped(work'[c].fresh.tree, work'[c].fresh.root)
                            /\ Steady(work'[c].fresh, work'[c].queue)
        BY <2>6, <3>3, <4>2 DEF Walked
      <4>4. /\ Scoped(work[c].fresh.tree, work[c].fresh.root)
            /\ Steady(work[c].fresh, work[c].queue)
        BY <3>3, <4>1, <4>3 DEF WalkScoped, Walked
      <4>5. QED BY <1>0, <2>1, <3>3, <4>4, ListingScoped DEF Steady
    <3>4. CASE pc[c] \in Fresh /\ pc'[c] \in Saving /\ work'[c].fresh = work[c].fresh
      BY <2>4, <2>6, <3>4 DEF WalkScoped
    <3>5. QED BY <1>0, <1>2, <2>4, <2>6, <3>1, <3>2, <3>3, <3>4, OwnWalk
  <2>7. QED BY <2>5, <2>6
<1>3. CASE Crash \/ Reconfigure
  <2>1. /\ UNCHANGED <<file, log>> /\ \A c \in Calls : pc'[c] = "idle"
    BY <1>3 DEF Crash, Reconfigure, Reset, diskVars, driveVars
  <2>2. Walked(file)' <=> Walked(file)
    BY <2>1 DEF Walked, Rearranged
  <2>3. QED BY <2>1, <2>2 DEF WalkScoped
<1>4. CASE UNCHANGED vars
  BY <1>4 DEF vars, WalkScoped, Walked, Steady, Rearranged, Met
<1>5. QED BY <1>1, <1>2, <1>3, <1>4 DEF Next

-----------------------------------------------------------------------------
(* The theorems *)

\* Before anything has run there is nothing to be wrong, ...
LEMMA InitIInv == Init => IInv
<1>1. SUFFICES ASSUME Init PROVE IInv
  OBVIOUS
<1>2. TypeOK
  BY <1>1, SyncAssumption, IdleTyped DEF Init, TypeOK, Tokens
<1>3. Exclusive /\ LoadedIsCurrent /\ Computed
  BY <1>1 DEF Init, Exclusive, LoadedIsCurrent, Computed
<1>4. Monotone /\ DeltaScoped
  BY <1>1, SentinelAssumption DEF Init, Monotone, DeltaScoped, Idle
<1>5. QED BY <1>2, <1>3, <1>4 DEF IInv

\* ... and no step of a call, of Drive or of a crash breaks IInv, ...
LEMMA StepIInv == IInv /\ [Next]_vars => IInv'
<1>1. SUFFICES ASSUME IInv, [Next]_vars PROVE IInv'
  OBVIOUS
<1>2. TypeOK' /\ Exclusive' /\ LoadedIsCurrent' /\ Computed' /\ Monotone'
  BY <1>1, TypeStep, ExclusiveStep, LoadedStep, ComputedStep, MonotoneStep DEF IInv
<1>3. DeltaScoped'
  BY <1>1, <1>2, ScopedStep DEF IInv
<1>4. QED BY <1>2, <1>3 DEF IInv

\* ... so it always holds.
THEOREM Invariance == Spec => []IInv
BY InitIInv, StepIInv, PTL DEF Spec

\* Every variable stays in its set, with any number of calls, files, events
\* and failures.
THEOREM TypeCorrect == Spec => []TypeOK
<1>1. IInv => TypeOK
  BY DEF IInv
<1>2. QED BY <1>1, Invariance, PTL

\* syncMu does its job: what a call has loaded is what is stored until that
\* call itself commits, so no commit is lost under a concurrent one.
THEOREM NoStaleCommit == Spec => []LoadedIsCurrent
<1>1. IInv => LoadedIsCurrent
  BY DEF IInv
<1>2. QED BY <1>1, Invariance, PTL

\* Default deny: no delta in memory, in the temporary file or on disk ever
\* holds an entry whose chain of parents does not end at its root.
THEOREM DefaultDeny == Spec => []DeltaScoped
<1>1. IInv => DeltaScoped
  BY DEF IInv
<1>2. QED BY <1>1, Invariance, PTL

\* Nothing has been walked before the first step.
LEMMA InitWalk == Init => WalkScoped
BY SentinelAssumption DEF Init, WalkScoped

\* With IInv, WalkScoped is inductive.
LEMMA WalkInvariance == Spec => []WalkScoped
<1>1. IInv /\ WalkScoped /\ [Next]_vars => WalkScoped'
  BY WalkStep
<1>2. QED BY <1>1, InitWalk, Invariance, PTL DEF Spec

\* The whole stored tree is in scope, whether a delta or a walk made it, but
\* for a walk that folders were rearranged under.
THEOREM ScopeStored == Spec => []StoredInScope
<1>1. IInv /\ WalkScoped => StoredInScope
  <2>1. SUFFICES ASSUME IInv, WalkScoped, file \in SyncStates
                 PROVE  Scoped(file.tree, file.root) \/ (file.via = "walk" /\ Rearranged(file))
    BY DEF StoredInScope
  <2>2. CASE file.via = "delta"
    BY <2>1, <2>2 DEF IInv, DeltaScoped
  <2>3. CASE file.via = "walk"
    BY <2>1, <2>3 DEF WalkScoped, Walked
  <2>4. QED BY <2>1, <2>2, <2>3 DEF SyncStates
<1>2. QED BY <1>1, Invariance, WalkInvariance, PTL

-----------------------------------------------------------------------------
(* The sync implements the atomic store *)

\* What a call answers with is what it has just committed, or an error; and
\* a commit is always answered.
LEMMA CallRefines ==
  ASSUME IInv, NEW c \in Calls, CallNext(c)
  PROVE  Store!StoreNext \/ UNCHANGED Store!storeVars
<1> USE DEF diskVars, driveVars, Goto, IInv, TypeOK
<1>1. CASE Arrive(c) \/ Acquire(c)
  BY <1>1 DEF Arrive, Acquire, Store!storeVars
<1>2. CASE Refuse(c)
  <2>1. Store!Refuse(c)
    BY <1>2 DEF Refuse, Store!Refuse
  <2>2. QED BY <2>1 DEF Store!StoreNext
<1>3. CASE Deliver(c) \/ Lose(c)
  <2>1. Store!Collect(c)
    BY <1>3 DEF Deliver, Lose, Store!Collect
  <2>2. QED BY <2>1 DEF Store!StoreNext
<1>4. CASE Load(c) \/ PollStale(c) \/ PollPage(c) \/ PollLast(c)
  BY <1>4 DEF Load, PollStale, PollPage, PollLast, Store!storeVars
<1>5. CASE StartPageToken(c) \/ RootFolderName(c) \/ ListFolder(c) \/ WalkDone(c)
  BY <1>5 DEF StartPageToken, RootFolderName, ListFolder, WalkDone, Store!storeVars
<1>6. CASE CreateTmp(c) /\ tmp = NoFile
  BY <1>6 DEF CreateTmp, Store!storeVars
<1>7. CASE (CreateTmp(c) /\ tmp # NoFile) \/ Fail(c)
  <2>1. Store!Refuse(c)
    BY <1>7 DEF CreateTmp, Fail, Return, Store!Refuse
  <2>2. QED BY <2>1 DEF Store!StoreNext
<1>8. CASE WriteTmp(c)
  BY <1>8 DEF WriteTmp, Store!storeVars
<1>9. CASE RenameTmp(c)
  <2>1. pc[c] = "rename" /\ file' = work[c].fresh /\ work[c].fresh \in SyncStates
    BY <1>9 DEF RenameTmp, Computed
  <2>2. reply' = [reply EXCEPT ![c] = file']
    BY <1>9, <2>1 DEF RenameTmp, Return
  <2>3. Store!MayFollow(file')
    BY <2>1 DEF Monotone, Store!MayFollow
  <2>4. Store!Commit(c)
    BY <2>1, <2>2, <2>3 DEF Store!Commit
  <2>5. QED BY <2>4 DEF Store!StoreNext
<1>10. QED
  BY <1>1, <1>2, <1>3, <1>4, <1>5, <1>6, <1>7, <1>8, <1>9 DEF CallNext, Step

\* However many requests, files and failures it takes, to its callers the sync
\* is one atomic store: a call commits exactly the state it answers with or
\* changes nothing, a delta extends what was stored, and the stored token
\* never moves back, not even across a crash.
THEOREM Refinement == Spec => StoreSpec
<1>1. Init => Store!StoreInit
  BY DEF Init, Store!StoreInit
<1>2. IInv /\ [Next]_vars => [Store!StoreNext]_(Store!storeVars)
  <2>1. SUFFICES ASSUME IInv, [Next]_vars
                 PROVE  Store!StoreNext \/ UNCHANGED Store!storeVars
    OBVIOUS
  <2>2. CASE DriveNext
    BY <2>1, <2>2, DriveStepAlone DEF IInv, Store!storeVars
  <2>3. CASE \E c \in Calls : CallNext(c)
    BY <2>1, <2>3, CallRefines
  <2>4. CASE Crash \/ Reconfigure
    <3>1. Store!Crash
      BY <2>4 DEF Crash, Reconfigure, Reset, diskVars, Store!Crash
    <3>2. QED BY <3>1 DEF Store!StoreNext
  <2>5. CASE UNCHANGED vars
    BY <2>5 DEF vars, Store!storeVars
  <2>6. QED BY <2>1, <2>2, <2>3, <2>4, <2>5 DEF Next
<1>3. QED BY <1>1, <1>2, Invariance, PTL DEF Spec, StoreSpec, Store!StoreSpec

-----------------------------------------------------------------------------
(* No change is lost *)

\* The nodes with a change after a token.
Since(token) == {log[i] : i \in token + 1 .. Len(log)}

\* A state that the changes since its token make exactly what Drive has.
UpToDate(s) == Agrees(s.tree, drive, s.root, Since(s.token))

\* What happened to one node since, as far as anything below a root goes: the
\* others there were there before and did not hang from it, and a folder that
\* is there now is new.
Rehung(n, root) ==
  /\ log' = Append(log, n)
  /\ \A m \in Nodes : m # n => drive'[m] = drive[m]
  /\ \A m \in Below(drive', root) : m # n => m \in Below(drive, root) /\ drive[m] # n
  /\ n \in Dirs \intersect Below(drive', root) =>
       drive[n] = Gone /\ \A i \in 1..Len(log) : log[i] # n

\* In Drive a file is put, trashed or touched, or nothing is.
LEMMA DriveStepKinds ==
  ASSUME TypeOK, ~MoveDirs, DriveNext, NEW root \in Roots
  PROVE  \/ \E n \in Nodes : Rehung(n, root)
         \/ drive' = drive /\ \E n \in Nodes : log' = Append(log, n)
         \/ drive' = drive /\ log' = log
<1>0. drive \in [Nodes -> Parents] /\ root # Gone /\ root \notin Nodes
  BY TreeAssumption DEF TypeOK
<1>1. CASE \E n \in Nodes : Trash(n)
  <2>1. PICK n \in Nodes : Trash(n)
    BY <1>1
  <2>2. log' = Append(log, n) /\ drive' = [drive EXCEPT ![n] = Gone]
    BY <2>1 DEF Trash, Logged
  <2>3. drive' \in [Nodes -> Parents] /\ drive'[n] = Gone
        /\ \A m \in Nodes : m # n => drive'[m] = drive[m]
    BY <1>0, <2>2 DEF Parents
  <2>4. \A m \in Below(drive', root) : m \in Nodes /\ drive'[m] # Gone
          /\ (drive'[m] = root \/ drive'[m] \in Below(drive', root))
    BY <2>3, HereParent
  <2>5. Below(drive', root) \subseteq Below(drive, root)
    <3>1. SUFFICES ASSUME NEW m \in Below(drive', root),
                          NEW S \in SUBSET Nodes, ClosedBelow(drive, root, S)
                   PROVE  m \in S
      BY <2>4 DEF Below
    <3>2. ClosedBelow(drive', root, S)
      BY <1>0, <2>3, <3>1, TreeAssumption DEF ClosedBelow
    <3>3. QED BY <3>1, <3>2 DEF Below
  <2>6. n \notin Below(drive', root)
    BY <2>3, <2>4
  <2>7. ASSUME NEW m \in Below(drive', root) PROVE m \in Below(drive, root) /\ drive[m] # n
    <3>1. drive'[m] = drive[m] /\ n # root
      BY <1>0, <2>3, <2>4, <2>6
    <3>2. QED BY <2>4, <2>5, <2>6, <3>1
  <2>8. QED BY <2>2, <2>3, <2>6, <2>7 DEF Rehung
<1>2. CASE \E n \in Nodes, p \in Parents \ {Gone} : Put(n, p)
  <2>1. PICK n \in Nodes, p \in Parents \ {Gone} : Put(n, p)
    BY <1>2
  <2>2. /\ log' = Append(log, n) /\ drive' = [drive EXCEPT ![n] = p]
        /\ n \in Dirs => /\ drive[n] = Gone /\ \A i \in 1..Len(log) : log[i] # n
                         /\ \A m \in Nodes : drive[m] # n
    BY <2>1 DEF Put, Logged
  <2>3. \A m \in Nodes : m # n => drive'[m] = drive[m]
    BY <1>0, <2>2
  <2>4. \A m \in Nodes : drive[m] # n
    <3>1. CASE n \in Dirs
      BY <2>2, <3>1
    <3>2. CASE n \notin Dirs
      BY <1>0, <3>2, TreeAssumption DEF Parents, Nodes
    <3>3. QED BY <3>1, <3>2
  <2>5. ASSUME NEW m \in Below(drive', root), m # n
        PROVE  m \in Below(drive, root)
    <3>1. SUFFICES ASSUME NEW S \in SUBSET Nodes, ClosedBelow(drive, root, S)
                   PROVE  m \in S
      BY BelowClosed DEF Below
    <3> DEFINE T == S \union {n}
    <3>2. ClosedBelow(drive', root, T)
      BY <2>3, <2>4, <3>1 DEF ClosedBelow
    <3>3. T \in SUBSET Nodes
      OBVIOUS
    <3>4. m \in T
      BY <3>2, <3>3 DEF Below
    <3>5. QED BY <2>5, <3>4
  <2>6. \A m \in Below(drive', root) : m \in Nodes
    BY BelowClosed
  <2>7. QED BY <2>2, <2>3, <2>4, <2>5, <2>6 DEF Rehung
<1>3. CASE \E n \in Nodes : Touch(n)
  BY <1>3 DEF Touch, Logged
<1>4. CASE Expire
  BY <1>4 DEF Expire
<1>5. QED BY <1>1, <1>2, <1>3, <1>4 DEF DriveNext

\* One more event is one more node changed since.
LEMMA SinceGrows ==
  ASSUME TypeOK, NEW n \in Nodes, log' = Append(log, n),
         NEW token \in Nat, token <= Len(log)
  PROVE  Since(token)' = Since(token) \union {n}
<1>1. Len(log) \in Nat /\ Len(log') = Len(log) + 1 /\ log'[Len(log) + 1] = n
      /\ \A i \in 1 .. Len(log) : log'[i] = log[i]
  BY DEF TypeOK
<1>2. token + 1 .. Len(log') = (token + 1 .. Len(log)) \union {Len(log) + 1}
  BY <1>1
<1>3. \A i \in token + 1 .. Len(log) : log'[i] = log[i]
  BY <1>1
<1>4. QED BY <1>1, <1>2, <1>3 DEF Since

\* A folder new in Drive was not in any tree.
LEMMA NewFolder ==
  ASSUME TypeOK, NEW s \in SyncStates, NEW root \in Roots, NEW n \in Nodes,
         Rehung(n, root), n \in Dirs \intersect Below(drive', root),
         \A m \in Nodes \ Since(s.token) : s.tree[m] \in {NoNode, drive[m]}
  PROVE  s.tree[n] = NoNode
<1>1. s.token \in Nat /\ s.tree \in Trees /\ Len(log) \in Nat
  BY SyncAssumption DEF SyncStates, Tokens, TypeOK
<1>2. n \notin Since(s.token) /\ drive[n] = Gone
  BY <1>1 DEF Rehung, Since
<1>3. s.tree[n] \in Nodes \union Roots \union {NoNode}
  BY <1>1 DEF Trees
<1>4. QED BY <1>2, <1>3, TreeAssumption

\* A file put or trashed leaves the recorded folders where they are, and a new
\* folder is in no tree yet.
LEMMA FoldersHoldStill ==
  ASSUME TypeOK, NEW s \in SyncStates, NEW n \in Nodes, Rehung(n, s.root),
         \A m \in Nodes \ Since(s.token) : s.tree[m] \in {NoNode, drive[m]},
         FoldersHold(s.tree, drive, s.root)
  PROVE  FoldersHold(s.tree, drive', s.root)
<1>1. SUFFICES ASSUME NEW p \in Dirs \intersect Below(drive', s.root)
               PROVE  /\ s.tree[p] \in {NoNode, drive'[p]}
                      /\ s.tree[p] # NoNode =>
                           drive'[p] = s.root \/ s.tree[drive'[p]] # NoNode
  BY DEF FoldersHold
<1>2. CASE p = n
  <2>1. s.root \in Roots
    BY DEF SyncStates
  <2>2. QED BY <1>2, <2>1, NewFolder
<1>3. CASE p # n
  <2>1. p \in Nodes
    BY BelowClosed
  <2>2. QED BY <1>3, <2>1 DEF FoldersHold, Rehung
<1>4. QED BY <1>2, <1>3

\* Drive's own steps leave every state such that the feed makes up for them.
LEMMA StaysUpToDate ==
  ASSUME TypeOK, ~MoveDirs, DriveNext, NEW s \in SyncStates, s.token <= Len(log),
         UpToDate(s)
  PROVE  UpToDate(s)'
<1>1. s.token \in Nat /\ s.root \in Roots /\ s.tree \in Trees
  BY SyncAssumption DEF SyncStates, Tokens
<1>2. ASSUME NEW n \in Nodes, Rehung(n, s.root) PROVE UpToDate(s)'
  <2>1. Since(s.token)' = Since(s.token) \union {n}
    BY <1>1, <1>2, SinceGrows DEF Rehung
  <2>2. FoldersHold(s.tree, drive', s.root)
    BY <1>2, FoldersHoldStill DEF UpToDate, Agrees
  <2>3. \A m \in Nodes \ (Since(s.token) \union {n}) :
          /\ s.tree[m] \in {NoNode, drive'[m]}
          /\ m \in Below(drive', s.root) => s.tree[m] = drive'[m]
    BY <1>2 DEF UpToDate, Agrees, Rehung
  <2>4. Agrees(s.tree, drive', s.root, Since(s.token)')
    BY <2>1, <2>2, <2>3 DEF Agrees
  <2>5. QED BY <2>4 DEF UpToDate
<1>3. ASSUME NEW n \in Nodes, drive' = drive, log' = Append(log, n) PROVE UpToDate(s)'
  <2>1. Since(s.token)' = Since(s.token) \union {n}
    BY <1>1, <1>3, SinceGrows
  <2>2. Agrees(s.tree, drive, s.root, Since(s.token)')
    BY <2>1, AgreesMore DEF UpToDate
  <2>3. QED BY <1>3, <2>2 DEF UpToDate
<1>4. CASE drive' = drive /\ log' = log
  BY <1>4 DEF UpToDate, Since
<1>5. QED BY <1>1, <1>2, <1>3, <1>4, DriveStepKinds

\* The folders a walk has yet to list.
Queued(queue) == {queue[i] : i \in 1 .. Len(queue)}

\* K are the nodes that were below the root before the walk began and have
\* stayed there.  Each of them is recorded, or will be: the folder it is in is
\* queued, or has not been met yet.
Awaits(s, queue, named, K) ==
  /\ Nodes \ Since(s.token) \subseteq K
  /\ \A n \in K \intersect Below(drive, s.root) :
       /\ drive[n] = s.root \/ drive[n] \in K
       /\ \/ s.tree[n] = drive[n]
          \/ drive[n] \in Queued(queue)
          \/ drive[n] \in Dirs /\ s.tree[drive[n]] = NoNode
          \/ ~named /\ drive[n] = s.root

\* What a walk has gathered so far, while Drive changes underneath it.
Gathered(s, queue, named) ==
  /\ \A n \in Nodes \ Since(s.token) : s.tree[n] \in {NoNode, drive[n]}
  /\ FoldersHold(s.tree, drive, s.root)
  /\ \A q \in Queued(queue) : q = s.root \/ (q \in Dirs /\ s.tree[q] # NoNode)
  /\ \E K \in SUBSET Nodes : Awaits(s, queue, named, K)

\* Drive's own steps leave a walk gathering: what they move is known as
\* changed since its token, and what they add is in a folder still to be met.
LEMMA StaysGathered ==
  ASSUME TypeOK, ~MoveDirs, DriveNext, NEW s \in SyncStates, s.token <= Len(log),
         NEW queue, NEW named, Gathered(s, queue, named)
  PROVE  Gathered(s, queue, named)'
<1>1. s.token \in Nat /\ s.root \in Roots /\ s.tree \in Trees
  BY SyncAssumption DEF SyncStates, Tokens
<1>2. PICK K \in SUBSET Nodes : Awaits(s, queue, named, K)
  BY DEF Gathered
<1>3. ASSUME NEW n \in Nodes, Rehung(n, s.root) PROVE Gathered(s, queue, named)'
  <2>1. Since(s.token)' = Since(s.token) \union {n}
    BY <1>1, <1>3, SinceGrows DEF Rehung
  <2>2. FoldersHold(s.tree, drive', s.root)
    BY <1>3, FoldersHoldStill DEF Gathered
  <2>3. \A m \in Nodes \ (Since(s.token) \union {n}) : s.tree[m] \in {NoNode, drive'[m]}
    BY <1>3 DEF Gathered, Rehung
  <2>4. Awaits(s, queue, named, K \ {n})'
    <3>1. Nodes \ (Since(s.token) \union {n}) \subseteq K \ {n}
      BY <1>2 DEF Awaits
    <3>2. ASSUME NEW m \in (K \ {n}) \intersect Below(drive', s.root)
          PROVE  /\ drive'[m] = s.root \/ drive'[m] \in K \ {n}
                 /\ \/ s.tree[m] = drive'[m]
                    \/ drive'[m] \in Queued(queue)
                    \/ drive'[m] \in Dirs /\ s.tree[drive'[m]] = NoNode
                    \/ ~named /\ drive'[m] = s.root
      <4>1. m \in Nodes
        OBVIOUS
      <4>2. drive'[m] = drive[m] /\ m \in Below(drive, s.root) /\ drive[m] # n
        BY <1>3, <4>1 DEF Rehung
      <4>3. QED BY <1>2, <4>2 DEF Awaits
    <3>3. QED BY <2>1, <3>1, <3>2 DEF Awaits
  <2>5. K \ {n} \in SUBSET Nodes
    OBVIOUS
  <2>6. QED BY <2>1, <2>2, <2>3, <2>4, <2>5 DEF Gathered
<1>4. ASSUME NEW n \in Nodes, drive' = drive, log' = Append(log, n)
      PROVE  Gathered(s, queue, named)'
  <2>1. Since(s.token)' = Since(s.token) \union {n}
    BY <1>1, <1>4, SinceGrows
  <2>2. Awaits(s, queue, named, K)'
    BY <1>2, <1>4, <2>1 DEF Awaits
  <2>3. QED BY <1>4, <2>1, <2>2 DEF Gathered
<1>5. CASE drive' = drive /\ log' = log
  BY <1>5 DEF Gathered, Awaits, Since
<1>6. QED BY <1>1, <1>3, <1>4, <1>5, DriveStepKinds

\* A walk begins with nothing recorded, ...
LEMMA GatheringBegins ==
  ASSUME TypeOK, NEW s \in SyncStates, s.tree = EmptyTree
  PROVE  Gathered(s, <<>>, FALSE)
<1>1. s.root \in Roots /\ \A n \in Nodes : s.tree[n] = NoNode
  BY DEF SyncStates, EmptyTree
<1>2. drive \in [Nodes -> Parents]
  BY DEF TypeOK
<1>3. \A n \in Below(drive, s.root) :
        /\ n \in Nodes
        /\ drive[n] = s.root \/ (drive[n] \in Nodes /\ drive[n] \in Dirs)
  BY <1>1, <1>2, HereParent DEF Nodes
<1>4. Awaits(s, <<>>, FALSE, Nodes)
  BY <1>1, <1>3 DEF Awaits
<1>5. Queued(<<>>) = {}
  BY DEF Queued
<1>6. FoldersHold(s.tree, drive, s.root)
  BY <1>1 DEF FoldersHold, Nodes
<1>7. QED BY <1>1, <1>4, <1>5, <1>6 DEF Gathered

\* ... is about to list the root, ...
LEMMA GatheringStarts ==
  ASSUME NEW s, NEW queue, Gathered(s, queue, FALSE), s.tree = EmptyTree
  PROVE  Gathered(s, <<s.root>>, TRUE)
<1>1. PICK K \in SUBSET Nodes : Awaits(s, queue, FALSE, K)
  BY DEF Gathered
<1>2. Queued(<<s.root>>) = {s.root}
  BY DEF Queued
<1>4. \A q \in Queued(queue) : q = s.root
  BY DEF Gathered, EmptyTree, Nodes
<1>5. ASSUME NEW n \in K \intersect Below(drive, s.root)
      PROVE  /\ drive[n] = s.root \/ drive[n] \in K
             /\ \/ s.tree[n] = drive[n]
                \/ drive[n] = s.root
                \/ drive[n] \in Dirs /\ s.tree[drive[n]] = NoNode
  BY <1>1, <1>4 DEF Awaits
<1>6. Awaits(s, <<s.root>>, TRUE, K)
  BY <1>1, <1>2, <1>5 DEF Awaits
<1>7. QED BY <1>2, <1>6 DEF Gathered

\* ... and ends with all of it: with nothing left to list, whatever were not
\* recorded would be in a folder that is not either, and so on up to the root.
LEMMA GatheringEnds ==
  ASSUME TypeOK, NEW s \in SyncStates, Gathered(s, <<>>, TRUE)
  PROVE  UpToDate(s)
<1>1. s.root \in Roots /\ s.root \notin Nodes /\ drive \in [Nodes -> Parents]
  BY TreeAssumption DEF SyncStates, TypeOK
<1>2. PICK K \in SUBSET Nodes : Awaits(s, <<>>, TRUE, K)
  BY DEF Gathered
<1> DEFINE U == Below(drive, s.root)
           S == {n \in Nodes : n \in K \intersect U => s.tree[n] = drive[n]}
<1>3. Queued(<<>>) = {}
  BY DEF Queued
<1>4. ClosedBelow(drive, s.root, S)
  <2>1. SUFFICES ASSUME NEW n \in K \intersect U, drive[n] = s.root \/ drive[n] \in S
                 PROVE  s.tree[n] = drive[n]
    BY DEF ClosedBelow
  <2>2. /\ drive[n] = s.root \/ drive[n] \in K
        /\ s.tree[n] = drive[n] \/ (drive[n] \in Dirs /\ s.tree[drive[n]] = NoNode)
    BY <1>2, <1>3 DEF Awaits
  <2>3. CASE drive[n] = s.root
    BY <1>1, <2>2, <2>3 DEF Nodes
  <2>4. CASE drive[n] # s.root
    <3>1. drive[n] \in K \intersect U
      BY <1>1, <2>2, <2>4, HereParent
    <3>2. s.tree[drive[n]] = drive[drive[n]] /\ drive[drive[n]] # NoNode
      BY <1>1, <2>1, <2>4, <3>1, HereParent
    <3>3. QED BY <2>2, <3>2
  <2>5. QED BY <2>3, <2>4
<1>5. U \subseteq S
  <2>1. S \in SUBSET Nodes
    OBVIOUS
  <2>2. QED BY <1>4, <2>1 DEF Below
<1>6. \A n \in Nodes \ Since(s.token) : n \in U => s.tree[n] = drive[n]
  BY <1>2, <1>5 DEF Awaits
<1>7. QED BY <1>6 DEF UpToDate, Agrees, Gathered

\* One more listing: what is really in the folder is recorded, and the folders
\* in it are queued.
LEMMA StillGathered ==
  ASSUME TypeOK, Computed, NEW c \in Calls, ListFolder(c),
         Gathered(work[c].fresh, work[c].queue, TRUE)
  PROVE  Gathered(work'[c].fresh, work'[c].queue, TRUE)
<1> DEFINE s        == work[c].fresh
           queue    == work[c].queue
           parent   == Head(queue)
           children == {n \in Nodes : Reported(n) = parent}
           inner    == children \intersect Dirs
           listed   == WithChildren(s.tree, children, parent)
           U        == Below(drive, s.root)
<1>1. PICK order \in [1..Cardinality(inner) -> inner] :
        /\ \A d \in inner : \E i \in DOMAIN order : order[i] = d
        /\ work' = [work EXCEPT ![c].queue = Tail(queue) \o order,
                                ![c].fresh.tree = listed]
  BY DEF ListFolder, WithChildren
<1>2. /\ s \in SyncStates /\ queue \in Seq(Dirs \union Roots) /\ queue # <<>>
      /\ work \in [Calls -> Locals] /\ drive \in [Nodes -> Parents]
  BY DEF ListFolder, TypeOK, Computed, Locals
<1>3. /\ s.root \in Roots /\ s.tree \in Trees
      /\ parent \in Dirs \union Roots /\ parent # Gone /\ parent # NoNode
  BY <1>2, TreeAssumption DEF SyncStates, Nodes
<1>4. /\ work'[c].queue = Tail(queue) \o order
      /\ work'[c].fresh.tree = listed /\ work'[c].fresh.root = s.root
      /\ work'[c].fresh.token = s.token
  <2>1. work[c] \in Locals
    BY <1>2
  <2>2. work'[c] = [work[c] EXCEPT !.queue = Tail(queue) \o order, !.fresh.tree = listed]
    BY <1>1, <1>2
  <2>3. work'[c].queue = Tail(queue) \o order
        /\ work'[c].fresh = [s EXCEPT !.tree = listed]
    BY <2>1, <2>2 DEF Locals
  <2>4. QED BY <1>2, <2>3 DEF SyncStates
<1>5. Queued(Tail(queue) \o order) = Queued(Tail(queue)) \union inner
      /\ Queued(queue) = {parent} \union Queued(Tail(queue))
  <2>1. Cardinality(inner) \in Nat
    BY TreeAssumption, FS_Subset, FS_CardinalityType
  <2> HIDE DEF queue, inner, parent
  <2>2. Tail(queue) \in Seq(Dirs \union Roots) /\ Len(queue) \in Nat /\ Len(queue) # 0
        /\ Len(Tail(queue)) = Len(queue) - 1 /\ queue[1] = Head(queue)
        /\ \A i \in 1 .. Len(queue) - 1 : Tail(queue)[i] = queue[i + 1]
    BY <1>2
  <2>3. order \in Seq(inner) /\ Len(order) = Cardinality(inner)
        /\ DOMAIN order = 1 .. Cardinality(inner)
    BY <2>1
  <2>4. inner = {order[k] : k \in 1 .. Len(order)}
    <3>1. \A i \in 1 .. Len(order) : order[i] \in inner
      BY <2>3
    <3>2. QED BY <1>1, <2>3, <3>1 DEF inner, parent
  <2> DEFINE t == Tail(queue)
             q == t \o order
  <2>5. /\ Len(t) \in Nat /\ Len(order) \in Nat /\ Len(q) = Len(t) + Len(order)
        /\ \A i \in 1 .. Len(t) : q[i] = t[i]
        /\ \A i \in 1 .. Len(order) : q[Len(t) + i] = order[i]
    BY <2>2, <2>3
  <2> HIDE DEF t, q
  <2>6. Queued(q) = Queued(t) \union {order[k] : k \in 1 .. Len(order)}
    <3>1. ASSUME NEW x \in Queued(q) PROVE x \in Queued(t) \union {order[k] : k \in 1 .. Len(order)}
      <4>1. PICK i \in 1 .. Len(q) : x = q[i]
        BY DEF Queued
      <4>2. CASE i <= Len(t)
        BY <2>5, <4>1, <4>2 DEF Queued
      <4>3. CASE ~(i <= Len(t))
        <5>1. i - Len(t) \in 1 .. Len(order) /\ i = Len(t) + (i - Len(t))
          BY <2>5, <4>3
        <5>2. q[i] = order[i - Len(t)]
          BY <2>5, <5>1
        <5>3. QED BY <4>1, <5>1, <5>2
      <4>4. QED BY <4>2, <4>3
    <3>2. \A i \in 1 .. Len(t) : i \in 1 .. Len(q)
      BY <2>5
    <3>3. \A i \in 1 .. Len(order) : Len(t) + i \in 1 .. Len(q)
      BY <2>5
    <3>4. Queued(t) \subseteq Queued(q)
      BY <2>5, <3>2 DEF Queued
    <3>5. {order[k] : k \in 1 .. Len(order)} \subseteq Queued(q)
      BY <2>5, <3>3 DEF Queued
    <3>6. QED BY <3>1, <3>4, <3>5
  <2>7. Queued(queue) = {parent} \union Queued(t)
    <3>1. ASSUME NEW x \in Queued(queue) PROVE x \in {parent} \union Queued(t)
      <4>1. PICK i \in 1 .. Len(queue) : x = queue[i]
        BY DEF Queued
      <4>2. CASE i = 1
        BY <2>2, <4>1, <4>2 DEF parent
      <4>3. CASE i # 1
        <5>1. i - 1 \in 1 .. Len(t) /\ t[i - 1] = queue[i]
          BY <2>2, <4>3 DEF t
        <5>2. QED BY <4>1, <5>1 DEF Queued
      <4>4. QED BY <4>2, <4>3
    <3>2. parent \in Queued(queue)
      <4>1. 1 \in 1 .. Len(queue) /\ parent = queue[1]
        BY <2>2 DEF parent
      <4>2. QED BY <4>1 DEF Queued
    <3>3. \A i \in 1 .. Len(t) : i + 1 \in 1 .. Len(queue) /\ t[i] = queue[i + 1]
      BY <2>2 DEF t
    <3>4. Queued(t) \subseteq Queued(queue)
      BY <3>3 DEF Queued
    <3>5. QED BY <3>1, <3>2, <3>4
  <2>8. QED BY <2>4, <2>6, <2>7 DEF t, q
<1>6. /\ \A n \in Nodes : listed[n] = IF n \in children THEN parent ELSE s.tree[n]
      /\ \A n \in children : drive[n] = parent
      /\ \A n \in U : drive[n] = parent => n \in children
  <2>1. \A n \in Nodes : listed[n] = IF n \in children THEN parent ELSE s.tree[n]
    BY DEF WithChildren
  <2>2. \A n \in children : drive[n] = parent
    BY <1>3 DEF Reported
  <2>3. \A n \in U : n \in Nodes /\ n \in Alive
    BY <1>3, BelowClosed DEF Alive
  <2>4. QED BY <2>1, <2>2, <2>3 DEF Reported
<1>7. parent = s.root \/ (parent \in Dirs /\ s.tree[parent] # NoNode)
  BY <1>5 DEF Gathered
<1>8. children \subseteq Nodes /\ inner = children \intersect Dirs
      /\ U \subseteq Nodes /\ Dirs \subseteq Nodes /\ s.root \notin Nodes
      /\ \A n \in U : drive[n] # NoNode /\ (drive[n] = s.root \/ drive[n] \in Dirs \intersect U)
  BY <1>2, <1>3, BelowClosed, HereParent, TreeAssumption DEF Nodes
<1> HIDE DEF listed, children, inner, parent
<1>9. \A n \in Nodes : s.tree[n] # NoNode => listed[n] # NoNode
  BY <1>3, <1>6
<1>10. \A n \in Nodes \ Since(s.token) : listed[n] \in {NoNode, drive[n]}
  BY <1>6 DEF Gathered
<1>11. FoldersHold(listed, drive, s.root)
  <2>1. ASSUME NEW p \in Dirs \intersect U
        PROVE  /\ listed[p] \in {NoNode, drive[p]}
               /\ listed[p] # NoNode => drive[p] = s.root \/ listed[drive[p]] # NoNode
    <3>1. p \in Nodes /\ (drive[p] = s.root \/ drive[p] \in Nodes)
      BY <1>8
    <3>2. CASE p \in children
      BY <1>6, <1>7, <1>9, <3>1, <3>2
    <3>3. CASE p \notin children
      BY <1>6, <1>9, <3>1, <3>3 DEF Gathered, FoldersHold
    <3>4. QED BY <3>2, <3>3
  <2>2. QED BY <2>1 DEF FoldersHold
<1>12. \A q \in Queued(Tail(queue) \o order) :
         q = s.root \/ (q \in Dirs /\ listed[q] # NoNode)
  <2>1. \A q \in inner : q \in Dirs /\ listed[q] # NoNode
    BY <1>3, <1>6, <1>8
  <2>2. \A q \in Queued(Tail(queue)) : q = s.root \/ (q \in Dirs /\ s.tree[q] # NoNode)
    BY <1>5 DEF Gathered
  <2>3. QED BY <1>5, <1>8, <1>9, <2>1, <2>2
<1>13. PICK K \in SUBSET Nodes : Awaits(s, queue, TRUE, K)
  BY DEF Gathered
<1>14. ASSUME NEW n \in K \intersect U
       PROVE  /\ drive[n] = s.root \/ drive[n] \in K
              /\ \/ listed[n] = drive[n]
                 \/ drive[n] \in Queued(Tail(queue) \o order)
                 \/ drive[n] \in Dirs /\ listed[drive[n]] = NoNode
  <2>1. /\ drive[n] = s.root \/ drive[n] \in K
        /\ \/ s.tree[n] = drive[n]
           \/ drive[n] \in Queued(queue)
           \/ drive[n] \in Dirs /\ s.tree[drive[n]] = NoNode
    BY <1>13 DEF Awaits
  <2>2. CASE s.tree[n] = drive[n]
    BY <1>6, <1>8, <2>1, <2>2
  <2>3. CASE drive[n] \in Queued(queue)
    BY <1>5, <1>6, <1>8, <2>1, <2>3
  <2>4. CASE drive[n] \in Dirs /\ s.tree[drive[n]] = NoNode
    BY <1>5, <1>6, <1>8, <2>1, <2>4
  <2>5. QED BY <2>1, <2>2, <2>3, <2>4
<1>15. Awaits(work'[c].fresh, work'[c].queue, TRUE, K)
  BY <1>4, <1>13, <1>14 DEF Awaits
<1>16. QED BY <1>4, <1>10, <1>11, <1>12, <1>15 DEF Gathered

\* A file is listed once, with its latest change: as many changes as files at
\* most, so that a page that holds them all is the only one.
LEMMA OnePage ==
  ASSUME TypeOK, NEW token \in Nat
  PROVE  /\ IsFiniteSet(Listed(token))
         /\ Cardinality(Listed(token)) \in Nat
         /\ Cardinality(Listed(token)) <= Cardinality(Nodes)
<1> DEFINE L  == Listed(token)
           at == [i \in L |-> log[i]]
<1>1. Len(log) \in Nat /\ L \subseteq 1 .. Len(log)
  BY DEF TypeOK, Listed
<1>2. at \in [L -> Nodes]
  BY <1>1 DEF TypeOK
<1>3. ASSUME NEW i \in L, NEW j \in L, at[i] = at[j] PROVE i = j
  <2>1. i \in Nat /\ j \in Nat
    BY <1>1
  <2>2. log[i] = log[j]
    BY <1>3
  <2>3. ~(i < j) /\ ~(j < i)
    BY <1>1, <2>1, <2>2 DEF Listed
  <2>4. QED BY <2>1, <2>3
<1>4. at \in Injection(L, Nodes)
  BY <1>2, <1>3, Fun_IsInj
<1>5. IsFiniteSet(Nodes)
  BY TreeAssumption
<1>6. IsFiniteSet(L) /\ Cardinality(L) <= Cardinality(Nodes)
  BY <1>4, <1>5, FS_Injection
<1>7. QED BY <1>6, FS_CardinalityType

\* What is listed after a token are the nodes with a change since, ...
LEMMA ListedSince ==
  ASSUME TypeOK, NEW token \in Nat
  PROVE  Ids(Entries(Listed(token))) = Since(token)
<1>1. Len(log) \in Nat
  BY DEF TypeOK
<1>2. Ids(Entries(Listed(token))) \subseteq Since(token)
  BY DEF Ids, Entries, Listed, Since
<1>3. ASSUME NEW n \in Since(token) PROVE n \in Ids(Entries(Listed(token)))
  <2> DEFINE S   == {j \in token + 1 .. Len(log) : log[j] = n}
             key == [j \in S |-> j]
  <2>1. S # {} /\ IsFiniteSet(S) /\ key \in [S -> Int]
    <3>1. IsFiniteSet(token + 1 .. Len(log))
      BY <1>1, FS_Interval
    <3>2. IsFiniteSet(S)
      BY <3>1, FS_Subset
    <3>3. QED BY <1>1, <3>2 DEF Since
  <2>2. \E i \in S : \A j \in S : key[j] <= key[i]
    <3> HIDE DEF S, key
    <3>1. QED BY <2>1, HasTop
  <2>3. PICK i \in S : \A j \in S : j <= i
    BY <2>2
  <2>4. i \in Listed(token) /\ log[i] = n
    BY <1>1, <2>3 DEF Listed
  <2> DEFINE entry == [at |-> i, id |-> log[i], parent |-> Reported(log[i])]
  <2>5. entry \in Entries(Listed(token)) /\ entry.id = n
    BY <2>4 DEF Entries
  <2> HIDE DEF entry
  <2>6. QED BY <2>5 DEF Ids
<1>4. QED BY <1>2, <1>3

\* ... and each is said to be where it is, or to be gone when it is not below
\* the root.
LEMMA FeedTells ==
  ASSUME TypeOK, NEW token \in Nat, NEW root \in Roots
  PROVE  /\ Entries(Listed(token)) \in SUBSET Changes
         /\ IsFiniteSet(Entries(Listed(token)))
         /\ Tells(Entries(Listed(token)), drive, root)
<1> DEFINE L == Listed(token)
           E == Entries(L)
           f == [i \in L |-> [at |-> i, id |-> log[i], parent |-> Reported(log[i])]]
<1>1. Len(log) \in Nat /\ L \subseteq 1 .. Len(log)
  BY DEF TypeOK, Listed
<1>2. \A n \in Nodes : Reported(n) \in Parents /\ Reported(n) \in {Gone, drive[n]}
  BY DEF Reported, TypeOK, Parents
<1>3. \A i \in L : i \in Nat /\ log[i] \in Nodes
  BY <1>1 DEF TypeOK
<1>4. E \in SUBSET Changes
  BY <1>2, <1>3 DEF Entries, Changes
<1>5. f \in Surjection(L, E)
  <2>1. f \in [L -> E]
    BY DEF Entries
  <2>2. \A e \in E : \E i \in L : f[i] = e
    BY DEF Entries
  <2> HIDE DEF f, L, E
  <2>3. QED BY <2>1, <2>2, Fun_IsSurj
<1>6. IsFiniteSet(L)
  BY OnePage
<1>7. IsFiniteSet(E)
  <2> HIDE DEF f, L, E
  <2>1. QED BY <1>5, <1>6, FS_Surjection
<1>8. \A n \in Below(drive, root) : Reported(n) = drive[n]
  BY DEF Reported, Alive
<1>9. Tells(E, drive, root)
  <2>1. ASSUME NEW e \in E
        PROVE  /\ e.parent \in {Gone, drive[e.id]}
               /\ e.id \in Below(drive, root) => e.parent = drive[e.id]
    <3>1. PICK i \in L : e = [at |-> i, id |-> log[i], parent |-> Reported(log[i])]
      BY DEF Entries
    <3>2. e.id = log[i] /\ e.parent = Reported(log[i])
      BY <3>1
    <3>3. QED BY <1>2, <1>3, <1>8, <3>2
  <2> HIDE DEF E
  <2>2. QED BY <2>1 DEF Tells
<1>10. QED BY <1>4, <1>7, <1>9

\* So whatever a state has missed, one poll makes up for.
LEMMA PollMakesUp ==
  ASSUME TypeOK, NEW s \in SyncStates, UpToDate(s)
  PROVE  ApplyChanges(s.tree, s.root, Entries(Listed(s.token))) = Really(drive, s.root)
<1>1. s.token \in Nat /\ s.root \in Roots /\ s.tree \in Trees /\ drive \in [Nodes -> Parents]
  BY SyncAssumption DEF SyncStates, Tokens, TypeOK
<1> DEFINE E == Entries(Listed(s.token))
<1>2. Agrees(s.tree, drive, s.root, Ids(E))
  BY <1>1, ListedSince DEF UpToDate
<1>3. E \in SUBSET Changes /\ IsFiniteSet(E) /\ Tells(E, drive, s.root)
  BY <1>1, FeedTells
<1> HIDE DEF E
<1>4. ApplyChanges(s.tree, s.root, E) = Really(drive, s.root)
  BY <1>1, <1>2, <1>3, FeedCatchesUp
<1>5. QED BY <1>4 DEF E

\* Drive's own tree needs no change to make up for anything.
LEMMA ReallyAgrees ==
  ASSUME TypeOK, NEW root \in Roots, NEW C
  PROVE  Agrees(Really(drive, root), drive, root, C)
<1> DEFINE U == Below(drive, root)
           t == Really(drive, root)
<1>1. drive \in [Nodes -> Parents]
  BY DEF TypeOK
<1>2. \A n \in Nodes : t[n] = IF n \in U THEN drive[n] ELSE NoNode
  BY DEF Really
<1>3. \A n \in U : /\ n \in Nodes /\ drive[n] # NoNode
                   /\ drive[n] = root \/ drive[n] \in U
  BY <1>1, HereParent
<1> HIDE DEF t
<1>4. FoldersHold(t, drive, root)
  BY <1>2, <1>3 DEF FoldersHold
<1>5. QED BY <1>2, <1>4 DEF Agrees, t

\* What each call has in hand, where it is.
InHand(place, w) ==
  /\ place \in Before => w.batch = {}
  /\ place = "poll" => w.batch = {} /\ w.cursor = w.loaded.token
  /\ place = "name" => Gathered(w.fresh, <<>>, FALSE)
  /\ place = "walk" => Gathered(w.fresh, w.queue, TRUE)
  /\ place \in Saving => UpToDate(w.fresh)

\* The invariant: what is stored is up to date but for changes the feed still
\* has, and so is, or will be, what a call is computing.
Kept ==
  /\ file \in SyncStates => UpToDate(file)
  /\ \A c \in Calls : InHand(pc[c], work[c])

\* A poll that takes everything in one page ends up with Drive's own tree.
LEMMA PollKeeps ==
  ASSUME IInv, Kept, NEW c \in Calls, PollLast(c)
  PROVE  UpToDate(work'[c].fresh)
<1>1. /\ TypeOK /\ pc[c] = "poll" /\ work[c].loaded = file /\ file \in SyncStates
      /\ work[c].batch = {} /\ work[c].cursor = file.token
  BY DEF IInv, LoadedIsCurrent, Computed, PollLast, Goto, Kept, InHand
<1>2. Drained(c, Listed(work[c].cursor)) = Entries(Listed(file.token))
  BY <1>1 DEF Drained
<1>3. PICK token \in {Len(log), file.token} :
        work' = [work EXCEPT ![c].batch = {}, ![c].cursor = 0,
                             ![c].fresh = Delta(c, Entries(Listed(file.token)), token)]
  BY <1>1, <1>2 DEF PollLast
<1>4. work'[c].fresh = Delta(c, Entries(Listed(file.token)), token)
  BY <1>1, <1>3 DEF TypeOK, Locals
<1>5. /\ work'[c].fresh.root = file.root
      /\ work'[c].fresh.tree = ApplyChanges(file.tree, file.root, Entries(Listed(file.token)))
  BY <1>1, <1>4 DEF Delta
<1>6. work'[c].fresh.tree = Really(drive, file.root)
  BY <1>1, <1>5, PollMakesUp DEF Kept
<1>7. file.root \in Roots
  BY <1>1 DEF SyncStates
<1>8. QED BY <1>1, <1>5, <1>6, <1>7, ReallyAgrees DEF UpToDate

\* Every file on one page: no second page is ever asked for.
LEMMA NoSecondPage ==
  ASSUME TypeOK, Cardinality(Nodes) <= PageSize, NEW c \in Calls
  PROVE  ~PollPage(c)
<1>1. work[c].cursor \in Nat
  BY SyncAssumption DEF TypeOK, Locals, Tokens
<1>2. Cardinality(Nodes) \in Nat /\ PageSize \in Nat
  BY TreeAssumption, SyncAssumption, FS_CardinalityType
<1>3. ~(Cardinality(Listed(work[c].cursor)) > PageSize)
  BY <1>1, <1>2, OnePage
<1>4. QED BY <1>3 DEF PollPage

\* The steps of the call itself.
LEMMA OwnKept ==
  ASSUME Cardinality(Nodes) <= PageSize, IInv, WalkScoped, Kept,
         NEW c \in Calls, CallNext(c)
  PROVE  InHand(pc'[c], work'[c])
<1> USE DEF Goto, Return
<1>0. /\ TypeOK /\ Computed /\ work \in [Calls -> Locals] /\ work[c] \in Locals
      /\ pc \in [Calls -> Before \union Holding]
      /\ InHand(pc[c], work[c])
  BY DEF IInv, TypeOK, Kept
<1>1. CASE Arrive(c) \/ Acquire(c) \/ Refuse(c) \/ Lose(c) \/ Deliver(c)
  BY <1>0, <1>1 DEF Arrive, Acquire, Refuse, Lose, Deliver, InHand
<1>2. CASE Load(c)
  <2>1. CASE pc'[c] = "token"
    BY <2>1 DEF InHand
  <2>2. CASE pc'[c] # "token"
    <3>1. /\ pc[c] = "load" /\ pc'[c] = "poll"
          /\ work' = [work EXCEPT ![c].loaded = file, ![c].cursor = file.token]
      BY <1>0, <1>2, <2>2 DEF Load
    <3>2. work'[c].batch = work[c].batch /\ work'[c].cursor = file.token
          /\ work'[c].loaded = file
      BY <1>0, <3>1 DEF Locals
    <3>3. QED BY <1>0, <3>1, <3>2 DEF InHand
  <2>3. QED BY <2>1, <2>2
<1>3. CASE PollStale(c)
  BY <1>0, <1>3 DEF PollStale, InHand
<1>4. CASE PollPage(c)
  BY <1>0, <1>4, NoSecondPage
<1>5. CASE PollLast(c)
  <2>1. pc'[c] = "create"
    BY <1>0, <1>5 DEF PollLast
  <2>2. QED BY <1>5, <2>1, PollKeeps DEF InHand
<1>6. CASE StartPageToken(c)
  <2>1. /\ pc'[c] = "name"
        /\ work'[c].fresh = [root |-> folder, token |-> Len(log),
                             tree |-> EmptyTree, via |-> "walk"]
    BY <1>0, <1>6 DEF StartPageToken, Locals
  <2>2. work'[c].fresh \in SyncStates /\ work'[c].fresh.tree = EmptyTree
    BY <1>0, <2>1 DEF TypeOK, SyncStates, EmptyTree, Trees
  <2>3. QED BY <1>0, <2>1, <2>2, GatheringBegins DEF InHand
<1>7. CASE RootFolderName(c)
  <2>1. /\ pc[c] = "name" /\ pc'[c] = "walk" /\ work'[c].fresh = work[c].fresh
        /\ work'[c].queue = <<work[c].fresh.root>>
    BY <1>0, <1>7 DEF RootFolderName, Locals
  <2>2. Gathered(work[c].fresh, <<>>, FALSE)
    BY <1>0, <2>1 DEF InHand
  <2>3. work[c].fresh.tree = EmptyTree
    BY <1>0, <2>1 DEF WalkScoped, Computed
  <2>4. QED BY <2>1, <2>2, <2>3, GatheringStarts DEF InHand
<1>8. CASE ListFolder(c)
  <2>1. pc[c] = "walk" /\ pc'[c] = "walk"
    BY <1>0, <1>8 DEF ListFolder
  <2>2. Gathered(work[c].fresh, work[c].queue, TRUE)
    BY <1>0, <2>1 DEF InHand
  <2>3. QED BY <1>0, <1>8, <2>1, <2>2, StillGathered DEF InHand
<1>9. CASE WalkDone(c)
  <2>1. pc[c] = "walk" /\ pc'[c] = "create" /\ work' = work /\ work[c].queue = <<>>
    BY <1>0, <1>9 DEF WalkDone
  <2>2. Gathered(work[c].fresh, <<>>, TRUE) /\ work[c].fresh \in SyncStates
    BY <1>0, <2>1 DEF InHand, Computed
  <2>3. QED BY <1>0, <2>1, <2>2, GatheringEnds DEF InHand
<1>10. CASE CreateTmp(c) \/ WriteTmp(c) \/ RenameTmp(c) \/ Fail(c)
  <2>1. \/ pc'[c] = "reply" /\ work'[c] = Idle
        \/ pc[c] \in Saving /\ pc'[c] \in Saving /\ work'[c] = work[c]
    BY <1>0, <1>10 DEF CreateTmp, WriteTmp, RenameTmp, Fail
  <2>2. InHand("reply", Idle)
    BY DEF InHand, Idle
  <2>3. QED BY <1>0, <2>1, <2>2 DEF InHand
<1>11. QED BY <1>1, <1>2, <1>3, <1>4, <1>5, <1>6, <1>7, <1>8, <1>9, <1>10
         DEF CallNext, Step

\* Drive's steps leave what each call has in hand as good as it was.
LEMMA DriveKeeps ==
  ASSUME ~MoveDirs, IInv, Kept, DriveNext, NEW c \in Calls
  PROVE  InHand(pc[c], work[c])'
<1>1. TypeOK /\ Computed /\ Monotone /\ pc' = pc /\ work' = work
  BY DriveStepAlone DEF IInv
<1>2. InHand(pc[c], work[c])
  BY DEF Kept
<1>3. pc[c] \in Fresh => work[c].fresh \in SyncStates /\ work[c].fresh.token <= Len(log)
  BY <1>1 DEF Computed, Monotone
<1>4. pc[c] = "name" => Gathered(work[c].fresh, <<>>, FALSE)'
  BY <1>1, <1>2, <1>3, StaysGathered DEF InHand
<1>5. pc[c] = "walk" => Gathered(work[c].fresh, work[c].queue, TRUE)'
  BY <1>1, <1>2, <1>3, StaysGathered DEF InHand
<1>6. pc[c] \in Saving => UpToDate(work[c].fresh)'
  BY <1>1, <1>2, <1>3, StaysUpToDate DEF InHand
<1>7. QED BY <1>1, <1>2, <1>4, <1>5, <1>6 DEF InHand

\* While Drive stands still, what a call has in hand is as good as before.
LEMMA SameInHand ==
  ASSUME drive' = drive, log' = log, NEW c \in Calls, InHand(pc'[c], work'[c])
  PROVE  InHand(pc[c], work[c])'
<1> DEFINE s == work[c].fresh
           q == work[c].queue
<1>1. UpToDate(s') => UpToDate(s)'
  BY DEF UpToDate, Since
<1>2. \A K \in SUBSET Nodes :
        /\ Awaits(s', <<>>, FALSE, K) => Awaits(s, <<>>, FALSE, K)'
        /\ Awaits(s', q', TRUE, K) => Awaits(s, q, TRUE, K)'
  BY DEF Awaits, Since
<1>3. /\ Gathered(s', <<>>, FALSE) => Gathered(s, <<>>, FALSE)'
      /\ Gathered(s', q', TRUE) => Gathered(s, q, TRUE)'
  <2>1. Since(s'.token) = Since(s.token)'
    BY DEF Since
  <2>2. QED BY <1>2, <2>1 DEF Gathered
<1>4. QED BY <1>1, <1>3 DEF InHand

\* Kept is inductive, along with IInv and WalkScoped.
LEMMA KeptStep ==
  ASSUME ~MoveDirs, Cardinality(Nodes) <= PageSize,
         IInv, WalkScoped, Kept, [Next]_vars
  PROVE  Kept'
<1>0. TypeOK /\ Computed /\ Monotone
  BY DEF IInv
<1>1. CASE DriveNext
  <2>1. file' = file
    BY <1>0, <1>1, DriveStepAlone
  <2>2. file \in SyncStates => UpToDate(file)'
    BY <1>0, <1>1, StaysUpToDate, <2>1 DEF Monotone, Kept
  <2>3. QED BY <1>1, <2>1, <2>2, DriveKeeps DEF Kept
<1>2. ASSUME NEW c \in Calls, CallNext(c)
      PROVE  Kept'
  <2>1. /\ log' = log /\ drive' = drive
        /\ file' = file \/ (pc[c] = "rename" /\ file' = work[c].fresh)
    BY <1>0, <1>2, CallsLeaveDrive, OwnDisk
  <2>3. file' \in SyncStates => UpToDate(file')
    BY <2>1 DEF Kept, InHand
  <2>4. ASSUME NEW d \in Calls PROVE InHand(pc'[d], work'[d])
    <3>1. CASE d = c
      BY <1>2, <3>1, OwnKept
    <3>2. CASE d # c
      BY <1>0, <1>2, <3>2, OwnCall DEF Kept
    <3>3. QED BY <3>1, <3>2
  <2>5. file' \in SyncStates => UpToDate(file)'
    BY <2>1, <2>3 DEF UpToDate, Since
  <2>6. QED BY <2>1, <2>4, <2>5, SameInHand DEF Kept
<1>3. CASE Crash \/ Reconfigure
  <2>1. /\ UNCHANGED <<file, log, drive>>
        /\ \A c \in Calls : pc'[c] = "idle" /\ work'[c] = Idle
    BY <1>3 DEF Crash, Reconfigure, Reset, diskVars, driveVars
  <2>2. \A c \in Calls : InHand(pc'[c], work'[c])
    <3>1. InHand("idle", Idle)
      BY DEF InHand, Idle
    <3>2. QED BY <2>1, <3>1, Zenon
  <2>3. file' \in SyncStates => UpToDate(file)'
    BY <2>1 DEF Kept, UpToDate, Since
  <2>4. QED BY <2>1, <2>2, <2>3, SameInHand DEF Kept
<1>4. CASE UNCHANGED vars
  <2>1. UNCHANGED <<file, log, drive, pc, work>>
    BY <1>4 DEF vars
  <2>2. file' \in SyncStates => UpToDate(file)'
    BY <2>1 DEF Kept, UpToDate, Since
  <2>3. \A c \in Calls : InHand(pc'[c], work'[c])
    BY <2>1 DEF Kept
  <2>4. QED BY <2>1, <2>2, <2>3, SameInHand DEF Kept
<1>5. QED BY <1>1, <1>2, <1>3, <1>4 DEF Next

\* Nothing is stored and nothing in hand before the first step.
LEMMA InitKept == Init => Kept
BY SentinelAssumption DEF Init, Kept, InHand, Idle

\* The token never passes a change the tree is missing: whatever is stored, the
\* feed from its token on makes it Drive's own tree, however calls, walks,
\* polls, failures and Drive's own steps interleave.  It holds where a folder
\* is only put while nothing is in it, and stays where it is until it is
\* trashed, and one page holds the whole feed.  Neither condition can be
\* dropped: drive_reorder loses a change between two pages, and drive_moved
\* the content of a folder that was moved into the root.
THEOREM ChangesKept ==
  ASSUME ~MoveDirs, Cardinality(Nodes) <= PageSize
  PROVE  Spec => []NoLostChange
<1>1. IInv /\ WalkScoped /\ Kept /\ [Next]_vars => Kept'
  BY KeptStep
<1>2. IInv /\ Kept => NoLostChange
  <2>1. SUFFICES ASSUME IInv, Kept, file \in SyncStates
                 PROVE  ApplyChanges(file.tree, file.root, Entries(Listed(file.token)))
                          = DriveUnder(file.root)
    BY DEF NoLostChange
  <2>2. TypeOK /\ UpToDate(file)
    BY <2>1 DEF IInv, Kept
  <2>3. DriveUnder(file.root) = Really(drive, file.root)
    BY DEF DriveUnder, Really
  <2>4. QED BY <2>1, <2>2, <2>3, PollMakesUp
<1>3. QED BY <1>1, <1>2, InitKept, Invariance, WalkInvariance, PTL DEF Spec
=============================================================================
