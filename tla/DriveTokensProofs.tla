--------------------------- MODULE DriveTokensProofs ---------------------------
(***************************************************************************)
(* Proofs about DriveTokens, for any number of handlers and every bound:   *)
(* IInv is inductive, so token.json is never a torn file and persisting-   *)
(* TokenSource never takes a token for saved that a new process would not  *)
(* find.                                                                   *)
(***************************************************************************)
EXTENDS DriveTokens, TLAPS

USE CallsAssumption, SentinelAssumption
USE DEF Writers, Saving, Holding, Fault, GoTo, Answer, Stale, Grant
USE DEF google, disk, process, WholeFile, AuthEnds

-----------------------------------------------------------------------------
(* Google, the operator and the kills *)

\* A consent gives `auth` a token newer than anything held or stored.
LEMMA ExchangeKeeps ==
  ASSUME IInv, Exchange
  PROVE  IInv'
<1>1. issued \in Nat /\ issued' = issued + 1 /\ issued' \in Nat
  BY DEF IInv, TypeOK, Exchange
<1>2. tok' = [tok EXCEPT ![Auth] =
                [access |-> issued', refresh |-> issued', grant |-> issued']]
  BY <1>1 DEF Exchange
<1>3. [access |-> issued', refresh |-> issued', grant |-> issued'] \in Tokens
  BY <1>1 DEF Tokens
<1>4. TypeOK'
  <2>1. live' \subseteq Nat
    BY <1>1 DEF IInv, TypeOK, Exchange
  <2>2. tok' \in [Writers -> Tokens \cup {NoToken}]
    BY <1>2, <1>3 DEF IInv, TypeOK
  <2>3. QED BY <1>1, <2>1, <2>2 DEF IInv, TypeOK, Locations, Exchange
<1>5. Places'
  BY <1>2, <1>3 DEF IInv, TypeOK, Places, Exchange
<1>6. Exclusive'
  BY DEF IInv, TypeOK, Exclusive, Exchange
<1>7. Lineage'
  BY DEF IInv, TypeOK, Places, Lineage, Tokens, Exchange
<1>8. LastIsDurable'
  BY DEF IInv, LastIsDurable, Exchange
<1>9. QED BY <1>4, <1>5, <1>6, <1>7, <1>8 DEF IInv

\* The rest of the world never touches a writer's token.
LEMMA WorldKeeps ==
  ASSUME IInv,
         \/ Expire \/ Revoke \/ Deadline \/ RunAuth \/ ConsentFails
         \/ KillPlugin \/ KillAuth
  PROVE  IInv'
<1> USE DEF IInv, TypeOK, Places, Exclusive, Lineage, LastIsDurable, Locations, Answers
<1>1. CASE Expire       BY <1>1 DEF Expire
<1>2. CASE Revoke       BY <1>2 DEF Revoke
<1>3. CASE Deadline     BY <1>3 DEF Deadline
<1>4. CASE RunAuth      BY <1>4 DEF RunAuth
<1>5. CASE ConsentFails BY <1>5 DEF ConsentFails
<1>6. CASE KillPlugin   BY <1>6 DEF KillPlugin
<1>7. CASE KillAuth     BY <1>7 DEF KillAuth
<1>8. QED BY <1>1, <1>2, <1>3, <1>4, <1>5, <1>6, <1>7

-----------------------------------------------------------------------------
(* A handler on its way to a token *)

\* The steps that only move a handler, or answer it.
LEMMA MoveKeeps ==
  ASSUME IInv, NEW c \in Calls,
         \/ Arrive(c) \/ Return(c) \/ Request(c)
         \/ ResolveFails(c) \/ ResolveAgain(c) \/ ResolveFailsAgain(c)
         \/ RefreshRefused(c) \/ RefreshCancelled(c) \/ Unchanged(c) \/ Lock(c)
  PROVE  IInv'
<1> USE DEF IInv, TypeOK, Places, Exclusive, Lineage, LastIsDurable, Locations, Answers
<1>1. CASE Arrive(c)            BY <1>1 DEF Arrive
<1>2. CASE Return(c)            BY <1>2 DEF Return
<1>3. CASE Request(c)           BY <1>3 DEF Request
<1>4. CASE ResolveFails(c)      BY <1>4 DEF ResolveFails
<1>5. CASE ResolveAgain(c)      BY <1>5 DEF ResolveAgain
<1>6. CASE ResolveFailsAgain(c) BY <1>6 DEF ResolveFailsAgain
<1>7. CASE RefreshRefused(c)    BY <1>7 DEF RefreshRefused
<1>8. CASE RefreshCancelled(c)  BY <1>8 DEF RefreshCancelled
<1>9. CASE Unchanged(c)         BY <1>9 DEF Unchanged
<1>10. CASE Lock(c)             BY <1>10 DEF Lock
<1>11. QED
  BY <1>1, <1>2, <1>3, <1>4, <1>5, <1>6, <1>7, <1>8, <1>9, <1>10

\* The once-only load: no handler holds a token yet, and `auth` a newer one.
LEMMA LoadKeeps ==
  ASSUME IInv, NEW c \in Calls, ResolveLoads(c)
  PROVE  IInv'
<1>1. TypeOK'
  BY DEF IInv, TypeOK, Locations, ResolveLoads
<1>2. Places'
  BY DEF IInv, TypeOK, Places, ResolveLoads
<1>3. Exclusive'
  BY DEF IInv, TypeOK, Exclusive, ResolveLoads
<1>4. Lineage'
  BY DEF IInv, TypeOK, Places, Lineage, Tokens, ResolveLoads
<1>5. LastIsDurable'
  BY DEF IInv, TypeOK, Places, Lineage, LastIsDurable, ResolveLoads
<1>6. QED BY <1>1, <1>2, <1>3, <1>4, <1>5 DEF IInv

\* A handler takes the cached token.
LEMMA CachedKeeps ==
  ASSUME IInv, NEW c \in Calls, Cached(c)
  PROVE  IInv'
<1>1. TypeOK'
  BY DEF IInv, TypeOK, Places, Locations, Cached
<1>2. Places'
  BY DEF IInv, TypeOK, Places, Cached
<1>3. Exclusive'
  BY DEF IInv, TypeOK, Exclusive, Cached
<1>4. Lineage'
  BY DEF IInv, TypeOK, Places, Lineage, Tokens, Cached
<1>5. LastIsDurable'
  BY DEF IInv, LastIsDurable, Cached
<1>6. QED BY <1>1, <1>2, <1>3, <1>4, <1>5 DEF IInv

\* A refresh makes a token newer than every other, of the same consent.
LEMMA RefreshKeeps ==
  ASSUME IInv, NEW c \in Calls, Refresh(c)
  PROVE  IInv'
<1>1. issued \in Nat /\ mem \in Tokens /\ issued' = issued + 1
  BY DEF IInv, TypeOK, Places, Refresh
<1>2. live' \subseteq Nat
  BY <1>1 DEF IInv, TypeOK, Refresh
<1>3. mem' \in Tokens /\ mem'.access = issued + 1 /\ mem'.grant = mem.grant
  BY <1>1 DEF Refresh, Tokens
<1>4. tok' = [tok EXCEPT ![c] = mem']
  BY DEF Refresh
<1>5. TypeOK'
  <2>1. tok' \in [Writers -> Tokens \cup {NoToken}]
    BY <1>3, <1>4 DEF IInv, TypeOK
  <2>2. QED BY <1>1, <1>2, <1>3, <2>1 DEF IInv, TypeOK, Locations, Refresh
<1>6. Places'
  BY <1>3, <1>4 DEF IInv, TypeOK, Places, Refresh
<1>7. Exclusive'
  BY DEF IInv, TypeOK, Exclusive, Refresh
<1>8. Lineage'
  BY <1>1, <1>3 DEF IInv, TypeOK, Places, Lineage, Tokens, Refresh
<1>9. LastIsDurable'
  BY <1>1, <1>3 DEF IInv, TypeOK, Lineage, LastIsDurable, Tokens, Refresh
<1>10. QED BY <1>5, <1>6, <1>7, <1>8, <1>9 DEF IInv

\* A lost reply may leave Google further on than the plugin.
LEMMA RefreshLostKeeps ==
  ASSUME IInv, NEW c \in Calls, RefreshLost(c)
  PROVE  IInv'
<1>1. issued \in Nat /\ issued' \in {issued, issued + 1} /\ issued' \in Nat
  BY DEF IInv, TypeOK, RefreshLost
<1>2. live' \subseteq live \cup {issued + 1}
  BY DEF RefreshLost
<1>3. TypeOK'
  <2> live' \subseteq Nat
    BY <1>1, <1>2 DEF IInv, TypeOK
  <2>1. expired' \in Nat /\ consents' \in Nat /\ faults' \in Nat
    BY DEF IInv, TypeOK, RefreshLost
  <2>2. tok' \in [Writers -> Tokens \cup {NoToken}]
    BY DEF IInv, TypeOK, RefreshLost
  <2>3. pc' \in [Writers -> Locations] /\ answer' \in [Calls -> Answers \cup {NoReply}]
    BY DEF IInv, TypeOK, Locations, Answers, RefreshLost
  <2>4. QED BY <1>1, <1>2, <2>1, <2>2, <2>3 DEF IInv, TypeOK, RefreshLost
<1>4. Places'
  BY DEF IInv, TypeOK, Places, RefreshLost
<1>5. Exclusive'
  BY DEF IInv, TypeOK, Exclusive, RefreshLost
<1>6. Lineage'
  BY <1>1 DEF IInv, TypeOK, Places, Lineage, Tokens, RefreshLost
<1>7. LastIsDurable'
  BY DEF IInv, LastIsDurable, RefreshLost
<1>8. QED BY <1>3, <1>4, <1>5, <1>6, <1>7 DEF IInv

-----------------------------------------------------------------------------
(* saveToken *)

\* The temporary file can be created only if no writer has it open.
LEMMA CreateKeeps ==
  ASSUME IInv, NEW w \in Writers, CreateTmp(w)
  PROVE  IInv'
<1>1. TypeOK'
  BY DEF IInv, TypeOK, Locations, CreateTmp
<1>2. Places'
  BY DEF IInv, TypeOK, Places, CreateTmp
<1>3. \A v \in Writers : pc[v] \notin {"write", "rename"}
  BY DEF IInv, Places, Exclusive, CreateTmp
<1>4. Exclusive'
  BY <1>3 DEF IInv, TypeOK, Exclusive, CreateTmp
<1>5. Lineage'
  BY DEF IInv, TypeOK, Lineage, CreateTmp
<1>6. LastIsDurable'
  BY DEF IInv, LastIsDurable, CreateTmp
<1>7. QED BY <1>1, <1>2, <1>4, <1>5, <1>6 DEF IInv

\* The writer that has it open fills it with its own token.
LEMMA WriteKeeps ==
  ASSUME IInv, NEW w \in Writers, WriteTmp(w)
  PROVE  IInv'
<1>1. tok[w] \in Tokens
  BY DEF IInv, Places, WriteTmp
<1>2. TypeOK'
  BY <1>1 DEF IInv, TypeOK, Locations, WriteTmp
<1>3. Places'
  BY DEF IInv, TypeOK, Places, WriteTmp
<1>4. Exclusive'
  BY DEF IInv, TypeOK, Exclusive, WriteTmp
<1>5. Lineage'
  BY DEF IInv, TypeOK, Lineage, WriteTmp
<1>6. LastIsDurable'
  BY DEF IInv, LastIsDurable, WriteTmp
<1>7. QED BY <1>2, <1>3, <1>4, <1>5, <1>6 DEF IInv

\* A save that fails leaves token.json and the other writers alone.
LEMMA FailKeeps ==
  ASSUME IInv, NEW w \in Writers, CreateRefused(w) \/ SaveFails(w)
  PROVE  IInv'
<1>1. /\ tmp' \in {tmp, NoFile} /\ (pc[w] = "create" => tmp' = tmp)
      /\ faults' \in Nat
      /\ UNCHANGED <<google, file, source, mem, owner, last>>
      /\ Saving(w)
  BY DEF IInv, TypeOK, CreateRefused, SaveFails, NotSaved
<1>2. tok' = [tok EXCEPT ![w] = NoToken]
  BY DEF CreateRefused, SaveFails, NotSaved
<1>3. \/ /\ w = Auth
         /\ pc' = [pc EXCEPT ![w] = "idle"]
         /\ UNCHANGED <<mu, answer>>
      \/ /\ w \in Calls
         /\ pc' = [pc EXCEPT ![w] = "done"]
         /\ mu' = NoCall
         /\ answer' = [answer EXCEPT ![w] = "unclassified"]
  BY DEF CreateRefused, SaveFails, NotSaved
<1>4. TypeOK'
  BY <1>1, <1>2, <1>3 DEF IInv, TypeOK, Locations, Answers
<1>5. Places'
  BY <1>1, <1>2, <1>3 DEF IInv, TypeOK, Places
<1>6. Exclusive'
  BY <1>1, <1>2, <1>3 DEF IInv, TypeOK, Exclusive
<1>7. Lineage'
  BY <1>1, <1>2, <1>3 DEF IInv, TypeOK, Places, Lineage
<1>8. LastIsDurable'
  BY <1>1 DEF IInv, LastIsDurable
<1>9. QED BY <1>4, <1>5, <1>6, <1>7, <1>8 DEF IInv

\* A rename by `auth` puts a newer consent in place of what was there.
LEMMA RenameAuthKeeps ==
  ASSUME IInv, RenameTmp(Auth)
  PROVE  IInv'
<1>1. tok[Auth] \in Tokens /\ file' = tok[Auth]
  BY DEF IInv, Places, Exclusive, RenameTmp
<1>2. UNCHANGED <<google, faults, process, answer>> /\ tmp' = NoFile
  BY DEF RenameTmp, Saved
<1>3. /\ pc' = [pc EXCEPT ![Auth] = "idle"]
      /\ tok' = [tok EXCEPT ![Auth] = NoToken]
      /\ pc[Auth] = "rename"
  BY DEF RenameTmp, Saved
<1>4. TypeOK'
  BY <1>1, <1>2, <1>3 DEF IInv, TypeOK, Locations
<1>5. Places'
  BY <1>2, <1>3 DEF IInv, TypeOK, Places
<1>6. Exclusive'
  BY <1>1, <1>2, <1>3 DEF IInv, TypeOK, Exclusive
<1>7. Lineage'
  BY <1>1, <1>2, <1>3 DEF IInv, TypeOK, Places, Lineage, Tokens
<1>8. LastIsDurable'
  BY <1>1, <1>2, <1>3 DEF IInv, TypeOK, Places, Lineage, LastIsDurable, Tokens
<1>9. QED BY <1>4, <1>5, <1>6, <1>7, <1>8 DEF IInv

\* A rename by a handler puts in place what `last` then names.
LEMMA RenameCallKeeps ==
  ASSUME IInv, NEW c \in Calls, RenameTmp(c)
  PROVE  IInv'
<1>1. tok[c] \in Tokens /\ file' = tok[c]
  BY DEF IInv, Places, Exclusive, RenameTmp
<1>2. UNCHANGED <<google, faults, source, mem, owner>> /\ tmp' = NoFile
  BY DEF RenameTmp, Saved
<1>3. /\ pc' = [pc EXCEPT ![c] = "done"]
      /\ tok' = [tok EXCEPT ![c] = NoToken]
      /\ answer' = [answer EXCEPT ![c] = "healthy"]
      /\ last' = tok[c].access /\ mu' = NoCall
      /\ pc[c] = "rename"
  BY DEF RenameTmp, Saved
<1>4. TypeOK'
  BY <1>1, <1>2, <1>3 DEF IInv, TypeOK, Locations, Answers, Tokens
<1>5. Places'
  BY <1>2, <1>3 DEF IInv, TypeOK, Places
<1>6. Exclusive'
  BY <1>1, <1>2, <1>3 DEF IInv, TypeOK, Exclusive
<1>7. Lineage'
  BY <1>1, <1>2, <1>3 DEF IInv, TypeOK, Places, Lineage, Tokens
<1>8. LastIsDurable'
  BY <1>1, <1>2, <1>3 DEF IInv, TypeOK, Places, Lineage, LastIsDurable, Tokens
<1>9. QED BY <1>4, <1>5, <1>6, <1>7, <1>8 DEF IInv

-----------------------------------------------------------------------------
(* The theorems *)

\* IInv holds at the start and is kept by every step, whatever the handlers,
\* `auth`, Google and the kills do in between.
THEOREM Invariance == Spec => []IInv
<1>1. Init => IInv
  BY DEF Init, FirstToken, IInv, TypeOK, Places, Exclusive, Lineage, LastIsDurable,
         Tokens, Locations, Answers
<1>2. IInv /\ [Next]_vars => IInv'
  <2> SUFFICES ASSUME IInv, [Next]_vars PROVE IInv'
    OBVIOUS
  <2>1. CASE Expire \/ Revoke \/ Deadline \/ RunAuth \/ ConsentFails
             \/ KillPlugin \/ KillAuth
    BY <2>1, WorldKeeps
  <2>2. CASE Exchange
    BY <2>2, ExchangeKeeps
  <2>3. ASSUME NEW c \in Calls, Call(c) PROVE IInv'
    BY <2>3, MoveKeeps, LoadKeeps, CachedKeeps, RefreshKeeps, RefreshLostKeeps
       DEF Call, Resolve, Mint, Persist
  <2>4. ASSUME NEW w \in Writers, Save(w) PROVE IInv'
    BY <2>4, CreateKeeps, WriteKeeps, FailKeeps, RenameAuthKeeps, RenameCallKeeps
       DEF Save
  <2>5. CASE UNCHANGED vars
    BY <2>5 DEF vars, IInv, TypeOK, Places, Exclusive, Lineage, LastIsDurable
  <2>6. QED BY <2>1, <2>2, <2>3, <2>4, <2>5 DEF Next
<1>3. QED BY <1>1, <1>2, PTL DEF Spec

\* Every variable of the token component keeps its type: plugin.go:143-183's
\* states, token.go's file and the handlers' places.
THEOREM TypeCorrect == Spec => []TypeOK
<1>1. IInv => TypeOK
  BY DEF IInv
<1>2. QED BY <1>1, Invariance, PTL

\* saveToken never leaves a truncated token.json (token.go:66-115).
THEOREM FileIsWhole == Spec => []WholeFile
<1>1. IInv => WholeFile
  BY DEF IInv, Exclusive
<1>2. QED BY <1>1, Invariance, PTL

\* What persistingTokenSource takes for saved is what a new process reads,
\* unless `auth` has put a newer consent there (token.go:175-201).
THEOREM SavedIsDurable == Spec => []LastIsDurable
<1>1. IInv => LastIsDurable
  BY DEF IInv
<1>2. QED BY <1>1, Invariance, PTL
=============================================================================
