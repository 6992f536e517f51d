------------------------------ MODULE DriveTokens ------------------------------
(***************************************************************************)
(* The Drive plugin's OAuth token: token.json, the source that serves and  *)
(* refreshes the access token in one plugin process, the RPC handlers that *)
(* ask it for a token at the same time, and the `auth` command, another    *)
(* process that replaces the file.  Google's token endpoint and the oauth2 *)
(* library's caching source are modelled as the plugin uses them.          *)
(*                                                                         *)
(* A token is the access token's serial number, the serial at which its    *)
(* refresh token was issued, and the serial of the consent both descend    *)
(* from.  Access tokens live equally long, so they expire in order.        *)
(***************************************************************************)
EXTENDS Integers

CONSTANTS
  Calls,         \* RPC handlers of the plugin process
  Auth,          \* the `auth` command
  NoCall,        \* nobody
  NoToken,       \* no token held
  NoFile,        \* nothing at the path
  Malformed,     \* a token.json that does not parse
  Partial,       \* a file created and not yet written
  NoReply,       \* ensureTokenState has not returned
  MaxExpired,    \* bound: access tokens numbered up to this may expire
  MaxConsents,   \* bound: consents given in all
  MaxFaults      \* bound: network and disk failures, kills, revocations

Writers == Calls \cup {Auth}

ASSUME CallsAssumption == Auth \notin Calls /\ NoCall \notin Writers
ASSUME BoundsAssumption ==
  MaxExpired \in Nat /\ MaxConsents \in Nat /\ MaxFaults \in Nat

Tokens == [access : Nat, refresh : Nat, grant : Nat]

ASSUME SentinelAssumption ==
  /\ NoReply \notin {"healthy", "neverAuthorized", "expiredRevoked", "unclassified"}
  /\ {NoToken, NoFile, Malformed, Partial} \cap Tokens = {}
  /\ Partial \notin {NoFile, Malformed} /\ NoFile # Malformed

\* The health states ensureTokenState can answer with.
Answers == {"healthy", "neverAuthorized", "expiredRevoked", "unclassified"}

VARIABLES
  live,      \* refresh tokens Google accepts
  issued,    \* serial of the newest access token
  expired,   \* access tokens up to this one have expired
  consents,  \* consents given so far
  faults,    \* failures so far
  file,      \* token.json
  tmp,       \* token.json.tmp
  source,    \* what tokenSource's sync.Once has decided
  mem,       \* the caching source's token
  owner,     \* the call whose context refreshes run under, while it lives
  last,      \* persistingTokenSource.last; 0 before the first save
  mu,        \* holder of persistingTokenSource.mu
  pc,        \* where each handler, and `auth`, has got to
  tok,       \* the token each one holds
  answer     \* what ensureTokenState told each handler

google == <<live, issued, expired, consents>>
disk == <<file, tmp>>
process == <<source, mem, owner, last, mu>>
vars == <<google, faults, disk, process, pc, tok, answer>>

Locations ==
  {"idle", "resolve", "mint", "save", "create", "write", "rename", "done", "consent"}

TypeOK ==
  /\ live \subseteq Nat
  /\ issued \in Nat /\ expired \in Nat /\ consents \in Nat /\ faults \in Nat
  /\ file \in Tokens \cup {NoFile, Malformed, Partial}
  /\ tmp \in Tokens \cup {NoFile, Partial}
  /\ source \in {"unresolved", "ready", "noTokenFile"}
  /\ mem \in Tokens \cup {NoToken}
  /\ source = "ready" => mem \in Tokens
  /\ owner \in Calls \cup {NoCall} /\ mu \in Calls \cup {NoCall}
  /\ last \in Nat
  /\ pc \in [Writers -> Locations]
  /\ tok \in [Writers -> Tokens \cup {NoToken}]
  /\ answer \in [Calls -> Answers \cup {NoReply}]

FirstToken == [access |-> 1, refresh |-> 1, grant |-> 1]

\* A machine on which `auth` never ran, one whose file was damaged, or one
\* that was authorized and whose access token may or may not be fresh.
Init ==
  /\ \/ file \in {NoFile, Malformed} /\ issued = 0 /\ expired = 0 /\ live = {}
     \/ file = FirstToken /\ issued = 1 /\ expired \in {0, 1} /\ live = {1}
  /\ consents = 0 /\ faults = 0
  /\ tmp = NoFile
  /\ source = "unresolved" /\ mem = NoToken /\ owner = NoCall
  /\ last = 0 /\ mu = NoCall
  /\ pc = [w \in Writers |-> "idle"]
  /\ tok = [w \in Writers |-> NoToken]
  /\ answer = [c \in Calls |-> NoReply]

Fault == faults < MaxFaults /\ faults' = faults + 1
GoTo(w, l) == pc' = [pc EXCEPT ![w] = l]

\* ensureTokenState returns a health state; whatever was held is dropped.
Answer(c, a) ==
  /\ answer' = [answer EXCEPT ![c] = a]
  /\ tok' = [tok EXCEPT ![c] = NoToken]
  /\ GoTo(c, "done")

-----------------------------------------------------------------------------
(* Google, time and the host. *)

Expire ==
  /\ expired < issued /\ expired < MaxExpired
  /\ expired' = expired + 1
  /\ UNCHANGED <<live, issued, consents, faults, disk, process, pc, tok, answer>>

\* The operator withdraws access in the Google account.
Revoke ==
  /\ live # {}
  /\ Fault
  /\ live' = {}
  /\ UNCHANGED <<issued, expired, consents, disk, process, pc, tok, answer>>

Arrive(c) ==
  /\ pc[c] = "idle"
  /\ GoTo(c, "resolve")
  /\ UNCHANGED <<google, faults, disk, process, tok, answer>>

\* The RPC returns, and gRPC cancels its context.
Return(c) ==
  /\ pc[c] = "done"
  /\ GoTo(c, "idle")
  /\ answer' = [answer EXCEPT ![c] = NoReply]
  /\ owner' = IF owner = c THEN NoCall ELSE owner
  /\ UNCHANGED <<google, faults, disk, source, mem, last, mu, tok>>

\* An RPC found healthy goes on to call Drive; every request asks for a token.
Request(c) ==
  /\ pc[c] = "done" /\ answer[c] = "healthy"
  /\ GoTo(c, "mint")
  /\ UNCHANGED <<google, faults, disk, process, tok, answer>>

\* The host gives up on the RPC whose context refreshes run under.
Deadline ==
  /\ owner # NoCall
  /\ Fault
  /\ owner' = NoCall
  /\ UNCHANGED <<google, disk, source, mem, last, mu, pc, tok, answer>>

-----------------------------------------------------------------------------
(* tokenSource: resolved once per process, by the first call that asks. *)

\* Mutant: whatever could be read is taken for a token.
ResolveLoadsAnything(c) ==
  /\ pc[c] = "resolve" /\ source = "unresolved"
  /\ file # NoFile
  /\ source' = "ready" /\ mem' = file /\ owner' = c
  /\ GoTo(c, "mint")
  /\ UNCHANGED <<google, faults, disk, last, mu, tok, answer>>

ResolveLoads(c) ==
  /\ pc[c] = "resolve" /\ source = "unresolved"
  /\ file \in Tokens
  /\ source' = "ready" /\ mem' = file /\ owner' = c
  /\ GoTo(c, "mint")
  /\ UNCHANGED <<google, faults, disk, last, mu, tok, answer>>

ResolveFails(c) ==
  /\ pc[c] = "resolve" /\ source = "unresolved"
  /\ file \notin Tokens
  /\ source' = "noTokenFile"
  /\ Answer(c, "neverAuthorized")
  /\ UNCHANGED <<google, faults, disk, mem, owner, last, mu>>

ResolveAgain(c) ==
  /\ pc[c] = "resolve" /\ source = "ready"
  /\ GoTo(c, "mint")
  /\ UNCHANGED <<google, faults, disk, process, tok, answer>>

ResolveFailsAgain(c) ==
  /\ pc[c] = "resolve" /\ source = "noTokenFile"
  /\ Answer(c, "neverAuthorized")
  /\ UNCHANGED <<google, faults, disk, process>>

-----------------------------------------------------------------------------
(* The caching source: one refresh at a time, under the context that was   *)
(* given to it when it was built.                                          *)

Stale == mem.access <= expired

Cached(c) ==
  /\ pc[c] = "mint" /\ ~Stale
  /\ tok' = [tok EXCEPT ![c] = mem]
  /\ GoTo(c, "save")
  /\ UNCHANGED <<google, faults, disk, process, answer>>

\* Google answers a refresh grant with a new access token, and keeps or
\* replaces the refresh token.  A reply without one keeps the one used.
Grant(rotate) ==
  /\ mem.refresh \in live
  /\ issued' = issued + 1
  /\ live' = IF rotate THEN (live \ {mem.refresh}) \cup {issued + 1} ELSE live
  /\ UNCHANGED <<expired, consents>>

Refresh(c) ==
  /\ pc[c] = "mint" /\ Stale /\ owner # NoCall
  /\ \E rotate \in BOOLEAN :
       /\ Grant(rotate)
       /\ mem' = [access |-> issued + 1,
                  refresh |-> IF rotate THEN issued + 1 ELSE mem.refresh,
                  grant |-> mem.grant]
  /\ tok' = [tok EXCEPT ![c] = mem']
  /\ GoTo(c, "save")
  /\ UNCHANGED <<faults, disk, source, owner, last, mu, answer>>

RefreshRefused(c) ==
  /\ pc[c] = "mint" /\ Stale /\ owner # NoCall
  /\ mem.refresh \notin live
  /\ Answer(c, "expiredRevoked")
  /\ UNCHANGED <<google, faults, disk, process>>

\* The captured context is gone: the request is never sent.
RefreshCancelled(c) ==
  /\ pc[c] = "mint" /\ Stale /\ owner = NoCall
  /\ Answer(c, "unclassified")
  /\ UNCHANGED <<google, faults, disk, process>>

\* The network fails before Google sees the request, or after it answered.
RefreshLost(c) ==
  /\ pc[c] = "mint" /\ Stale /\ owner # NoCall
  /\ Fault
  /\ UNCHANGED google \/ \E rotate \in BOOLEAN : Grant(rotate)
  /\ Answer(c, "unclassified")
  /\ UNCHANGED <<disk, process>>

-----------------------------------------------------------------------------
(* persistingTokenSource.Token, after the wrapped source has answered. *)

Unchanged(c) ==
  /\ pc[c] = "save" /\ mu = NoCall
  /\ tok[c].access = last
  /\ Answer(c, "healthy")
  /\ UNCHANGED <<google, faults, disk, process>>

Lock(c) ==
  /\ pc[c] = "save" /\ mu = NoCall
  /\ tok[c].access # last
  /\ mu' = c
  /\ GoTo(c, "create")
  /\ UNCHANGED <<google, faults, disk, source, mem, owner, last, tok, answer>>

AuthEnds ==
  /\ GoTo(Auth, "idle")
  /\ tok' = [tok EXCEPT ![Auth] = NoToken]
  /\ UNCHANGED <<process, answer>>

\* What follows saveToken: the handler unlocks mu and answers, remembering
\* the access token if it was saved; `auth` just ends.
Saved(w) ==
  IF w = Auth THEN AuthEnds
  ELSE /\ last' = tok[w].access
       /\ mu' = NoCall
       /\ Answer(w, "healthy")
       /\ UNCHANGED <<source, mem, owner>>

\* Mutant: the token is remembered as saved although it was not.
NotSavedButRemembered(w) ==
  IF w = Auth THEN AuthEnds
  ELSE /\ last' = tok[w].access
       /\ mu' = NoCall
       /\ Answer(w, "unclassified")
       /\ UNCHANGED <<source, mem, owner>>

\* Mutant: an error path that forgets to unlock.
NotSavedStillLocked(w) ==
  IF w = Auth THEN AuthEnds
  ELSE /\ Answer(w, "unclassified")
       /\ UNCHANGED process

NotSaved(w) ==
  IF w = Auth THEN AuthEnds
  ELSE /\ mu' = NoCall
       /\ Answer(w, "unclassified")
       /\ UNCHANGED <<source, mem, owner, last>>

-----------------------------------------------------------------------------
(* saveToken, by a handler or by `auth`. *)

\* Mutant: without O_EXCL, a second writer opens the first one's file.
CreateTmpShared(w) ==
  /\ pc[w] = "create"
  /\ tmp' = Partial
  /\ GoTo(w, "write")
  /\ UNCHANGED <<google, faults, file, process, tok, answer>>

CreateTmp(w) ==
  /\ pc[w] = "create" /\ tmp = NoFile
  /\ tmp' = Partial
  /\ GoTo(w, "write")
  /\ UNCHANGED <<google, faults, file, process, tok, answer>>

CreateRefused(w) ==
  /\ pc[w] = "create" /\ tmp # NoFile
  /\ NotSaved(w)
  /\ UNCHANGED <<google, faults, disk>>

WriteTmp(w) ==
  /\ pc[w] = "write"
  /\ tmp' = tok[w]
  /\ GoTo(w, "rename")
  /\ UNCHANGED <<google, faults, file, process, tok, answer>>

RenameTmp(w) ==
  /\ pc[w] = "rename"
  /\ file' = tmp
  /\ tmp' = NoFile
  /\ Saved(w)
  /\ UNCHANGED <<google, faults>>

\* A write, sync, close or rename fails: the temporary file is removed.
SaveFails(w) ==
  /\ pc[w] \in {"write", "rename"}
  /\ Fault
  /\ tmp' = NoFile
  /\ NotSaved(w)
  /\ UNCHANGED <<google, file>>

-----------------------------------------------------------------------------
(* The `auth` command. *)

RunAuth ==
  /\ pc[Auth] = "idle" /\ consents < MaxConsents
  /\ consents' = consents + 1
  /\ GoTo(Auth, "consent")
  /\ UNCHANGED <<live, issued, expired, faults, disk, process, tok, answer>>

\* Refused, timed out, or answered without a refresh token.
ConsentFails ==
  /\ pc[Auth] = "consent"
  /\ GoTo(Auth, "idle")
  /\ UNCHANGED <<google, faults, disk, process, tok, answer>>

Exchange ==
  /\ pc[Auth] = "consent"
  /\ LET n == issued + 1
     IN /\ issued' = n
        /\ live' = live \cup {n}
        /\ tok' = [tok EXCEPT ![Auth] = [access |-> n, refresh |-> n, grant |-> n]]
  /\ GoTo(Auth, "create")
  /\ UNCHANGED <<expired, consents, faults, disk, process, answer>>

-----------------------------------------------------------------------------
(* Kills.  Whatever is on the disk stays, the temporary file included. *)

KillPlugin ==
  /\ Fault
  /\ source' = "unresolved" /\ mem' = NoToken /\ owner' = NoCall
  /\ last' = 0 /\ mu' = NoCall
  /\ pc' = [w \in Writers |-> IF w = Auth THEN pc[w] ELSE "idle"]
  /\ tok' = [w \in Writers |-> IF w = Auth THEN tok[w] ELSE NoToken]
  /\ answer' = [c \in Calls |-> NoReply]
  /\ UNCHANGED <<google, disk>>

KillAuth ==
  /\ pc[Auth] # "idle"
  /\ Fault
  /\ AuthEnds
  /\ UNCHANGED <<google, disk>>

-----------------------------------------------------------------------------
Save(w) ==
  CreateTmp(w) \/ CreateRefused(w) \/ WriteTmp(w) \/ RenameTmp(w) \/ SaveFails(w)

Resolve(c) ==
  ResolveLoads(c) \/ ResolveFails(c) \/ ResolveAgain(c) \/ ResolveFailsAgain(c)

Mint(c) ==
  \/ Cached(c) \/ Refresh(c) \/ RefreshRefused(c)
  \/ RefreshCancelled(c) \/ RefreshLost(c)

Persist(c) == Unchanged(c) \/ Lock(c)

Call(c) ==
  Arrive(c) \/ Resolve(c) \/ Mint(c) \/ Persist(c) \/ Request(c) \/ Return(c)

Next ==
  \/ Expire \/ Revoke \/ Deadline
  \/ RunAuth \/ ConsentFails \/ Exchange
  \/ KillPlugin \/ KillAuth
  \/ \E c \in Calls : Call(c)
  \/ \E w \in Writers : Save(w)

Spec == Init /\ [][Next]_vars

\* Handlers and `auth` run on; a Go mutex hands itself over to a waiter that
\* has waited a millisecond, so a handler is not passed over for ever.
FairSpec ==
  /\ Spec
  /\ \A c \in Calls :
       WF_vars(Resolve(c)) /\ WF_vars(Mint(c)) /\ SF_vars(Persist(c))
  /\ \A w \in Writers : WF_vars(Save(w))

-----------------------------------------------------------------------------
(* Properties. *)

\* token.json is at every moment a whole token that some writer saved, or
\* what was there before: two handlers and `auth`, any of which may be
\* killed or fail half way, never leave a truncated file (saveToken's
\* temporary file, token.go:66-115).
WholeFile == file # Partial

\* The token persistingTokenSource believes it saved is the one a new
\* process would read, refresh token included, unless `auth` has replaced
\* the file by a newer consent meanwhile.  Handlers may save out of order
\* and put an older token back, but then `last` says so, and the next
\* request for a token saves again (token.go:143-201).
LastIsDurable ==
  last # 0 =>
    /\ file \in Tokens
    /\ \/ file.grant > mem.grant
       \/ file.access = last /\ (last = mem.access => file = mem)

\* Two handlers, failing saves and `auth` on the same temporary file never
\* leave a request for a token unanswered (the locks of token.go:175-201).
Answered ==
  \A c \in Calls : pc[c] = "mint" ~> pc[c] \in {"done", "idle"}

\* "Not authorized" is said only when there is no usable token file, which
\* is what makes the remedy it names work: run `auth`, then "Refresh now"
\* (plugin.go:104).
RemedyWorks ==
  [][\A c \in Calls :
       answer'[c] = "neverAuthorized" /\ answer[c] # "neverAuthorized"
         => file \notin Tokens]_vars

\* When nothing fails and nothing is revoked, no request for a token is
\* answered with an unclassified error: the source resolved by the first RPC
\* goes on serving the later ones (plugin.go:201-207).
StaysAuthorized == \A c \in Calls : answer[c] # "unclassified"

-----------------------------------------------------------------------------
(* Why LastIsDurable and WholeFile hold: what each writer may rely on.     *)

Saving(w) == pc[w] \in {"create", "write", "rename"}
Holding(w) == pc[w] = "save" \/ Saving(w)

\* Handlers and `auth` are only where their code takes them.
Places ==
  /\ pc[Auth] \in {"idle", "consent", "create", "write", "rename"}
  /\ \A c \in Calls :
       /\ pc[c] # "consent"
       /\ pc[c] = "mint" \/ Holding(c) \/ answer[c] = "healthy" => source = "ready"
       /\ Saving(c) <=> mu = c
  /\ \A w \in Writers : Holding(w) => tok[w] \in Tokens

\* One writer at a time has the temporary file open, and it alone fills it.
Exclusive ==
  /\ WholeFile
  /\ \A w \in Writers :
       /\ pc[w] = "write" => tmp = Partial
       /\ pc[w] = "rename" => tmp = tok[w]
       /\ \A v \in Writers :
            {pc[v], pc[w]} \subseteq {"write", "rename"} => v = w

\* A handler's token is the caching source's, or an older one of the same
\* consent; `auth` holds a consent newer than any other.
Lineage ==
  /\ \A c \in Calls : Holding(c) =>
       /\ tok[c].grant = mem.grant
       /\ tok[c].access \in 1..issued
       /\ tok[c].access = mem.access => tok[c] = mem
  /\ Saving(Auth) =>
       /\ tok[Auth].grant \in 1..issued
       /\ tok[Auth].access \in 1..issued
       /\ mem \in Tokens => mem.grant < tok[Auth].grant
       /\ file \in Tokens => file.grant < tok[Auth].grant
  /\ mem \in Tokens => mem.grant <= issued /\ mem.access \in 1..issued
  /\ file \in Tokens => file.grant <= issued /\ file.access \in 1..issued
  /\ last <= issued
  /\ last # 0 => source = "ready"

IInv == TypeOK /\ Places /\ Exclusive /\ Lineage /\ LastIsDurable
=============================================================================
