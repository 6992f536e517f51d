# A verification of topos-plugins

The repository holds the source plugins of Topos: small gRPC servers, one
process each, that a host program starts to list (`Match`), open (`Fetch`),
search (`Search`) and report on (`Health`, `Describe`) the items of one source:
Google Drive, WhatsApp, Signal, Proton Mail, Silverbullet, Paperless, a
directory. The host and its contract are in another repository; here it appears
only as the caller that asks again and again, keeps the last answer it got, and
replaces a webspace's whole item set with it.

This directory holds TLA+ models of the plugins' own logic, the TLC runs that
check them on small instances and the TLAPS proofs about them.

## Inventory

Every path below is under `src/plugins/` unless it starts with another directory.

| Component | State it keeps | Operations | What makes it correct |
|---|---|---|---|
| Drive sync (`gdrive/syncengine`, `syncstate`, `folderwalk`, `changepoll`, `match`) | `syncstate.json`, its `.tmp`, `syncMu`, the tree | load, poll, apply, walk, save, answer | no change lost, nothing outside the root, atomic commits, catches up |
| Drive authorization (`gdrive/auth`, `token`, `oauthconfig`, `plugin`) | token file, cached token source and service, last access token | `auth` CLI, refresh, persist, classify | a rotated refresh token survives, an authorized plugin recovers |
| Drive content (`gdrive/fetchcontent`, `preview`, `workspaceexport`, `search`, `driveclient`) | none | fetch, preview, export, search, retry | bounded sizes, only files in scope, every failure named |
| WhatsApp message store (`whatsapp/messagestore`, `eventhandler`, `groupsync`, `pushnames`) | SQLite tables of chats (with contact names) and messages | append, revoke, edit, history, names | a revoked message stays revoked, an edit stays, names end up as the account has them |
| WhatsApp digests and matching (`whatsapp/plugin`, `digest`, `match`, `search`) | none | match, search, open a transcript | whole answers from two statements, an unsaved contact never matches, what is listed opens |
| WhatsApp session (`whatsapp/connect`, `health`, `link`, `pairwait`, `storelock`, `describeonly`, `main`) | connection state, health, store lock | connect, events, link, unlink, lock | one writer per store, health tells the truth, one terminal event per link |
| Signal (`signal/*`) | none; a read-only copy of another program's database | key resolution, schema guard, queries, digest | never opens an unknown schema, never writes |
| Proton Mail (`proton/*`) | mailbox cache shared by all calls | list, examine, fetch, search | an item is found in the mailbox that holds it |
| Filesystem (`filesystem/*`) | none | bounded walk, fetch, search | the complete set or an error, Fetch and Match agree |
| Silverbullet (`silverbullet/*`) | none | list, bounded parallel reads, fetch | an outage is never an empty answer, calls end |
| Paperless (`paperless/*`) | none | paged list, tags, fetch | no document missed between pages |
| Search kit (`searchkit`) | none | snippet, match | byte and rune positions agree |
| Installer (`scripts/install.sh`) | installed binaries, staging directory | preflight, stage, verify, place, converge | all or nothing, rerunnable |

The hard behaviours are concurrency inside one process (several webspaces call
one plugin), a remote that changes between two requests of one call, files that
must survive a kill, credentials that rotate, and event streams that arrive late,
twice or out of order. `PROJECT.json` lists them line by line under `hazards`.

## Modules

| Module | Models |
|---|---|
| `DriveTree` | the folder tree and the change feed's effect on it, as operators |
| `DriveStore` | abstract: what the sync promises its callers |
| `DriveSync` | the sync itself, over a Drive that changes; implements `DriveStore` |
| `MCDriveSync` | small instances of `DriveSync` |
| `DriveTokens` | the OAuth token: its file, its source, the handlers that share it, the `auth` command |
| `MCDriveTokens` | small instances of `DriveTokens` |
| `ChatStore` | the two tables of `messages.db` and their statements, as operators |
| `WhatsAppEvents` | the goroutines that write `messages.db`, over an account that changes |
| `MCWhatsAppEvents` | small instances of `WhatsAppEvents` |
| `SourceContract` | abstract: what the host relies on when it calls a source |
| `DriveContent` | Drive's requests around the sync: retries, causes, previews, search, downloads; implements `SourceContract` |
| `WhatsAppSession` | the processes over one session store: serving, linking, describe-only |
| `ChatReader` | the calls that read `messages.db`; implements `SourceContract` |
| `SignalReader` | the calls that read Signal Desktop's database; implements `SourceContract` |
| `ProtonMail` | mailboxes, the cache, Fetch; implements `SourceContract` |
| `SilverbulletSpace` | a scan of the space by parallel reads, Fetch; implements `SourceContract` |
| `PaperlessArchive` | a paged list; implements `SourceContract` |
| `FilesystemWalk` | a bounded walk, Fetch; implements `SourceContract` |
| `Installer` | `install.sh` and `uninstall.sh` over one directory |
| `SourcePlugins` | composes `DriveContent`, `WhatsAppSession`, the readers and sources above, and `Installer` |
| `MCSourcePlugins` | small instances of `SourcePlugins` |
| `DriveTreeProofs`, `DriveSyncProofs`, `DriveTokensProofs`, `WhatsAppEventsProofs`, `WhatsAppSessionProofs`, `SilverbulletSpaceProofs`, `SourcePartsProofs`, `SourcePluginsProofs` | the proofs |

### Drive sync

`DriveSync` has one action per request the plugin sends and per step it takes on
disk, so that Drive's changes, failures and kills fall between any two of them.

| Variable | In the code |
|---|---|
| `drive`, `log`, `oldest` | Google Drive: each file's parent, the change log, the oldest token it still answers (external) |
| `folder` | the configured `folder_id` |
| `file`, `tmp` | `syncstate.json` and `syncstate.json.tmp` |
| `mu` | `syncMu` |
| `pc`, `work`, `reply` | where each call is inside `Match` and `ensureSynced`, its locals, its result |
| `index` | the host's items for each call's webspace (external) |
| `faults` | how many failures have happened (a bound) |

A call goes `Arrive`, `Acquire`, `Load`, then either `PollPage`* `PollLast`, or
`StartPageToken`, `RootFolderName`, `ListFolder`* `WalkDone`, then `CreateTmp`,
`WriteTmp`, `RenameTmp`, and its answer arrives by `Deliver` or is lost by
`Lose`. `Fail` stands for every error return while the mutex is held, with the
clean-up `saveSyncState` does at that point; `Refuse` for those before.

A tree maps each id to its recorded parent. Names, MIME types, links, sizes and
match values ride along unchanged and are left out: whether an item is shown
depends on them only by filtering. What remains is the question every scoping
decision comes down to, whether a chain of parents ends at the root. `Below`
answers it as a least set, which is what `reachesRoot`'s and
`ancestorChainValues`' bounded loops compute, and can be proved about.

Drive's side is modelled as the requests see it: `changes.list` returns each
changed file once, at its latest change, with where it is now; a change of a
folder is logged for the folder only; a folder listing returns untrashed
children in any order; a token may expire (410). A folder's listing is taken in
one step although a folder of more than a page takes several requests.

### Properties and runs

`drive_safety`: two calls, a folder within a folder, either of which may be moved,
pages of one change, one failure or kill at any point. It has no document: one is
to the sync a folder that nothing lies in.
- `LoadedIsCurrent`: what a call loaded is still stored when it saves.
- `DeltaScoped`: a delta holds nothing outside the root.
- `StoredInScope`: all that is stored is in scope, also what a walk stored.
  A walk reads the folders one by one, so two that swap places under it may leave
  a cycle of parents in the stored tree (the run has such states, and without
  this case the property fails in them). It then says that those changes are
  after the stored token, so the next poll delivers them; `MatchItems` shows
  nothing whose chain does not end at the root in the meantime.
- `StoreSpec`: the refinement of `DriveStore`: a call commits exactly what it is
  answered with or changes nothing, a delta extends what was stored, the token
  never moves back.

`drive_converge`: one call, two roots the operator may switch between, two
failures, a folder that may be trashed under its document but neither moved nor
restored, polls of one page.
- `NoLostChange`: applying the changes since the stored token to the stored tree
  gives Drive's own tree.
- `ConvergesUnlessOrphaned`: the host's items end up being Drive's, for good,
  unless a killed save has left its temporary file.

Four runs expect a violation and belong to a finding each: `drive_orphan` (a kill
between create and rename disables the sync for good), `drive_reorder` (two
entries of one file in one batch, the earlier wins), `drive_moved` (a file whose
new folder is, so far, recorded inside a trashed one is dropped for good, although
the folder's own move follows in the same batch) and `drive_folder` (another
configured folder is not noticed). `drive_moved` keeps Drive still but for the
time between the first sync and the second (`OneWindow`), so that four changes can
be followed.

Bounds: in `drive_converge` one document and one folder are enough for a chain of
two, a trashed folder and a file that leaves and returns; in `drive_safety` two folders are enough for a cycle and an
orphaned subtree; two logged changes fill two pages of one; two calls are enough for one to
interleave with another's load and save; two faults allow a crash after a failed
save or after a change of folder. `drive_converge` excludes folders that move, or
come back, with content, because the change feed cannot tell the plugin about what
is inside them (`hazards`). New folders, and a parent that arrives after its
child, need an instance beyond its reach; the proof covers them.

Fairness: the host calls again and again (weak fairness of `Arrive`), a Go mutex
does not starve a waiter (strong fairness of `Acquire`), and a call that holds the
mutex ends, which is what `syncRetryDeadline` is there for. Nothing is assumed of
Drive, of failures or of crashes except that their number is bounded.

### What is proved

For every set of files, roots and calls and every bound, under `TreeAssumption`
(the kinds of ids are disjoint, files are finitely many), `SyncAssumption` and
`SentinelAssumption` (no sentinel is a sync state):

- `DriveTreeProofs!ApplyChangesScoped`: applying any batch to any tree leaves a
  tree that is all in scope. A set closed under the pruned tree becomes one closed
  under the tree before by adding what the prune dropped.
- `DriveSyncProofs!TypeCorrect`, `NoStaleCommit`, `DefaultDeny`, `ScopeStored`,
  `Refinement`.

They follow from one inductive invariant, `IInv`. `LoadedIsCurrent` is not
inductive alone: it needs `Exclusive` (only the mutex's holder is past
`Acquire`). The refinement needs that what is renamed is what was computed
(`Computed`) and that its token is at least the stored one (`Monotone`), which
holds because the token is read from a feed that only grows and the stored state
has not changed since it was loaded.

`ScopeStored` needs a second one, `WalkScoped`, about walks in progress. As long
as no folder has been touched since the token, every entry so far hangs from the
root or from a folder with an entry, every folder entered is where Drive has it,
and only such folders are queued (`Steady`). So a listing never moves a folder
already entered, and adding its children keeps everything in scope
(`ListedScoped`): a set closed for the new tree becomes one closed for the old by
adding the documents and the folders named for the first time. Once a folder is
touched the case of `Rearranged` has arisen, and it does not go away.

`NoLostChange` is `DriveSyncProofs!ChangesKept`, proved of any number of files,
folders, roots, calls, changes and failures under two conditions. Folders are only
put new and empty, and stay until trashed (`~MoveDirs`), and a page is as long as
there are files (`Cardinality(Nodes) <= PageSize`; the code asks for 1000). Each is
needed: without the first, `drive_moved` shows a file lost, and the content of a
folder that moves in never arrives at all; without the second, `drive_reorder` loses a
change between two pages. The argument has two halves.

*What one poll does* (`DriveTreeProofs`). `Agrees(tree, here, root, C)` says that a
tree is Drive's own but for the files of `C`: it records what is really below the root
where it is, nothing else in a wrong place, and no folder without the folder that holds
it. The folders (`FoldersHold`) are excepted nowhere, not even those of `C`: one that
is really below the root is recorded where it is now or not at all, so a folder that
moved and is still recorded at its old place is outside these theorems. It has to be:
`drive_moved` shows what is lost then. `Tells` says what an entry of `changes.list` is
worth. One change then settles its file or is deferred without effect (`ChangeAgrees`),
a pass settles what it can (`PassAgrees`), as many passes as changes leave nothing more
to resolve (`FixpointSettles`), what is left cannot be below the root, and the result,
pruned, is Drive's own tree (`FeedCatchesUp`). The passes and the fixpoint are
recursive functions over subsets of a batch; that they are what their equations say
(`FoldExists`), and the inductions over them, go by a smallest set that would be wrong
(`ShrinkInduction`), which needs no theorem with an operator parameter.

*What is kept between polls* (`DriveSyncProofs`). `UpToDate` says of a sync state
that its tree agrees with Drive but for the files with a change after its token.
The invariant `Kept` says it of the stored state and of what a call is about to
save; of a call that walks it says `Gathered`: whatever really below the root is
missing from the tree so far is in a folder still queued, or in one that is missing
itself (`Awaits`), or has a change after the token, which was taken before the
first listing. So an empty queue leaves only what the feed will tell
(`GatheringEnds`), Drive's own steps disturb nothing that they do not log
(`StaysUpToDate`, `StaysGathered`), and a poll of one page ends with Drive's tree
(`PollKeeps`).

Convergence, liveness, is model-checked only.

### Drive authorization

`DriveTokens` has two processes over one `token.json`: the plugin, whose RPC
handlers (`Calls`) share one token source, and the `auth` command (`Auth`).

| Variable | In the code |
|---|---|
| `live`, `issued`, `expired` | Google: the refresh tokens it accepts, the tokens it has issued, how far they have expired (external) |
| `file`, `tmp` | `token.json`, `token.json.tmp` |
| `source` | what `tokenSource`'s `sync.Once` decided: `ts`, `tsErr` or nothing yet |
| `mem`, `owner` | the oauth2 library's cached token, and the RPC whose context it refreshes under (external) |
| `last`, `mu` | `persistingTokenSource`'s fields |
| `pc`, `tok`, `answer` | each handler's place in `ensureTokenState` and `Token`, the token it holds, the health state it returns; the same for `auth` |

A handler goes `Arrive`, one of the `Resolve` steps, one of the `Mint` steps
(the library's mutex makes a refresh one step), then `Unchanged`, or `Lock`
`CreateTmp` `WriteTmp` `RenameTmp`; a healthy RPC may ask for further tokens
(`Request`) before it returns (`Return`), which is when gRPC cancels its context.
`auth` goes `RunAuth`, `Exchange`, and through the same save. The library keeps
the refresh token it used when a reply names none, so `Token`'s own fallback to
the one on disk has nothing to do and is left out; so are configuration errors,
which are fixed when the process starts, and `auth`'s loopback listener, whose
outcomes are `Exchange` and `ConsentFails`.

`tokens_safety`: two handlers, one run of `auth`, one expiry, two failures, kills
or revocations. These are enough for one handler to be overtaken by another's
refresh between getting its token and saving it, for `auth` to meet a save, and
for a failed save to be followed by a kill.
- `WholeFile`: `token.json` is never torn.
- `LastIsDurable`: what `last` names is what a new process would load, unless
  `auth` has stored a newer consent. It allows two things the code does: handlers
  that save out of order put an older token back until the next request for one,
  and a running plugin overwrites the consent `auth` has just stored (`hazards`).
- `Answered`: every request for a token is answered. Fairness: handlers and `auth`
  run on (weak), and a Go mutex does not starve a waiter (strong, `Persist`).

`tokens_sticky` and `tokens_context` expect violations: a process that was asked
before `token.json` existed never notices `auth`, and the context captured by the
first RPC ends the plugin's authorization at the next expiry.

`DriveTokensProofs` proves type correctness, `WholeFile` and `LastIsDurable` for
any number of handlers and every bound, under `CallsAssumption` (`auth` is no
handler) and `SentinelAssumption`. The inductive invariant `IInv` adds what each
writer may rely on: `Places` (who holds `mu` is who is saving), `Exclusive`
(O_EXCL gives the temporary file one writer) and `Lineage` (a handler's token is
the cached one or an older one of the same consent, and a consent being saved is
newer than any other). `Lineage` is what makes `LastIsDurable` survive a rename by
`auth` and a refresh by another handler.

### WhatsApp message store

`ChatStore` writes each SQL statement as a function from a table to a table.
`WhatsAppEvents` runs them: `messages.db` has one connection and no explicit
transaction, so each statement and each read of the address book is one action
and everything else may happen between two of them.

| Variable | In the code |
|---|---|
| `said`, `subject`, `saved` | the account: messages, group subjects, whatsmeow's address book (external) |
| `log`, `next`, `backlog` | the server's events for this device and the first not handled; what the history payload still holds (external) |
| `chats`, `messages` | the two tables |
| `thread` | where the live and the history dispatch are inside their handler, with which event and which name read |
| `sync` | each `syncJoinedGroups` goroutine: asking, or writing the subjects it has fetched |
| `astray`, `faults`, `kills` | history variables: what a failure or an overtaking write has hit, and bounds |

A message event goes `Ensure`, in a 1:1 chat `Resolve` and `Upsert`, then
`Write`, which is `MarkDeleted`, `MarkEdited`, `AppendMsg` or nothing; a group
event is `GroupInfo`; a contact event `ContactEvent`, `Resolve`, `Upsert`. A
connection starts a sync: `Connected`, `Fetch`, and `WriteGroup` per group. Each
may fail where the code handles an error, and then does what the code does:
`Ensure` gives the event up, a failed read passes for an unsaved contact, a
failed group ends the sync, the other failures are only logged.

Taken from outside `src/`: the library dispatches live events one after another
and history payloads on a goroutine of their own; it saves a contact before it
dispatches the event; the server gives an event again until its handler has
returned, and after a kill up to `Lag` earlier ones; a history payload is
acknowledged when it arrives, so a kill loses the rest of it. Redelivery without
a kill only repeats the last events and is covered by a kill's. Left out:
reactions and protocol messages of other kinds, whose handlers write nothing but
the chat row; senders and times, which no statement here decides on; the
health cases of `handleEvent`, which belong to the session.

`chats_store` follows one of two scenes at a time (`scene`, in `MCWhatsAppEvents`),
since the rows of a 1:1 chat and those of a group have no statement in common. In
the first, a message in a 1:1 chat whose contact may be renamed, without syncs; in
the second, a message in a group that may be renamed, two syncs that overlap each
other, and no contact. Both have one fault and a kill that redelivers two events.
Three changes of the account are enough for a send, an edit and a revoke, or two of
them with a change of the contact between them, and two redelivered events for a
row to go back to its first content and forward again; in the group's scene two
changes are enough for a rename that meets a sync and a message. The run does not
check for deadlock: in the first scene nothing reconnects, so the plugin comes to
rest once every event is handled.
- `MessagesSettled`: once nothing about a message is due, its row is what the
  account shows.
- `ContactsSettled`: the same for a 1:1 chat's contact name.
- `GroupsSettled`: a cached subject is the present one once no rename is due and
  no sync is writing.
- `GroupsConverge`: as long as connections keep coming up, a group ends up with
  its present subject for good. Fairness: goroutines are scheduled and their
  calls return (`GetJoinedGroups` within `groupSyncTimeout`). A sync has to be
  free for a connection to come up, which bounds overlapping syncs to two. A scene
  holds back only the account and the connection, of which fairness asks nothing.

The first two except what is `astray`: a message a failing statement hit, that was
lost with the history payload, or whose live change the replay overtook. A contact
or a group leaves `astray` by the next event or sync that repairs it; a message
never does, because nothing repairs it.

`chats_revoked` expects a violation: the history replay brings a message back
after its revoke was handled.

`WhatsAppEventsProofs` proves type correctness and `MessagesSettled` for any sets
of chats, messages, names and syncs and any bounds, also of redelivery, under
`KindsAssumption`, `ChatOfAssumption`, `BlankAssumption`, `NoRowAssumption` and
`BoundsAssumption`. `MessagesSettled` speaks only of settled messages, so the
inductive invariant `IInv` adds what the log says of each message (`LogTells`:
a send is its first event, a revoke ends it, the last one gives the content),
what a busy goroutine is handling (`Works`), and what a row keeps while events
are due (`Rows`): a row never claims an edit or a deletion the account does not
have, it exists unless its send is due, and it carries the mark of every edit
before `next`. A kill moves `next` back, so an edit behind a redelivered send is
due again itself; that a send is the first event of its message (`Sends`) is what
keeps the rewritten row within the invariant.

`GroupsSettled` and `ContactsSettled` are proved from that invariant and one more
each. `GroupInv` says that the last rename in the log is to the present subject
and, of a group neither a fault nor an overtaking sync hit and with no rename due,
that every sync still to write it holds that subject, as does its row once none is.
`ContactInv` follows a name from the address book to the row: what either handler
has read and not yet written is present unless a later event of the chat will
read it again. Where it is not, because the replay wrote what it read before the
contact changed, the chat is `astray`.

`GroupsConverge`, liveness, is model-checked only.

### The contract of a source

The host replaces every row it holds for a webspace and a source with what
`Match` returns, so a part of the membership is worse than an error. The plugins
say so where they list their source: `walk.go:32`, `silverbullet/plugin.go`,
`proton/plugin.go`. `SourceContract` is that promise alone. A call begins, the
source changes under it, and the call is refused or given a set of items that
holds every member no change touched and nothing that was never one. `Search`
promises the same of the members its terms select, before the host's own limit.

Each module below instantiates it with its own state as the mapping: `members`
is what the source holds now, computed from the environment's variables and not
from what the call has read; `stirred` is a history variable that only
environment actions extend; `reply` is the call. Whatever a plugin reads in
several requests is read at different times, so this is the property that fails
when a page, a mailbox, a read or an item is dropped on an error.

### Drive content

`DriveContent` follows one `Match`, `Search`, `Fetch` or `Health` past the token
check (`CheckToken`, whose inside is `DriveTokens`) and the sync (`Refuse`,
`Retry`, `NextRequest`, `Deadline`, `Synced`, whose inside is `DriveSync`) to
what only it does: previews item by item (`Preview`, `StopPreviews`), Drive's own
index page by page (`ReadPage`, `PagesFail`), a download or an export
(`Download`, `DownloadFails`), a probe (`Probe`). `rpc.last` is `withRetry`'s
`lastCallErr`, `rpc.told` the cause `classifyDriveError` finds in the error.
- `DriveAnswers`: the contract, whatever becomes of previews and pages.
- `TellsTruly`: content only from a file of the folder, NotFound only for others,
  withheld only for what a file is, and the cause told is the one Drive gave
  last. It excuses a deadline that falls inside a request, which replaces the
  Drive error kept so far (`driveclient.go:136`, see `hazards`).

### WhatsApp session

`WhatsAppSession` runs several processes over one data directory: `Start` in one
of three modes, then `OpenMessageStore`, `AcquireStoreLock`, `OpenSession`,
`ReadDevice`, and either `ServeConnect`, `ReportRefused`, `RetireWaiter`, or
`LinkConnect`, `ShowCode`, `PairingAccepted` or `NotScanned`, `AwaitLogin`,
`CloseAll`, `TellOutcome`. The library (external) logs in, is refused, is dropped
or replaced, redials, and queues its events, which `Dispatch` gives to
`handleEvent` and to the login waiter. `Kill` closes what the process held.
- `OneSession`: `whatsmeow.db` is open only under the flock.
- `HealthyNeedsSession`: a healthy answer stands on a login that nothing the
  plugin has been told of has ended.
- `TellsHonestly`: `paired` is told after a login on this client, once, with the
  lock and the store released.
- `LaunchesEnd`: no launch waits for the network for ever. Fairness: a process
  and its client's event queue run on, which includes the timers of the wait and
  of the QR channel. Nothing is assumed of the network, the phone or the host.

`WhatsAppSessionProofs` proves type correctness and the first three for any set of
processes and every bound on launches and troubles, under `SessionAssumption`
(the bounds are numbers, and "no process" is none of them). `OneSession` needs
`Locked` (whoever has the store open, or is about to open it, holds the lock) and
`Released` (a process that has ended, or is about to, holds nothing), since a
lock taken by another process must find the store closed. `HealthyNeedsSession`
needs `Announced`: the end of a session is the last event in the queue, or has
been dispatched, so the health that results is never a stale `linked`; `Quiet`
keeps a client that has not dialled, or is gone, from queueing anything. For
`TellsHonestly`, `Earned` carries the login from the event that was heard
(`Heard`) through the waiter to the outcome, and `Said` that nothing follows it.
`LaunchesEnd` is model-checked only.

### Readers of chats

`ChatReader` and `SignalReader` each read in steps what another writes between
them: health, chats and messages in `messages.db`; key and schema guard,
conversations and messages in Signal Desktop's database. Messages are rows of
few kinds, names are sets of conversations that carry a keyword.
- `ChatAnswers`, `SignalAnswers`: the contract, digest by digest. A conversation
  matches by the one field for its kind, never by a contact's own profile name.
- `NeverSilent`: a call during which the session was down all along is an error,
  with or without keywords; what was listed opens with as many messages as its
  title says.
- `TranscriptAgrees`: the same for Signal's digests.
- `ErasedHidden`: no preview shows a message erased before the call, whichever of
  the two signs of an erasure its row carries. A row that appears where an erased
  one has been removed meanwhile is another message.

Left out: sender names, attachments, reactions and quotes, which ride along with
a message (an attachment read before its message is in `hazards`); a redelivery
that moves a row to another chat or day.

### Proton Mail, Silverbullet, Paperless, Filesystem

`ProtonMail`: overlapping `Match` and `Search` calls examine mailboxes one by one
and merge what they found into the cache that `Fetch` looks in; a restart empties
it. `MailAnswers` is the contract label by label, `OpenFinds` that a listed
message opens. Both excuse a message filed elsewhere meanwhile.

`SilverbulletSpace`: the listing, then reads by an errgroup with a limit; a read
finds a page, a 404, or fails and cancels the rest. `SpaceAnswers` is the
contract, `PageOpens` that a listed page opens, `ScanEnds` that calls end and
leave no goroutine. Fairness: goroutines run and the HTTP client's timeout ends
every request. The run has a limit of one read, so under TLC no two reads overlap,
and `ScanEnds` is checked for that limit only: with three pages and a limit of
two, the run takes more than five minutes. `SilverbulletSpaceProofs` proves the
first two for any set of pages, any limit of the group and any number of edits,
and type correctness, that there are never more reads than the limit, under
`SpaceAssumption` (the bounds are numbers, the limit at least one, and there is a
page). The invariant says of each page that belongs that it is still to be read,
being read, hit or edited since the call began, unless a read has failed
(`Complete`), and of each hit that it belongs or was edited (`Sound`); each step
of `SilverbulletSpace` is then a step of `SourceContract`: an edit is `Stir`, a
failed listing or group is `Refuse`, the end of the group is `Give`, and a single
read stirs nothing.

`PaperlessArchive`: the tag, page after page of a list the server numbers anew at
each request (a document's `Place` is the number of documents as new or newer),
the labels. `ArchiveAnswers` is the contract; it excuses a call
during which a document left, because what follows moves to a page already read.
`PagingEnds` needs requests that end and an archive that grows finitely.

`FilesystemWalk`: a walk directory by directory under a scope (recursion,
patterns, dotfiles) and a cap, over files that come, go, become links and lose
their permissions. `WalkAnswers` is the contract, `FileOpens` that `Fetch` judges
a file as `Match` did. A mount lost after the root has been read is modelled
(`Unmount`) and excused: the code skips what it cannot reach, and so answers with
a part (`hazards`).

What search terms select is a set, since matching text decides nothing else.

### Installer

`Installer` has one step per file copied, renamed, authenticated and removed, and
may fail or be killed before any of them, after which any release may be
installed or everything uninstalled; the operator may put his own binary in
place. `script` is where `main` is, with `PLACE_SET` or the candidates still to be
handled; `placed`, `manifests` and `sigs` are the directory.
- `InstallConverges`: a finished run leaves the selected release's manifest, its
  signature, its verified plugins and nothing of an older release, with three
  exceptions: what the operator put there meanwhile; the plugins of a release
  that was cut short before its evidence was whole; and a *stranded* signature.
  `install.sh:435` and `uninstall.sh:41` remove a manifest and then its
  signature, and older evidence is looked for by its manifest (`install.sh:396`).
  So after a kill between the two the signature stays through every later
  install, until that release is installed again or everything is uninstalled.
  `install.sh:66-69` ("the directory holds exactly the selected release's fleet and
  evidence") and `390-392` say otherwise. The history variable `stranded` holds
  just these signatures, and no others are excused. A signature alone vouches for
  nothing, so no plugin is trusted by it.
- `OwnFilesStay`: retiring never removes the operator's own file.
- `StaysLaunchable`: a complete fleet survives every run that fails or is killed
  before it places anything, and every run of the same release.

One script runs at a time. Temporary copies and the other files of a release
directory are not followed.

### The `sources` run

`SourcePlugins` puts nine parts side by side. The host runs each plugin as a
process of its own and they share nothing, so interleaving them shows nothing
that a part alone does not; `chosen` follows one part per behaviour, with the
others at rest, and the states are the sum of the parts'. A contract is checked
on the part's own steps: `[][chosen = "drive" => DriveContract!Next]_vars` is the
module's `DriveContract!Spec` with the steps that change nothing of it left out.

`SourcePluginsProofs` proves of the composition, under `SourcesAssumption`, what is
proved of its parts: every behaviour of `SourcePlugins` is one of `WhatsAppSession`
and of `SilverbulletSpace`, since the steps of another part leave their variables
alone, so `OneSession`, `HealthyNeedsSession`, `TellsHonestly`, `PageOpens` and
`SpaceAnswers` hold of it as the run states them. With the types of the other
parts, `TypesHold` gives `TypeOK`.

`SourcePartsProofs` proves the run's other safety properties where they stand,
part by part. Each part has an inductive invariant of its own, and a contract is
shown step by step: a change of the source is `Stir`, the start of a call `Begin`,
its end `Give` or `Refuse`, all else leaves what the contract sees alone.

| Part | Proved | The invariant, beside the types |
|---|---|---|
| proton | `OpenFinds`, `MailAnswers` | `Merges`: of a message that has stayed, a call holds exactly the labels of the mailboxes it has examined, and one of them for the cache; a settled message's cached mailbox is one that holds it, so a merge by a call that began earlier cannot displace it |
| filesystem | `FileOpens`, `WalkAnswers` | `Ahead`: a member nobody touched is collected, among the entries read, or under a directory still to be read; `Collected`: what is collected belongs; `MountGone`, `RootFirst`, `Shallow` for the root read first and alone |
| paperless | `ArchiveAnswers` | `Paged`: a document whose place lies before the page to ask for has been read. A filing in front only moves places back, so it stays true; a removal moves them forward, which is why it excuses the call |
| signal | `ErasedHidden`, `TranscriptAgrees`, `SignalAnswers` | `StaysErased`: a row erased before the call keeps no text; `CountStands`: a title's count is that of the rows until its day is written; `FoundConvs`: the conversations found are those that match, where they did not change |
| chats | `NeverSilent`, `ChatAnswers` | `SeenLinked`: a call past its health check was linked at some time of it; `TitlesStand` and `FoundChats` as for Signal; `NamesApart`: each kind of chat has its own name field |
| drive | `TellsTruly`, `DriveAnswers` | `Remembered`: what a retry remembers is Drive's last answer, and none outlives its request; `Gathered`: of the files that stayed, what the pages read so far name; `Whereabouts`, `Routed` |
| installer | `StaysLaunchable`, `InstallConverges`, `OwnFilesStay` | `Paired`: a signature has its manifest or is stranded, but for the pair being removed; `Vouched`: bytes of a release are named by it and vouched for by its manifest and signature, or known orphans, but for the release being placed; `Retiring`: while a run retires, every other release's plugin is still among the work, and its evidence is there to authenticate it; `Renamed`, `Staged`, `Authentic`, `Serves` |

The assumptions are those of the parts' modules, gathered in `SourcesAssumption`:
bounds are numbers, sentinels are no members, there is at least one page, message
and file to speak of, `PathTo` gives each folder the way to it from the root, and
releases and binaries are not called as the model's marks are. TLC evaluates them in this
run. Model-checked only are the three liveness properties, `LaunchesEnd`,
`ScanEnds` and `PagingEnds`.

The other runs are described in the sections of the sync, the authorization and
the message store; between them the passing runs fire every action. Parts that
do share state are composed where they meet instead: the sync
with Drive and other calls, the token file with `auth`, the store with its
writers.

| Part | Bounds | Enough for |
|---|---|---|
| session | two processes, two launches, one trouble | a link command against a serving plugin, one of them killed, dropped or logged out |
| proton | one message, two mailboxes, two overlapping calls, three calls, one move or restart | a label in either mailbox, a merge after a merge, a Fetch after both |
| silverbullet | two pages, one read at a time, one edit | one read waiting, one failing, a page gone between listing and reading |
| paperless | five documents, pages of two, two filings | three pages, a shift across both boundaries |
| filesystem | a folder below the root, three files, a cap of one, one change | a set beyond the cap, each rule of the scope but dot folders, a change during the walk |
| signal | three messages, two conversations, a tail of one, two writes | an erased message in and outside the tail, a rename and a write within one call |
| chats | a group and a 1:1 chat, three messages, two writes | each field with either kind, health that changes and changes back |
| drive | a file, a document that exceeds the export limit, a file too large; one change | each outcome of Fetch, three pages of results, every retry sequence |
| installer | two releases with one plugin in common, two mishaps | placing and retiring in one run, killed twice |

## Plan

Done: every module above, checked, and proofs of every safety property the passing
runs check, `NoLostChange` under the conditions named with it. Liveness is left to
TLC: `ConvergesUnlessOrphaned`, `Answered`, `GroupsConverge`, `LaunchesEnd`,
`ScanEnds` and `PagingEnds`.

Left, in order:

1. The composition of the sync with its callers: the sync inside
   `DriveContent`, as an abstraction that `DriveStore` implements.
2. A `Fetch` of Paperless with its thumbnail, and dot folders in the checked
   instance of `FilesystemWalk` (`DotFolders` is empty there).

## Not modelled

- Search kit (`searchkit`): pure text matching, folding and snippets. The models
  take its result, a set of items. It is a string algorithm over runes, which is
  what its own tests enumerate.
- WhatsApp rendering, and the rendering, HTML, deep links, MIME handling, logging
  and wording of every other plugin: pure functions of rows the models read.
- The demo plugin and the test helpers; generated gRPC code.
- `install-signal.sh`, which places one locally built binary, and the parsing of
  `checksums.txt` and of the redirect to the latest release.
- TLS pinning, OAuth's, SQLite's and whatsmeow's own behaviour, as far as the code
  in `src/` does not depend on it; where it does, it is an external definition.
