----------------------------- MODULE SourcePlugins -----------------------------
(***************************************************************************)
(* The plugins side by side, each from the side modelled apart: WhatsApp's *)
(* session and its readings, Drive's requests around the sync, the others  *)
(* whole; and the installer, which places their binaries.  The host runs   *)
(* every plugin as a process of its own, and they share nothing: what one  *)
(* does enables and changes nothing in another, so that each behaviour of  *)
(* one is shown with the others at rest, and the states to be checked are  *)
(* the sum of theirs.                                                      *)
(***************************************************************************)
EXTENDS Naturals, FiniteSets, Sequences

CONSTANTS
    \* WhatsAppSession
    Procs, NoProc, MaxStarts, MaxTroubles,
    \* ProtonMail
    Mails, Mailboxes, NoMailbox, Listers, MaxMailMoves, MaxMailCalls,
    \* SilverbulletSpace
    Pages, NamedPages, MatchConcurrency, MaxEdits,
    \* PaperlessArchive
    LastDoc, PageSize, SearchedDocs, MaxFilings,
    \* FilesystemWalk
    Folders, Top, PathTo, Files, FolderOf, DotFolders, DotFiles, KnownFiles, ShownFiles,
    SearchedFiles, Configs, MaxWalkItems, MaxTouches,
    \* SignalReader
    Convs, Self, LastMessage, ConvOf, DayOf, TailMessageCount, MaxWrites,
    \* ChatReader
    Groups, Contacts, LastNote, ChatOfNote, DayOfNote, MaxChatWrites,
    \* DriveContent
    DriveItems, KindOf, MaxDriveMoves,
    \* Installer
    Releases, NoRelease, Binaries, Publishes, MaxMishaps

VARIABLES
    chosen,     \* the part that is followed
    device, linked, holder, mode, at, open, conn, inbox, waiter, health, outcome, told, entered,
    starts, troubles,
    filed, mailboxCache, listing, opening, settled, mailMoves, mailCalls,
    space, scan, page, current, edits,
    carries, tagNamed, paging, filings,
    config, present, outside, readable, mounted, walking, fetched, listed, touches,
    rows, named, profiled, install, query, counted, writes,
    healthy, subject, contact, stored, reader, titled, chatWrites,
    within, found, rpc, driveMoves,
    placed, manifests, sigs, script, serving, orphans, stranded, mishaps

Session == INSTANCE WhatsAppSession
Mail    == INSTANCE ProtonMail
Space   == INSTANCE SilverbulletSpace
Archive == INSTANCE PaperlessArchive
Walk    == INSTANCE FilesystemWalk
Signal  == INSTANCE SignalReader
Chat    == INSTANCE ChatReader
Content == INSTANCE DriveContent
Setup   == INSTANCE Installer

\* What each module requires of its constants.
ASSUME SourcesAssumption ==
    /\ Session!SessionAssumption /\ Mail!MailAssumption /\ Space!SpaceAssumption
    /\ Archive!ArchiveAssumption /\ Walk!WalkAssumption /\ Signal!SignalAssumption
    /\ Chat!ChatReaderAssumption /\ Content!ContentAssumption /\ Setup!InstallerAssumption

sessionVars == <<device, linked, holder, mode, at, open, conn, inbox, waiter, health, outcome,
                 told, entered, starts, troubles>>
mailVars    == <<filed, mailboxCache, listing, opening, settled, mailMoves, mailCalls>>
spaceVars   == <<space, scan, page, current, edits>>
archiveVars == <<carries, tagNamed, paging, filings>>
walkVars    == <<config, present, outside, readable, mounted, walking, fetched, listed, touches>>
signalVars  == <<rows, named, profiled, install, query, counted, writes>>
chatVars    == <<healthy, subject, contact, stored, reader, titled, chatWrites>>
contentVars == <<within, found, rpc, driveMoves>>
setupVars   == <<placed, manifests, sigs, script, serving, orphans, stranded, mishaps>>

vars == <<chosen, sessionVars, mailVars, spaceVars, archiveVars, walkVars, signalVars, chatVars,
          contentVars, setupVars>>

Parts == {"session", "proton", "silverbullet", "paperless", "filesystem", "signal", "chats",
          "drive", "installer"}

TypeOK ==
    /\ chosen \in Parts
    /\ Session!SessionTypeOK /\ Mail!MailTypeOK /\ Space!SpaceTypeOK
    /\ Archive!PagingTypeOK /\ Walk!WalkTypeOK /\ Signal!SignalTypeOK
    /\ Chat!ReaderTypeOK /\ Content!ContentTypeOK /\ Setup!InstallTypeOK

-----------------------------------------------------------------------------
\* Parts that are not followed start, and stay, over an empty source.
Init ==
    /\ chosen \in Parts
    /\ Session!Init /\ (chosen # "session"     => ~device)
    /\ Mail!Init    /\ (chosen # "proton"       => \A m \in Mails : filed[m] = {})
    /\ Space!Init   /\ (chosen # "silverbullet" => \A p \in Pages : space[p] = "absent")
    /\ Archive!Init /\ (chosen # "paperless"    => carries = {} /\ ~tagNamed)
    /\ Walk!Init    /\ (chosen # "filesystem"   => present = {} /\ config = CHOOSE c \in Configs : TRUE)
    /\ Signal!Init  /\ (chosen # "signal"       => /\ install = "ready" /\ named = {}
                                                  /\ \A m \in DOMAIN rows : rows[m] = "none")
    /\ Chat!Init    /\ (chosen # "chats"        => /\ healthy /\ subject = {} /\ contact = {}
                                                  /\ \A n \in DOMAIN stored : stored[n] = "none")
    /\ Content!Init /\ (chosen # "drive"        => within = {} /\ found = {})
    /\ Setup!Init

WhatsApp ==
    /\ chosen = "session" /\ Session!Next
    /\ UNCHANGED <<chosen, mailVars, spaceVars, archiveVars, walkVars, signalVars,
                   chatVars, contentVars, setupVars>>

Proton ==
    /\ chosen = "proton" /\ Mail!Next
    /\ UNCHANGED <<chosen, sessionVars, spaceVars, archiveVars, walkVars, signalVars,
                   chatVars, contentVars, setupVars>>

Silverbullet ==
    /\ chosen = "silverbullet" /\ Space!Next
    /\ UNCHANGED <<chosen, sessionVars, mailVars, archiveVars, walkVars, signalVars,
                   chatVars, contentVars, setupVars>>

Paperless ==
    /\ chosen = "paperless" /\ Archive!Next
    /\ UNCHANGED <<chosen, sessionVars, mailVars, spaceVars, walkVars, signalVars,
                   chatVars, contentVars, setupVars>>

Filesystem ==
    /\ chosen = "filesystem" /\ Walk!Next
    /\ UNCHANGED <<chosen, sessionVars, mailVars, spaceVars, archiveVars, signalVars,
                   chatVars, contentVars, setupVars>>

SignalDesktop ==
    /\ chosen = "signal" /\ Signal!Next
    /\ UNCHANGED <<chosen, sessionVars, mailVars, spaceVars, archiveVars, walkVars,
                   chatVars, contentVars, setupVars>>

Chats ==
    /\ chosen = "chats" /\ Chat!Next
    /\ UNCHANGED <<chosen, sessionVars, mailVars, spaceVars, archiveVars, walkVars,
                   signalVars, contentVars, setupVars>>

DriveRequests ==
    /\ chosen = "drive" /\ Content!Next
    /\ UNCHANGED <<chosen, sessionVars, mailVars, spaceVars, archiveVars, walkVars,
                   signalVars, chatVars, setupVars>>

Install ==
    /\ chosen = "installer" /\ Setup!Next
    /\ UNCHANGED <<chosen, sessionVars, mailVars, spaceVars, archiveVars, walkVars,
                   signalVars, chatVars, contentVars>>

Next ==
    \/ WhatsApp \/ Proton \/ Silverbullet \/ Paperless \/ Filesystem \/ SignalDesktop
    \/ Chats \/ DriveRequests \/ Install

Spec == Init /\ [][Next]_vars

\* The fairness each part's own module states and explains.
FairSpec == Spec /\ Session!FairSession /\ Space!Fair /\ Archive!Fair

-----------------------------------------------------------------------------
\* The properties of the parts, as their modules state them.  A part implements
\* its contract by its own steps; those of the others change nothing of it.

\* WhatsAppSession: whatsmeow.db is open only under the flock (storelock.go).
OneSession == Session!OneSession

\* WhatsAppSession: a served answer stands on a live login (health.go).
HealthyNeedsSession == Session!HealthyNeedsSession

\* WhatsAppSession: `paired` is told after a login, with the lock free (link.go).
TellsHonestly == Session!TellsHonestly

\* WhatsAppSession: every launch serves or ends (connect.go, pairwait.go).
LaunchesEnd == Session!LaunchesEnd

\* ProtonMail: Match and Search give whole answers (proton/plugin.go).
MailAnswers == Mail!MailContract!Init /\ [][chosen = "proton" => Mail!MailContract!Next]_vars

\* ProtonMail: Fetch finds a message that stayed where it was listed.
OpenFinds == Mail!OpenFinds

\* SilverbulletSpace: Match and Search give whole answers (silverbullet/plugin.go).
SpaceAnswers == Space!SpaceContract!Init /\ [][chosen = "silverbullet" => Space!SpaceContract!Next]_vars

\* SilverbulletSpace: Fetch finds the page that Match listed.
PageOpens == Space!PageOpens

\* SilverbulletSpace: every call ends, its goroutines with it.
ScanEnds == Space!ScanEnds

\* PaperlessArchive: paging misses no document that was there (paperless/client.go).
ArchiveAnswers == Archive!ArchiveContract!Init /\ [][chosen = "paperless" => Archive!ArchiveContract!Next]_vars

\* PaperlessArchive: paging ends.
PagingEnds == Archive!PagingEnds

\* FilesystemWalk: the complete current set, never a partial one (filesystem/walk.go).
WalkAnswers == Walk!WalkContract!Init /\ [][chosen = "filesystem" => Walk!WalkContract!Next]_vars

\* FilesystemWalk: Fetch agrees with Match about the scope (filesystem/fetch.go).
FileOpens == Walk!FileOpens

\* SignalReader: whole answers over a database that is written (signal/plugin.go).
SignalAnswers == Signal!SignalContract!Init /\ [][chosen = "signal" => Signal!SignalContract!Next]_vars

\* SignalReader: no erased text in a preview (signal/message.go, digest.go).
ErasedHidden == Signal!ErasedHidden

\* SignalReader: a digest opens with the messages its title counts.
TranscriptAgrees == Signal!TranscriptAgrees

\* ChatReader: whole answers although two statements read them (whatsapp/plugin.go).
ChatAnswers == Chat!ChatContract!Init /\ [][chosen = "chats" => Chat!ChatContract!Next]_vars

\* ChatReader: no answer from a session that was down all along; digests open.
NeverSilent == Chat!NeverSilent

\* DriveContent: whole answers whatever becomes of previews and pages (gdrive/plugin.go).
DriveAnswers == Content!DriveContract!Init /\ [][chosen = "drive" => Content!DriveContract!Next]_vars

\* DriveContent: what an answer or an error tells is so (gdrive/driveclient.go).
TellsTruly == Content!TellsTruly

\* Installer: a finished run leaves one release, whatever was cut short (scripts/install.sh).
InstallConverges == Setup!InstallConverges

\* Installer: retiring a plugin spares the operator's own files.
OwnFilesStay == Setup!OwnFilesStay

\* Installer: a complete fleet stays launchable until another is placed.
StaysLaunchable == Setup!StaysLaunchable
=============================================================================
