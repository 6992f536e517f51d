--------------------------- MODULE SourcePluginsProofs ---------------------------
(***************************************************************************)
(* What is proved of a part by itself holds of it beside the others.  The  *)
(* proofs of WhatsAppSession and SilverbulletSpace are instantiated as     *)
(* SessionP and SpaceP, with the variables that SourcePlugins gives the    *)
(* parts; with SourcePartsProofs they make up the types of the whole.      *)
(***************************************************************************)
EXTENDS SourcePartsProofs

SessionP == INSTANCE WhatsAppSessionProofs
SpaceP   == INSTANCE SilverbulletSpaceProofs

-----------------------------------------------------------------------------
\* A step of another part leaves a part's variables alone.
LEMMA SessionSteps == [Next]_vars => [Session!Next]_sessionVars
<1> USE DEF vars
<1>1. WhatsApp => Session!Next
  BY DEF WhatsApp
<1>2. Proton \/ Silverbullet \/ Paperless \/ Filesystem \/ SignalDesktop \/ Chats
        \/ DriveRequests \/ Install \/ UNCHANGED vars => UNCHANGED sessionVars
  BY DEF Proton, Silverbullet, Paperless, Filesystem, SignalDesktop, Chats, DriveRequests,
         Install
<1>3. QED BY <1>1, <1>2 DEF Next

LEMMA SpaceSteps ==
  [Next]_vars => \/ chosen = "silverbullet" /\ Space!Next
                 \/ UNCHANGED vars
                 \/ chosen # "silverbullet" /\ UNCHANGED spaceVars
<1>1. Silverbullet => chosen = "silverbullet" /\ Space!Next
  BY DEF Silverbullet
<1>2. WhatsApp \/ Proton \/ Paperless \/ Filesystem \/ SignalDesktop \/ Chats
        \/ DriveRequests \/ Install => chosen # "silverbullet" /\ UNCHANGED spaceVars
  BY DEF WhatsApp, Proton, Paperless, Filesystem, SignalDesktop, Chats, DriveRequests, Install
<1>3. QED BY <1>1, <1>2 DEF Next

-----------------------------------------------------------------------------
\* The session beside the other parts is the session proved about.
LEMMA SessionInit == Init => SessionP!Init
BY DEF Init, Session!Init, SessionP!Init

LEMMA SessionNext == Session!Next => SessionP!Next
BY DEF Session!Modes, Session!Events, Session!Healths, Session!Outcomes, Session!Terminal,
       Session!Running, Session!Trouble, Session!Smooth, Session!Goto, Session!Gone,
       Session!Start, Session!Kill, Session!FailStart, Session!OpenMessageStore,
       Session!AcquireStoreLock, Session!OpenSession, Session!ReadDevice,
       Session!ServeConnect, Session!ReportRefused, Session!RetireWaiter,
       Session!Finish, Session!Tell, Session!LinkConnect, Session!ShowCode,
       Session!NotScanned, Session!PairingAccepted, Session!AwaitLogin,
       Session!CloseAll, Session!TellOutcome, Session!Queue, Session!Scan,
       Session!Login, Session!LoginRefused, Session!ServerEnds, Session!Unlink,
       Session!Drop, Session!Redial, Session!HealthAfter, Session!Signalled,
       Session!Dispatch, Session!Startup, Session!Link, Session!Library, Session!Next,
       SessionP!Modes, SessionP!Events, SessionP!Healths, SessionP!Outcomes,
       SessionP!Terminal, SessionP!Running, SessionP!Trouble, SessionP!Smooth,
       SessionP!Goto, SessionP!Gone, SessionP!Start, SessionP!Kill, SessionP!FailStart,
       SessionP!OpenMessageStore, SessionP!AcquireStoreLock, SessionP!OpenSession,
       SessionP!ReadDevice, SessionP!ServeConnect, SessionP!ReportRefused,
       SessionP!RetireWaiter, SessionP!Finish, SessionP!Tell, SessionP!LinkConnect,
       SessionP!ShowCode, SessionP!NotScanned, SessionP!PairingAccepted,
       SessionP!AwaitLogin, SessionP!CloseAll, SessionP!TellOutcome, SessionP!Queue,
       SessionP!Scan, SessionP!Login, SessionP!LoginRefused, SessionP!ServerEnds,
       SessionP!Unlink, SessionP!Drop, SessionP!Redial, SessionP!HealthAfter,
       SessionP!Signalled, SessionP!Dispatch, SessionP!Startup, SessionP!Link,
       SessionP!Library, SessionP!Next

LEMMA SessionRuns == Spec => SessionP!Spec
<1>1. [Next]_vars => [SessionP!Next]_(SessionP!vars)
  BY SessionSteps, SessionNext DEF sessionVars, SessionP!vars
<1>2. QED BY <1>1, SessionInit, PTL DEF Spec, SessionP!Spec

LEMMA SessionAssumed == SessionP!SessionAssumption
BY SourcesAssumption DEF Session!SessionAssumption, SessionP!SessionAssumption

\* Beside every other part, whatsmeow.db is open only under the flock
\* (storelock.go).
THEOREM StoreExclusive == Spec => []OneSession
<1>1. SessionP!OneSession => OneSession
  BY DEF SessionP!OneSession, OneSession, Session!OneSession
<1>2. QED BY <1>1, SessionAssumed, SessionRuns, SessionP!StoreExclusive, PTL

\* A healthy answer stands on a login that nothing the plugin has been told of
\* has ended (health.go).
THEOREM HealthStands == Spec => []HealthyNeedsSession
<1>1. SessionP!HealthyNeedsSession => HealthyNeedsSession
  BY DEF SessionP!HealthyNeedsSession, HealthyNeedsSession, Session!HealthyNeedsSession,
         SessionP!Serves, Session!Serves
<1>2. QED BY <1>1, SessionAssumed, SessionRuns, SessionP!HealthStands, PTL

\* `paired` is told last, after a login, with the store and its lock released
\* (link.go).
THEOREM PairingTold == Spec => []TellsHonestly
<1>1. SessionP!TellsHonestly => TellsHonestly
  BY DEF SessionP!TellsHonestly, TellsHonestly, Session!TellsHonestly, SessionP!Terminal,
         Session!Terminal
<1>2. QED BY <1>1, SessionAssumed, SessionRuns, SessionP!PairingTold, PTL

-----------------------------------------------------------------------------
\* The space beside the other parts is the space proved about.
LEMMA SpaceInit == Init => SpaceP!Init
BY DEF Init, Space!Init, SpaceP!Init, Space!Texts, SpaceP!Texts, Space!Unasked, SpaceP!Unasked,
       Space!NoPage, SpaceP!NoPage

LEMMA SpaceNext == Space!Next => SpaceP!Next
<1> USE DEF Space!Running, SpaceP!Running, Space!Touch, SpaceP!Touch
<1>1. ASSUME NEW w, NEW t, NEW n PROVE Space!StartScan(w, t, n) => SpaceP!StartScan(w, t, n)
  BY DEF Space!StartScan, SpaceP!StartScan, Space!Unasked, SpaceP!Unasked
<1>2. Space!ListFiles => SpaceP!ListFiles
  BY DEF Space!ListFiles, SpaceP!ListFiles
<1>3. Space!FinishScan => SpaceP!FinishScan
  BY Zenon DEF Space!FinishScan, SpaceP!FinishScan
<1>4. ASSUME NEW p \in Pages PROVE Space!StartRead(p) => SpaceP!StartRead(p)
  BY DEF Space!StartRead, SpaceP!StartRead, Space!Cardinality, SpaceP!Cardinality
<1>5. ASSUME NEW p \in Pages PROVE Space!ReadPage(p) => SpaceP!ReadPage(p)
  <2>1. Space!Matches(p, space[p]) <=> SpaceP!Matches(p, space[p])
    BY DEF Space!Matches, SpaceP!Matches
  <2>2. QED BY <2>1 DEF Space!ReadPage, SpaceP!ReadPage
<1>6. ASSUME NEW p \in Pages PROVE Space!ReadFails(p) => SpaceP!ReadFails(p)
  BY DEF Space!ReadFails, SpaceP!ReadFails
<1>7. ASSUME NEW p \in Pages PROVE Space!StartPage(p) => SpaceP!StartPage(p)
  BY DEF Space!StartPage, SpaceP!StartPage
<1>8. Space!FetchPage => SpaceP!FetchPage
  BY DEF Space!FetchPage, SpaceP!FetchPage, Space!Stored, SpaceP!Stored, Space!FileOf,
         SpaceP!FileOf, Space!NoPage, SpaceP!NoPage
<1>9. ASSUME NEW p \in Pages PROVE Space!EditPage(p) => SpaceP!EditPage(p)
  BY DEF Space!EditPage, SpaceP!EditPage, Space!Texts, SpaceP!Texts
<1>10. ASSUME NEW p \in Pages, NEW q \in Pages
       PROVE  Space!RenamePage(p, q) => SpaceP!RenamePage(p, q)
  BY DEF Space!RenamePage, SpaceP!RenamePage
<1>11. QED
  BY <1>1, <1>2, <1>3, <1>4, <1>5, <1>6, <1>7, <1>8, <1>9, <1>10
  DEF Space!Next, SpaceP!Next, Space!Step, SpaceP!Step, Space!StartMatch, SpaceP!StartMatch,
      Space!StartSearch, SpaceP!StartSearch

LEMMA SpaceAssumed == SpaceP!SpaceAssumption
BY SourcesAssumption DEF Space!SpaceAssumption, SpaceP!SpaceAssumption

LEMMA SpaceRuns == Spec => SpaceP!Spec
<1>1. [Next]_vars => [SpaceP!Next]_(SpaceP!vars)
  BY SpaceSteps, SpaceNext DEF vars, spaceVars, SpaceP!vars
<1>2. QED BY <1>1, SpaceInit, PTL DEF Spec, SpaceP!Spec

\* Match and Search of Silverbullet give whole answers, beside every other part:
\* each step of theirs is one of SourceContract's, a single read an idle Stir.
THEOREM Answers == Spec => SpaceAnswers
<1>1. SpaceP!IInv /\ [Next]_vars
        => [chosen = "silverbullet" => Space!SpaceContract!Next]_vars
  <2>1. SpaceP!SpaceContract!Next => Space!SpaceContract!Next
    BY DEF SpaceP!SpaceContract!Next, SpaceP!SpaceContract!Stir, SpaceP!SpaceContract!Forget,
           SpaceP!SpaceContract!Begin, SpaceP!SpaceContract!Refuse,
           SpaceP!SpaceContract!Give, SpaceP!SpaceContract!Differ,
           SpaceP!SpaceContract!Nothing, Space!SpaceContract!Next, Space!SpaceContract!Stir,
           Space!SpaceContract!Forget, Space!SpaceContract!Begin,
           Space!SpaceContract!Refuse, Space!SpaceContract!Give, Space!SpaceContract!Differ,
           Space!SpaceContract!Nothing, SpaceP!MembersNow, SpaceP!Matches, SpaceP!ReplyNow,
           SpaceP!Running, Space!MembersNow, Space!Matches, Space!ReplyNow, Space!Running
  <2>2. QED BY <2>1, SpaceSteps, SpaceNext, SpaceP!StepMaps
<1>2. Init => Space!SpaceContract!Init
  BY SpaceInit, SpaceP!InitMaps
  DEF SpaceP!SpaceContract!Init, SpaceP!SpaceContract!Nothing, Space!SpaceContract!Init,
      Space!SpaceContract!Nothing, SpaceP!MembersNow, SpaceP!Matches, SpaceP!ReplyNow,
      SpaceP!Running, Space!MembersNow, Space!Matches, Space!ReplyNow, Space!Running
<1>3. QED BY <1>1, <1>2, SpaceRuns, SpaceP!Inductive, PTL DEF Spec, SpaceAnswers

\* Fetch of Silverbullet finds the page that Match listed.
THEOREM Found == Spec => []PageOpens
<1>1. SpaceP!PageOpens => PageOpens
  BY DEF SpaceP!PageOpens, PageOpens, Space!PageOpens
<1>2. QED BY <1>1, SpaceRuns, SpaceP!Found, PTL

-----------------------------------------------------------------------------
LEMMA SessionTyped == Spec => []Session!SessionTypeOK
<1>1. SessionP!SessionTypeOK => Session!SessionTypeOK
  BY DEF SessionP!SessionTypeOK, Session!SessionTypeOK, SessionP!Modes, Session!Modes,
         SessionP!Events, Session!Events, SessionP!Healths, Session!Healths,
         SessionP!Outcomes, Session!Outcomes, SessionP!Terminal, Session!Terminal
<1>2. QED BY <1>1, SessionAssumed, SessionRuns, SessionP!TypeCorrect, PTL

LEMMA SpaceTyped == Spec => []Space!SpaceTypeOK
<1>1. SpaceP!SpaceTypeOK => Space!SpaceTypeOK
  BY DEF SpaceP!SpaceTypeOK, Space!SpaceTypeOK, SpaceP!Texts, Space!Texts, SpaceP!Scans,
         Space!Scans, SpaceP!Cardinality, Space!Cardinality
<1>2. QED BY <1>1, SpaceAssumed, SpaceRuns, SpaceP!TypeCorrect, PTL

LEMMA SetupTypes == SetupInv /\ Paired => Setup!InstallTypeOK
BY DEF SetupInv, SetupTyped, Scripts, Paired, Setup!InstallTypeOK

LEMMA ChosenStays == chosen \in Parts /\ [Next]_vars => (chosen \in Parts)'
BY DEF Next, WhatsApp, Proton, Silverbullet, Paperless, Filesystem, SignalDesktop, Chats,
       DriveRequests, Install, vars

\* Every part keeps to its types, beside every other: with those of the calls,
\* the states a handler, a page or a retry can be found in.
THEOREM TypesHold == Spec => []TypeOK
<1>1. Spec => [](chosen \in Parts)
  <2>1. Init => chosen \in Parts
    BY DEF Init
  <2>2. QED BY <2>1, ChosenStays, PTL DEF Spec
<1>2. Spec => []MailInv /\ []ArchiveInv /\ []WalkInv
  BY MailStarts, MailKeeps, ArchiveStarts, ArchiveKeeps, WalkStarts, WalkKeeps, PTL DEF Spec
<1>3. Spec => []SignalInv /\ []ChatInv /\ []ContentInv
  BY SignalStarts, SignalKeeps, ChatStarts, ChatKeeps, ContentStarts, ContentKeeps, PTL DEF Spec
<1>4. MailInv /\ ArchiveInv /\ WalkInv => Mail!MailTypeOK /\ Archive!PagingTypeOK /\ Walk!WalkTypeOK
  BY DEF MailInv, ArchiveInv, WalkInv
<1>5. SignalInv /\ ChatInv /\ ContentInv
        => Signal!SignalTypeOK /\ Chat!ReaderTypeOK /\ Content!ContentTypeOK
  BY DEF SignalInv, ChatInv, ContentInv
<1>6. QED
  BY <1>1, <1>2, <1>3, <1>4, <1>5, SessionTyped, SpaceTyped, SetupStands, PairedStands,
     SetupTypes, PTL
  DEF TypeOK
=============================================================================
