---------------------------- MODULE SourcePartsProofs ----------------------------
(***************************************************************************)
(* The remaining parts of SourcePlugins, proved about where they stand,    *)
(* beside the others: that their answers are those of SourceContract, and  *)
(* what a call of theirs tells.                                            *)
(***************************************************************************)
EXTENDS SourcePlugins, FiniteSetTheorems, TLAPS

-----------------------------------------------------------------------------
\* Proton Mail

LEMMA MailSteps ==
  [Next]_vars => \/ chosen = "proton" /\ Mail!Next
                 \/ UNCHANGED vars
                 \/ chosen # "proton" /\ UNCHANGED mailVars
<1>1. Proton => chosen = "proton" /\ Mail!Next
  BY DEF Proton
<1>2. WhatsApp \/ Silverbullet \/ Paperless \/ Filesystem \/ SignalDesktop \/ Chats
        \/ DriveRequests \/ Install => chosen # "proton" /\ UNCHANGED mailVars
  BY DEF WhatsApp, Silverbullet, Paperless, Filesystem, SignalDesktop, Chats, DriveRequests,
         Install
<1>3. QED BY <1>1, <1>2 DEF Next

\* What a call has read is what it will report: of a message nothing has
\* happened to, the mailboxes examined so far that list it, and one of them
\* for the cache.
Merges(l, where) ==
    /\ l.todo \subseteq l.folders
    /\ \A m \in Mails :
          /\ l.first[m] = NoMailbox <=> l.labels[m] = {}
          /\ l.first[m] # NoMailbox => l.first[m] \in l.labels[m]
    /\ \A m \in Mails \ l.stirred :
          l.labels[m] = IF m \in l.query THEN where[m] \cap (l.folders \ l.todo) ELSE {}

MailInv ==
    /\ Mail!MailTypeOK
    /\ \A c \in Listers : listing[c].at = "reading" => Merges(listing[c], filed)
    /\ \A m \in settled : mailboxCache[m] \in filed[m]
    /\ opening.sure => /\ opening.at \notin {"idle", "notfound"}
                       /\ opening.at \in {"examine", "body"} =>
                             opening.mailbox \in filed[opening.mail]

LEMMA MailAssumed == Mail!MailAssumption
BY SourcesAssumption

LEMMA MailStarts == Init => MailInv
<1> SUFFICES ASSUME Init PROVE MailInv
  OBVIOUS
<1>1. Mail!Init /\ Mails # {}
  BY MailAssumed DEF Init, Mail!MailAssumption
<1>2. Mail!Idle \in Mail!Lists /\ mailboxCache \in Mail!Found
  BY <1>1 DEF Mail!Init, Mail!Idle, Mail!Lists, Mail!Found, Mail!Nowhere
<1>3. Mail!Closed \in Mail!Opens
  BY <1>1 DEF Mail!Closed, Mail!Opens
<1>4. Mail!MailTypeOK
  BY <1>1, <1>2, <1>3, MailAssumed DEF Mail!Init, Mail!MailTypeOK, Mail!MailAssumption
<1>5. QED BY <1>1, <1>4 DEF MailInv, Mail!Init, Mail!Idle, Mail!Closed

LEMMA ListingBegins ==
  ASSUME MailInv, NEW c \in Listers, NEW F \in SUBSET Mailboxes, NEW Q \in SUBSET Mails,
         Mail!StartListing(c, F, Q)
  PROVE  MailInv'
<1>1. /\ listing'[c].at = "reading" /\ listing'[c].folders = F /\ listing'[c].query = Q
      /\ listing'[c].todo = F /\ listing'[c].first = Mail!Nowhere
      /\ listing'[c].labels = [m \in Mails |-> {}] /\ listing'[c].stirred = {}
      /\ listing'[c] \in Mail!Lists
  BY DEF Mail!StartListing, Mail!Idle, MailInv, Mail!MailTypeOK, Mail!Lists, Mail!Nowhere,
         Mail!Found
<1>2. /\ \A d \in Listers \ {c} : listing'[d] = listing[d]
      /\ listing' \in [Listers -> Mail!Lists]
      /\ UNCHANGED <<filed, mailboxCache, opening, settled, mailMoves>>
      /\ mailCalls' \in 0 .. MaxMailCalls
  BY <1>1, MailAssumed
  DEF MailInv, Mail!MailTypeOK, Mail!StartListing, Mail!NewCall, Mail!MailAssumption
<1>3. Mail!MailTypeOK'
  BY <1>2 DEF MailInv, Mail!MailTypeOK
<1>4. Merges(listing'[c], filed')
  BY <1>1 DEF Merges, Mail!Nowhere
<1>5. \A d \in Listers : listing'[d].at = "reading" => Merges(listing'[d], filed')
  BY <1>2, <1>4 DEF MailInv
<1>6. QED BY <1>2, <1>3, <1>5 DEF MailInv

LEMMA MailboxExamined ==
  ASSUME MailInv, NEW c \in Listers, Mail!ExamineMailbox(c)
  PROVE  MailInv'
<1>1. PICK b \in listing[c].todo : listing' = [listing EXCEPT ![c] = Mail!Examined(@, b)]
  BY DEF Mail!ExamineMailbox
<1> DEFINE l == listing[c]
           here == {m \in l.query : b \in filed[m]}
<1>2. l \in Mail!Lists /\ l.at = "reading" /\ Merges(l, filed) /\ b \in Mailboxes
  BY <1>1 DEF MailInv, Mail!MailTypeOK, Mail!ExamineMailbox, Mail!Lists
<1>3. /\ listing'[c].at = "reading" /\ listing'[c].folders = l.folders
      /\ listing'[c].query = l.query /\ listing'[c].stirred = l.stirred
      /\ listing'[c].todo = l.todo \ {b}
      /\ listing'[c].first =
            [m \in Mails |-> IF m \in here /\ l.first[m] = NoMailbox THEN b ELSE l.first[m]]
      /\ listing'[c].labels =
            [m \in Mails |-> IF m \in here THEN l.labels[m] \cup {b} ELSE l.labels[m]]
      /\ listing'[c] \in Mail!Lists
  <2>1. listing'[c] = Mail!Examined(l, b)
    BY <1>1 DEF MailInv, Mail!MailTypeOK
  <2>2. listing'[c] = [l EXCEPT
            !.todo = l.todo \ {b},
            !.first = [m \in Mails |-> IF m \in here /\ l.first[m] = NoMailbox
                                         THEN b ELSE l.first[m]],
            !.labels = [m \in Mails |-> IF m \in here THEN l.labels[m] \cup {b}
                                                        ELSE l.labels[m]]]
    BY <2>1, Zenon DEF Mail!Examined
  <2> HIDE DEF here, l
  <2>3. l \in Mail!Lists
    BY <1>2
  <2> DEFINE first == [m \in Mails |-> IF m \in here /\ l.first[m] = NoMailbox
                                         THEN b ELSE l.first[m]]
               labels == [m \in Mails |-> IF m \in here THEN l.labels[m] \cup {b}
                                                        ELSE l.labels[m]]
  <2>5. first \in Mail!Found /\ labels \in [Mails -> SUBSET Mailboxes]
    BY <1>2, <2>3 DEF Mail!Lists, Mail!Found
  <2>6. listing'[c] = [l EXCEPT !.todo = l.todo \ {b}, !.first = first, !.labels = labels]
    BY <2>2
  <2> HIDE DEF first, labels
  <2>7. /\ listing'[c].at = l.at /\ listing'[c].folders = l.folders
        /\ listing'[c].query = l.query /\ listing'[c].stirred = l.stirred
        /\ listing'[c].todo = l.todo \ {b} /\ listing'[c].first = first
        /\ listing'[c].labels = labels /\ listing'[c] \in Mail!Lists
    BY <2>3, <2>5, <2>6 DEF Mail!Lists
  <2>8. QED BY <1>2, <2>7 DEF first, labels
<1>4. /\ UNCHANGED <<filed, mailboxCache, opening, settled, mailMoves, mailCalls>>
      /\ \A d \in Listers \ {c} : listing'[d] = listing[d]
      /\ listing' \in [Listers -> Mail!Lists]
  BY <1>1, <1>3 DEF MailInv, Mail!MailTypeOK, Mail!ExamineMailbox
<1>5. Merges(listing'[c], filed')
  <2>1. ASSUME NEW m \in Mails
        PROVE  /\ listing'[c].first[m] = NoMailbox <=> listing'[c].labels[m] = {}
               /\ listing'[c].first[m] # NoMailbox
                     => listing'[c].first[m] \in listing'[c].labels[m]
    BY <1>2, <1>3, MailAssumed DEF Merges, Mail!MailAssumption, Mail!Lists, Mail!Found
  <2>2. ASSUME NEW m \in Mails \ l.stirred
        PROVE  listing'[c].labels[m] =
                 IF m \in l.query THEN filed[m] \cap (l.folders \ listing'[c].todo) ELSE {}
    <3>1. /\ l.labels[m] = IF m \in l.query THEN filed[m] \cap (l.folders \ l.todo) ELSE {}
          /\ b \in l.todo /\ b \in l.folders
      BY <1>1, <1>2 DEF Merges
    <3>2. listing'[c].labels[m] = IF m \in here THEN l.labels[m] \cup {b} ELSE l.labels[m]
      BY <1>3
    <3>3. QED BY <1>3, <3>1, <3>2
  <2>3. listing'[c].todo \subseteq listing'[c].folders
    BY <1>2, <1>3 DEF Merges
  <2>4. QED BY <1>3, <1>4, <2>1, <2>2, <2>3 DEF Merges
<1>6. \A d \in Listers : listing'[d].at = "reading" => Merges(listing'[d], filed')
  BY <1>4, <1>5 DEF MailInv
<1>7. Mail!MailTypeOK'
  BY <1>4 DEF MailInv, Mail!MailTypeOK
<1>8. QED BY <1>4, <1>6, <1>7 DEF MailInv

LEMMA ListingEnds ==
  ASSUME MailInv, NEW c \in Listers, Mail!ListingFails(c) \/ Mail!FinishListing(c)
  PROVE  MailInv'
<1>1. listing[c] \in Mail!Lists /\ listing[c].at = "reading" /\ Merges(listing[c], filed)
  BY DEF MailInv, Mail!MailTypeOK, Mail!ListingFails, Mail!FinishListing
<1>2. listing'[c] \in Mail!Lists /\ listing'[c].at # "reading"
  BY <1>1 DEF Mail!ListingFails, Mail!FinishListing, Mail!Lists, Mail!Found, Mail!Nowhere,
              Mail!Idle, MailInv, Mail!MailTypeOK
<1>3. /\ UNCHANGED <<filed, opening, mailMoves, mailCalls>>
      /\ \A d \in Listers \ {c} : listing'[d] = listing[d]
      /\ listing' \in [Listers -> Mail!Lists]
  BY <1>2 DEF MailInv, Mail!MailTypeOK, Mail!ListingFails, Mail!FinishListing
<1>4. /\ mailboxCache' \in Mail!Found /\ settled' \subseteq Mails
      /\ \A m \in settled' : mailboxCache'[m] \in filed[m]
  <2>1. CASE Mail!ListingFails(c)
    BY <2>1 DEF MailInv, Mail!MailTypeOK, Mail!ListingFails
  <2>2. CASE Mail!FinishListing(c)
    <3> DEFINE l == listing[c]
               reported == {m \in Mails : l.first[m] # NoMailbox}
    <3>1. /\ mailboxCache' = Mail!Merged(mailboxCache, l.first)
          /\ settled' = (settled \ reported) \cup (reported \ l.stirred)
      BY <2>2 DEF Mail!FinishListing
    <3>2. mailboxCache' = [m \in Mails |-> IF l.first[m] # NoMailbox THEN l.first[m]
                                                                     ELSE mailboxCache[m]]
      BY <3>1 DEF Mail!Merged
    <3>3. mailboxCache' \in Mail!Found
      BY <1>1, <3>2 DEF MailInv, Mail!MailTypeOK, Mail!Found, Mail!Lists
    <3>4. settled' \subseteq Mails
      BY <3>1 DEF MailInv, Mail!MailTypeOK
    <3>5. ASSUME NEW m \in settled \ reported PROVE mailboxCache'[m] \in filed[m]
      BY <3>2 DEF MailInv, Mail!MailTypeOK
    <3>6. ASSUME NEW m \in reported \ l.stirred PROVE mailboxCache'[m] \in filed[m]
      BY <1>1, <3>2 DEF Merges
    <3>7. QED BY <3>1, <3>3, <3>4, <3>5, <3>6
  <2>3. QED BY <2>1, <2>2
<1>5. Mail!MailTypeOK'
  BY <1>3, <1>4 DEF MailInv, Mail!MailTypeOK
<1>6. \A d \in Listers : listing'[d].at = "reading" => Merges(listing'[d], filed')
  BY <1>2, <1>3 DEF MailInv, Merges
<1>7. QED BY <1>3, <1>4, <1>5, <1>6 DEF MailInv

LEMMA FetchSteps ==
  ASSUME MailInv,
         (\E m \in Mails : Mail!StartFetch(m)) \/ Mail!FindUid \/ Mail!FetchBody \/ Mail!FetchFails
  PROVE  MailInv'
<1>1. UNCHANGED <<filed, mailboxCache, listing, settled, mailMoves>>
  BY DEF Mail!StartFetch, Mail!FindUid, Mail!FetchBody, Mail!FetchFails
<1>2. \A d \in Listers : listing'[d].at = "reading" => Merges(listing'[d], filed')
  BY <1>1 DEF MailInv, Merges
<1>3. mailCalls' \in 0 .. MaxMailCalls
  BY MailAssumed DEF MailInv, Mail!MailTypeOK, Mail!StartFetch, Mail!NewCall, Mail!FindUid,
     Mail!FetchBody, Mail!FetchFails, Mail!MailAssumption
<1>4. /\ opening' \in Mail!Opens
      /\ opening'.sure => /\ opening'.at \notin {"idle", "notfound"}
                          /\ opening'.at \in {"examine", "body"} =>
                                opening'.mailbox \in filed[opening'.mail]
  <2>1. ASSUME NEW m \in Mails, Mail!StartFetch(m) PROVE <1>4!1 /\ <1>4!2
    <3>1. opening' = [at |-> IF mailboxCache[m] = NoMailbox THEN "notfound" ELSE "examine",
                      mail |-> m, mailbox |-> mailboxCache[m], sure |-> m \in settled]
      BY <2>1 DEF Mail!StartFetch
    <3>2. mailboxCache[m] \in Mailboxes \cup {NoMailbox} /\ (m \in settled) \in BOOLEAN
      BY DEF MailInv, Mail!MailTypeOK, Mail!Found
    <3>3. opening' \in Mail!Opens
      BY <3>1, <3>2 DEF Mail!Opens
    <3>4. m \in settled => mailboxCache[m] \in filed[m] /\ mailboxCache[m] # NoMailbox
      BY MailAssumed DEF MailInv, Mail!MailTypeOK, Mail!MailAssumption
    <3>5. QED BY <3>1, <3>3, <3>4
  <2>2. CASE Mail!FindUid \/ Mail!FetchBody \/ Mail!FetchFails
    BY <2>2 DEF MailInv, Mail!MailTypeOK, Mail!Opens, Mail!FindUid, Mail!FetchBody,
                Mail!FetchFails, Mail!Listed
  <2>3. QED BY <2>1, <2>2
<1>5. Mail!MailTypeOK'
  BY <1>1, <1>3, <1>4 DEF MailInv, Mail!MailTypeOK
<1>6. QED BY <1>1, <1>2, <1>4, <1>5 DEF MailInv

LEMMA MailMoved ==
  ASSUME MailInv, NEW m \in Mails, Mail!MoveMail(m)
  PROVE  MailInv'
<1>1. PICK F \in SUBSET Mailboxes : filed' = [filed EXCEPT ![m] = F]
  BY DEF Mail!MoveMail
<1>2. /\ settled' = settled \ {m} /\ UNCHANGED <<mailboxCache, mailCalls>>
      /\ mailMoves' \in 0 .. MaxMailMoves
      /\ filed' \in [Mails -> SUBSET Mailboxes]
      /\ \A n \in Mails \ {m} : filed'[n] = filed[n]
  BY <1>1, MailAssumed DEF Mail!MoveMail, Mail!Trouble, MailInv, Mail!MailTypeOK, Mail!MailAssumption
<1>3. ASSUME NEW d \in Listers
      PROVE  /\ listing'[d] \in Mail!Lists
             /\ listing'[d].at = listing[d].at
             /\ listing'[d].at = "reading" => Merges(listing'[d], filed')
  <2>1. listing[d] \in Mail!Lists
    BY DEF MailInv, Mail!MailTypeOK
  <2>2. CASE listing[d].at # "reading"
    BY <2>1, <2>2 DEF Mail!MoveMail
  <2>3. CASE listing[d].at = "reading"
    <3>1. /\ listing'[d].at = "reading" /\ listing'[d].folders = listing[d].folders
          /\ listing'[d].query = listing[d].query /\ listing'[d].todo = listing[d].todo
          /\ listing'[d].first = listing[d].first /\ listing'[d].labels = listing[d].labels
          /\ listing'[d].stirred = listing[d].stirred \cup {m}
          /\ listing'[d] \in Mail!Lists
      BY <2>1, <2>3 DEF Mail!MoveMail, Mail!Lists
    <3>2. Merges(listing[d], filed)
      BY <2>3 DEF MailInv
    <3>3. QED BY <1>2, <2>3, <3>1, <3>2 DEF Merges
  <2>4. QED BY <2>2, <2>3
<1>4. listing' \in [Listers -> Mail!Lists]
  BY <1>3 DEF Mail!MoveMail
<1>5. /\ opening' \in Mail!Opens
      /\ opening'.at = opening.at /\ opening'.mail = opening.mail
      /\ opening'.mailbox = opening.mailbox
      /\ opening'.sure => opening.sure /\ opening.mail # m
  <2>1. opening' = [opening EXCEPT !.sure = @ /\ opening.mail # m] /\ opening \in Mail!Opens
    BY DEF Mail!MoveMail, MailInv, Mail!MailTypeOK
  <2>2. (opening.sure /\ opening.mail # m) \in BOOLEAN
    OBVIOUS
  <2>3. opening'.sure = (opening.sure /\ opening.mail # m)
    BY <2>1 DEF Mail!Opens
  <2>4. QED BY <2>1, <2>2, <2>3 DEF Mail!Opens
<1>6. Mail!MailTypeOK'
  BY <1>2, <1>4, <1>5 DEF MailInv, Mail!MailTypeOK
<1>7. \A n \in settled' : mailboxCache'[n] \in filed'[n]
  BY <1>2 DEF MailInv, Mail!MailTypeOK
<1>8. opening'.sure => /\ opening'.at \notin {"idle", "notfound"}
                       /\ opening'.at \in {"examine", "body"} =>
                             opening'.mailbox \in filed'[opening'.mail]
  BY <1>2, <1>5 DEF MailInv, Mail!Opens
<1>9. QED BY <1>3, <1>6, <1>7, <1>8 DEF MailInv

LEMMA MailRestarted ==
  ASSUME MailInv, Mail!RestartMail
  PROVE  MailInv'
<1>1. Mails # {}
  BY MailAssumed DEF Mail!MailAssumption
<1>2. Mail!Idle \in Mail!Lists /\ Mail!Nowhere \in Mail!Found
  BY DEF Mail!Idle, Mail!Lists, Mail!Found, Mail!Nowhere
<1>3. Mail!Closed \in Mail!Opens
  BY <1>1 DEF Mail!Closed, Mail!Opens
<1>4. mailMoves' \in 0 .. MaxMailMoves
  BY MailAssumed DEF MailInv, Mail!MailTypeOK, Mail!RestartMail, Mail!Trouble, Mail!MailAssumption
<1>5. Mail!MailTypeOK'
  BY <1>2, <1>3, <1>4 DEF MailInv, Mail!MailTypeOK, Mail!RestartMail
<1>6. QED BY <1>5 DEF MailInv, Mail!RestartMail, Mail!Idle, Mail!Closed

LEMMA MailKeeps == MailInv /\ [Next]_vars => MailInv'
<1> SUFFICES ASSUME MailInv, [Next]_vars PROVE MailInv'
  OBVIOUS
<1>1. CASE Mail!Next
  BY <1>1, ListingBegins, MailboxExamined, ListingEnds, FetchSteps, MailMoved, MailRestarted
  DEF Mail!Next, Mail!StartMatch, Mail!StartSearch, Mail!MemberMailboxes
<1>2. CASE UNCHANGED mailVars
  <2>1. Mail!MailTypeOK'
    BY <1>2 DEF mailVars, MailInv, Mail!MailTypeOK
  <2>2. QED BY <1>2, <2>1 DEF mailVars, MailInv
<1>3. QED BY <1>1, <1>2, MailSteps DEF vars

\* A message the last answer listed, and that has stayed where it was, opens:
\* no other call makes the plugin forget where it is (proton/plugin.go's
\* mailboxCache).
THEOREM MailFound == Spec => []OpenFinds
<1>1. MailInv => OpenFinds
  BY DEF MailInv, OpenFinds, Mail!OpenFinds
<1>2. QED BY <1>1, MailStarts, MailKeeps, PTL DEF Spec

LEMMA MailShapes ==
  ASSUME MailInv, NEW c \in Listers
  PROVE  /\ Mail!MembersNow(c) \in SUBSET (Mails \X Mailboxes)
         /\ listing[c].stirred \X Mailboxes \in SUBSET (Mails \X Mailboxes)
         /\ listing[c] \in Mail!Lists
         /\ Mail!ReplyNow(c).state = "pending" <=> listing[c].at = "reading"
<1>1. listing[c] \in Mail!Lists
  BY DEF MailInv, Mail!MailTypeOK
<1>2. listing[c].stirred \subseteq Mails
  BY <1>1 DEF Mail!Lists
<1>3. Mail!ReplyNow(c).state = "pending" <=> listing[c].at = "reading"
  BY <1>1 DEF Mail!ReplyNow, Mail!Lists
<1>4. QED BY <1>1, <1>2, <1>3 DEF Mail!MembersNow

\* What changes is touched, for every call under way.
LEMMA MailStirs ==
  ASSUME MailInv, MailInv',
         \A c \in Listers :
            /\ Mail!ReplyNow(c)' = Mail!ReplyNow(c)
            /\ listing[c].at = "reading" =>
                  /\ listing[c].stirred \subseteq listing'[c].stirred
                  /\ \A p \in Mails \X Mailboxes : p[1] \notin listing'[c].stirred =>
                        (p \in Mail!MembersNow(c) <=> p \in Mail!MembersNow(c)')
  PROVE  Mail!MailContract!Next
<1>1. ASSUME NEW c \in Listers
      PROVE  /\ Mail!MembersNow(c)' \in SUBSET (Mails \X Mailboxes)
             /\ listing'[c].stirred \X Mailboxes \in SUBSET (Mails \X Mailboxes)
             /\ Mail!ReplyNow(c)' = Mail!ReplyNow(c)
  <2>1. listing'[c] \in Mail!Lists
    BY DEF MailInv, Mail!MailTypeOK
  <2>2. listing'[c].stirred \subseteq Mails
    BY <2>1 DEF Mail!Lists
  <2>3. QED BY <2>2 DEF Mail!MembersNow
<1>2. ASSUME NEW c \in Listers, Mail!ReplyNow(c).state = "pending"
      PROVE  (listing[c].stirred \X Mailboxes)
                \cup Mail!MailContract!Differ(Mail!MembersNow(c), Mail!MembersNow(c)')
                \subseteq listing'[c].stirred \X Mailboxes
  <2>1. listing[c].at = "reading"
    BY <1>2, MailShapes
  <2>2. ASSUME NEW p \in Mail!MailContract!Differ(Mail!MembersNow(c), Mail!MembersNow(c)')
        PROVE  p \in listing'[c].stirred \X Mailboxes
    <3>1. p \in Mails \X Mailboxes
      BY <1>1, <2>2, MailShapes DEF Mail!MailContract!Differ
    <3>2. p[1] \in listing'[c].stirred
      BY <2>1, <2>2, <3>1 DEF Mail!MailContract!Differ
    <3>3. QED BY <3>1, <3>2
  <2>3. QED BY <2>1, <2>2
<1>3. Mail!MailContract!Stir
  BY <1>1, <1>2 DEF Mail!MailContract!Stir
<1>4. QED BY <1>3 DEF Mail!MailContract!Next

LEMMA MailBegins ==
  ASSUME MailInv, NEW c \in Listers, NEW F \in SUBSET Mailboxes, NEW Q \in SUBSET Mails,
         Mail!StartListing(c, F, Q)
  PROVE  Mail!MailContract!Next
<1>1. /\ listing'[c].at = "reading" /\ listing'[c].stirred = {}
      /\ \A d \in Listers \ {c} : listing'[d] = listing[d]
      /\ listing[c].at # "reading" /\ filed' = filed
  BY DEF Mail!StartListing, Mail!Idle, MailInv, Mail!MailTypeOK, Mail!Lists
<1>2. /\ Mail!ReplyNow(c).state # "pending"
      /\ Mail!ReplyNow(c)' = [state |-> "pending", items |-> {}]
      /\ Mail!MembersNow(c)' \in SUBSET (Mails \X Mailboxes)
      /\ listing'[c].stirred \X Mailboxes = {}
  BY <1>1, MailShapes DEF Mail!ReplyNow, Mail!MembersNow
<1>3. \A d \in Listers \ {c} :
        /\ Mail!ReplyNow(d)' = Mail!ReplyNow(d) /\ Mail!MembersNow(d)' = Mail!MembersNow(d)
        /\ listing'[d].stirred = listing[d].stirred
  BY <1>1 DEF Mail!ReplyNow, Mail!MembersNow
<1>4. Mail!MailContract!Begin(c)
  BY <1>2, <1>3 DEF Mail!MailContract!Begin
<1>5. QED BY <1>4 DEF Mail!MailContract!Next

LEMMA MailExamines ==
  ASSUME MailInv, MailInv', NEW c \in Listers, Mail!ExamineMailbox(c)
  PROVE  Mail!MailContract!Next
<1>1. PICK b \in listing[c].todo : listing' = [listing EXCEPT ![c] = Mail!Examined(@, b)]
  BY DEF Mail!ExamineMailbox
<1>2. listing[c] \in Mail!Lists /\ listing[c].at = "reading" /\ filed' = filed
  BY DEF Mail!ExamineMailbox, MailInv, Mail!MailTypeOK
<1>3. /\ listing'[c].at = "reading" /\ listing'[c].folders = listing[c].folders
      /\ listing'[c].query = listing[c].query /\ listing'[c].stirred = listing[c].stirred
  <2>1. listing'[c] = Mail!Examined(listing[c], b)
    BY <1>1 DEF MailInv, Mail!MailTypeOK
  <2>2. QED BY <1>2, <2>1 DEF Mail!Examined, Mail!Lists
<1>4. \A d \in Listers \ {c} : listing'[d] = listing[d]
  BY <1>1 DEF MailInv, Mail!MailTypeOK
<1>5. \A d \in Listers :
        /\ Mail!ReplyNow(d)' = Mail!ReplyNow(d) /\ Mail!MembersNow(d)' = Mail!MembersNow(d)
        /\ listing'[d].stirred = listing[d].stirred
  BY <1>2, <1>3, <1>4 DEF Mail!ReplyNow, Mail!MembersNow
<1>6. QED BY <1>5, MailStirs

LEMMA MailRefuses ==
  ASSUME MailInv, NEW c \in Listers, Mail!ListingFails(c)
  PROVE  Mail!MailContract!Next
<1>1. /\ listing[c].at = "reading" /\ listing'[c].at = "failed" /\ filed' = filed
      /\ listing'[c].folders = listing[c].folders
      /\ listing'[c].query = listing[c].query /\ listing'[c].stirred = listing[c].stirred
      /\ \A d \in Listers \ {c} : listing'[d] = listing[d]
  BY DEF Mail!ListingFails, MailInv, Mail!MailTypeOK, Mail!Lists
<1>2. /\ Mail!ReplyNow(c).state = "pending"
      /\ Mail!ReplyNow(c)' = [state |-> "failed", items |-> {}]
  BY <1>1 DEF Mail!ReplyNow
<1>3. \A d \in Listers : /\ Mail!MembersNow(d)' = Mail!MembersNow(d)
                         /\ listing'[d].stirred = listing[d].stirred
  BY <1>1 DEF Mail!MembersNow
<1>4. \A d \in Listers \ {c} : Mail!ReplyNow(d)' = Mail!ReplyNow(d)
  BY <1>1 DEF Mail!ReplyNow
<1>5. Mail!MailContract!Refuse(c)
  BY <1>2, <1>3, <1>4 DEF Mail!MailContract!Refuse
<1>6. QED BY <1>5 DEF Mail!MailContract!Next

LEMMA MailGives ==
  ASSUME MailInv, NEW c \in Listers, Mail!FinishListing(c)
  PROVE  Mail!MailContract!Next
<1> DEFINE items == {p \in Mails \X Mailboxes : p[2] \in listing[c].labels[p[1]]}
<1>1. /\ listing[c].at = "reading" /\ listing'[c].at = "given" /\ filed' = filed
      /\ listing[c].todo = {} /\ listing'[c].labels = listing[c].labels
      /\ listing'[c].folders = listing[c].folders
      /\ listing'[c].query = listing[c].query /\ listing'[c].stirred = listing[c].stirred
      /\ \A d \in Listers \ {c} : listing'[d] = listing[d]
  BY DEF Mail!FinishListing, MailInv, Mail!MailTypeOK, Mail!Lists
<1>2. /\ Mail!ReplyNow(c).state = "pending"
      /\ Mail!ReplyNow(c)' = [state |-> "given", items |-> items]
  BY <1>1 DEF Mail!ReplyNow
<1>3. \A d \in Listers : /\ Mail!MembersNow(d)' = Mail!MembersNow(d)
                         /\ listing'[d].stirred = listing[d].stirred
  BY <1>1 DEF Mail!MembersNow
<1>4. \A d \in Listers \ {c} : Mail!ReplyNow(d)' = Mail!ReplyNow(d)
  BY <1>1 DEF Mail!ReplyNow
<1>5. ASSUME NEW p \in Mails \X Mailboxes, p[1] \notin listing[c].stirred
      PROVE  p \in Mail!MembersNow(c) <=> p \in items
  <2>1. p[1] \in Mails \ listing[c].stirred
    BY <1>5
  <2>2. Merges(listing[c], filed)
    BY <1>1 DEF MailInv
  <2>3. listing[c].labels[p[1]] =
          IF p[1] \in listing[c].query
            THEN filed[p[1]] \cap (listing[c].folders \ listing[c].todo) ELSE {}
    BY <2>1, <2>2 DEF Merges
  <2>4. listing[c].labels[p[1]] = IF p[1] \in listing[c].query
                                    THEN filed[p[1]] \cap listing[c].folders ELSE {}
    BY <1>1, <2>3
  <2>5. QED BY <2>4 DEF Mail!MembersNow
<1>6. /\ items \in SUBSET (Mails \X Mailboxes)
      /\ Mail!MembersNow(c) \ (listing[c].stirred \X Mailboxes) \subseteq items
      /\ items \subseteq Mail!MembersNow(c) \cup (listing[c].stirred \X Mailboxes)
  BY <1>5, MailShapes
<1> HIDE DEF items
<1>7. Mail!MailContract!Give(c)
  BY <1>2, <1>3, <1>4, <1>6 DEF Mail!MailContract!Give
<1>8. QED BY <1>7 DEF Mail!MailContract!Next

LEMMA MailAloof ==
  ASSUME MailInv, MailInv', UNCHANGED <<filed, listing>>
  PROVE  Mail!MailContract!Next
<1>1. \A d \in Listers :
        /\ Mail!ReplyNow(d)' = Mail!ReplyNow(d) /\ Mail!MembersNow(d)' = Mail!MembersNow(d)
        /\ listing'[d].stirred = listing[d].stirred
  BY DEF Mail!ReplyNow, Mail!MembersNow
<1>2. QED BY <1>1, MailStirs

LEMMA MailMoves ==
  ASSUME MailInv, MailInv', NEW m \in Mails, Mail!MoveMail(m)
  PROVE  Mail!MailContract!Next
<1>1. \A n \in Mails \ {m} : filed'[n] = filed[n]
  BY DEF Mail!MoveMail, MailInv, Mail!MailTypeOK
<1>2. ASSUME NEW d \in Listers
      PROVE  /\ listing'[d].at = listing[d].at /\ listing'[d].query = listing[d].query
             /\ listing'[d].folders = listing[d].folders
             /\ listing'[d].labels = listing[d].labels
             /\ listing[d].at = "reading" => listing'[d].stirred = listing[d].stirred \cup {m}
  BY DEF Mail!MoveMail, MailInv, Mail!MailTypeOK, Mail!Lists
<1>3. \A d \in Listers : Mail!ReplyNow(d)' = Mail!ReplyNow(d)
  BY <1>2 DEF Mail!ReplyNow
<1>4. ASSUME NEW d \in Listers, NEW p \in Mails \X Mailboxes, listing[d].at = "reading",
             p[1] \notin listing'[d].stirred
      PROVE  p \in Mail!MembersNow(d) <=> p \in Mail!MembersNow(d)'
  BY <1>1, <1>2, <1>4 DEF Mail!MembersNow
<1>5. QED BY <1>2, <1>3, <1>4, MailStirs

LEMMA MailForgets ==
  ASSUME MailInv', Mail!RestartMail
  PROVE  Mail!MailContract!Next
<1>1. \A c \in Listers : /\ listing'[c] = Mail!Idle
                         /\ listing'[c].at = "idle" /\ listing'[c].stirred = {}
  BY DEF Mail!RestartMail, Mail!Idle
<1>2. \A c \in Listers : /\ Mail!MembersNow(c)' \in SUBSET (Mails \X Mailboxes)
                         /\ listing'[c].stirred \X Mailboxes = {}
                         /\ Mail!ReplyNow(c)' = [state |-> "none", items |-> {}]
  BY <1>1 DEF Mail!MembersNow, Mail!ReplyNow
<1>3. Mail!MailContract!Forget
  BY <1>2 DEF Mail!MailContract!Forget, Mail!MailContract!Nothing
<1>4. QED BY <1>3 DEF Mail!MailContract!Next

\* Match and Search of Proton Mail give whole answers: calls overlap, messages
\* are filed elsewhere, and the process is restarted (proton/plugin.go).
THEOREM MailAnswered == Spec => MailAnswers
<1>1. Init => Mail!MailContract!Init
  <2> SUFFICES ASSUME Init PROVE Mail!MailContract!Init
    OBVIOUS
  <2>1. \A c \in Listers : listing[c].at = "idle" /\ listing[c].stirred = {}
    BY DEF Init, Mail!Init, Mail!Idle
  <2>2. \A c \in Listers : /\ Mail!MembersNow(c) \in SUBSET (Mails \X Mailboxes)
                           /\ listing[c].stirred \X Mailboxes = {}
                           /\ Mail!ReplyNow(c) = [state |-> "none", items |-> {}]
    BY <2>1 DEF Mail!MembersNow, Mail!ReplyNow
  <2>3. QED BY <2>2 DEF Mail!MailContract!Init, Mail!MailContract!Nothing
<1>2. MailInv /\ MailInv' /\ [Next]_vars
        => [chosen = "proton" => Mail!MailContract!Next]_vars
  <2> SUFFICES ASSUME MailInv, MailInv', [Next]_vars, chosen = "proton", ~UNCHANGED vars
               PROVE  Mail!MailContract!Next
    OBVIOUS
  <2>1. Mail!Next
    BY MailSteps
  <2>2. ASSUME (\E m \in Mails : Mail!StartFetch(m)) \/ Mail!FindUid \/ Mail!FetchBody
                 \/ Mail!FetchFails
        PROVE  Mail!MailContract!Next
    <3>1. UNCHANGED <<filed, listing>>
      BY <2>2 DEF Mail!StartFetch, Mail!FindUid, Mail!FetchBody, Mail!FetchFails
    <3>2. QED BY <3>1, MailAloof
  <2>3. QED
    BY <2>1, <2>2, MailBegins, MailExamines, MailRefuses, MailGives, MailMoves, MailForgets
    DEF Mail!Next, Mail!StartMatch, Mail!StartSearch, Mail!MemberMailboxes
<1>3. QED BY <1>1, <1>2, MailStarts, MailKeeps, PTL DEF Spec, MailAnswers

-----------------------------------------------------------------------------
\* Filesystem

LEMMA WalkSteps ==
  [Next]_vars => \/ chosen = "filesystem" /\ Walk!Next
                 \/ UNCHANGED vars
                 \/ chosen # "filesystem" /\ UNCHANGED walkVars
<1>1. Filesystem => chosen = "filesystem" /\ Walk!Next
  BY DEF Filesystem
<1>2. WhatsApp \/ Proton \/ Silverbullet \/ Paperless \/ SignalDesktop \/ Chats
        \/ DriveRequests \/ Install => chosen # "filesystem" /\ UNCHANGED walkVars
  BY DEF WhatsApp, Proton, Silverbullet, Paperless, SignalDesktop, Chats, DriveRequests, Install
<1>3. QED BY <1>1, <1>2 DEF Next

\* The root is read first, and alone.
RootFirst ==
    /\ walking.at = "root" => walking.entries = {} /\ walking.results = {}
    /\ walking.at = "walk" /\ Top \in walking.dirs =>
          walking.dirs = {Top} /\ walking.entries = {} /\ walking.results = {}

\* A mount that goes away under a walk excuses it.
MountGone ==
    walking.at = "walk" /\ ~mounted => Top \in walking.dirs \/ walking.stirred = Files

\* Only a recursive walk leaves the root.
Shallow ==
    walking.at = "walk" =>
        /\ \A d \in walking.dirs : config.recursive \/ d = Top
        /\ \A f \in walking.entries \cup walking.results : config.recursive \/ FolderOf[f] = Top

\* What is collected belongs, unless it has been touched.
Collected == walking.at = "walk" => \A f \in walking.results \ walking.stirred : Walk!Kept(f)

\* What belongs is collected, or was read from its directory, or one on the way
\* to it is still to be read.
Ahead ==
    walking.at = "walk" =>
        \A f \in Files \ walking.stirred : Walk!Visible(f) =>
            \/ f \in walking.results \cup walking.entries
            \/ walking.dirs \cap PathTo[FolderOf[f]] # {}

WalkInv ==
    /\ Walk!WalkTypeOK /\ RootFirst /\ MountGone /\ Shallow /\ Collected /\ Ahead
    /\ \A f \in listed : Walk!Kept(f)
    /\ fetched.sure => fetched.result \notin {"notfound", "refused"}

LEMMA WalkAssumed == Walk!WalkAssumption
BY SourcesAssumption

LEMMA WalkStarts == Init => WalkInv
<1> SUFFICES ASSUME Init PROVE WalkInv
  OBVIOUS
<1>1. Walk!Init
  BY DEF Init
<1>2. walking \in Walk!Walks /\ walking.at = "idle"
  BY <1>1 DEF Walk!Init, Walk!NoWalk, Walk!Walks
<1>3. Walk!WalkTypeOK
  BY <1>1, <1>2, WalkAssumed DEF Walk!Init, Walk!WalkTypeOK, Walk!NoFetch, Walk!WalkAssumption
<1>4. QED
  BY <1>1, <1>2, <1>3
  DEF WalkInv, RootFirst, MountGone, Shallow, Collected, Ahead, Walk!Init, Walk!NoFetch

\* Outside a walk the invariant asks nothing of the call.
LEMMA WalkRests ==
  ASSUME WalkInv, walking' \in Walk!Walks, walking'.at \notin {"root", "walk"},
         UNCHANGED <<config, present, outside, readable, mounted, touches>>,
         fetched' = fetched \/ fetched' = Walk!NoFetch,
         listed' \subseteq Files, \A f \in listed' : Walk!Kept(f)
  PROVE  WalkInv'
<1>1. fetched' \in [result : {"none", "shown", "metadata", "notfound", "refused"},
                    sure : BOOLEAN]
  <2>1. CASE fetched' = fetched
    BY <2>1 DEF WalkInv, Walk!WalkTypeOK
  <2>2. CASE fetched' = Walk!NoFetch
    BY <2>2 DEF Walk!NoFetch
  <2>3. QED BY <2>1, <2>2
<1>2. Walk!WalkTypeOK'
  BY <1>1 DEF WalkInv, Walk!WalkTypeOK
<1>3. \A f \in listed' : Walk!Kept(f)'
  BY DEF Walk!Kept, Walk!Accessible, Walk!Candidate, Walk!Hidden, Walk!Includes
<1>4. fetched'.sure => fetched'.result \notin {"notfound", "refused"}
  BY DEF WalkInv, Walk!NoFetch
<1>5. QED BY <1>2, <1>3, <1>4 DEF WalkInv, RootFirst, MountGone, Shallow, Collected, Ahead

LEMMA AbandonedShape ==
  ASSUME WalkInv
  PROVE  /\ Walk!Abandoned \in Walk!Walks /\ Walk!Abandoned.at = "failed"
         /\ Walk!Abandoned.labels = walking.labels /\ Walk!Abandoned.query = walking.query
         /\ Walk!Abandoned.stirred = walking.stirred
BY DEF WalkInv, Walk!WalkTypeOK, Walk!Walks, Walk!Abandoned, Walk!NoWalk

LEMMA WalkAbandoned ==
  ASSUME WalkInv, walking' = Walk!Abandoned,
         UNCHANGED <<config, present, outside, readable, mounted, touches, fetched, listed>>
  PROVE  WalkInv'
BY AbandonedShape, WalkRests DEF WalkInv, Walk!WalkTypeOK

LEMMA WalkBegun ==
  ASSUME WalkInv, NEW labels \in SUBSET Folders, NEW q \in {Files, SearchedFiles},
         Walk!StartWalk(labels, q)
  PROVE  WalkInv'
<1>1. /\ walking' \in Walk!Walks /\ walking'.at = "root"
      /\ walking'.entries = {} /\ walking'.results = {}
  BY DEF Walk!StartWalk, Walk!NoWalk, Walk!Walks
<1>2. UNCHANGED <<config, present, outside, readable, mounted, touches, listed>>
  BY DEF Walk!StartWalk, Walk!Env
<1>3. /\ fetched' \in [result : {"none", "shown", "metadata", "notfound", "refused"},
                       sure : BOOLEAN]
      /\ ~fetched'.sure
  BY DEF Walk!StartWalk, Walk!NoFetch
<1>4. Walk!WalkTypeOK'
  BY <1>1, <1>2, <1>3 DEF WalkInv, Walk!WalkTypeOK
<1>5. \A f \in listed' : Walk!Kept(f)'
  BY <1>2 DEF WalkInv, Walk!Kept, Walk!Accessible, Walk!Candidate, Walk!Hidden, Walk!Includes
<1>6. QED
  BY <1>1, <1>3, <1>4, <1>5 DEF WalkInv, RootFirst, MountGone, Shallow, Collected, Ahead

\* A step of the walk: the directory stays as it is.
LEMMA WalkGoes ==
  ASSUME WalkInv, walking' \in Walk!Walks, walking'.at = "walk",
         UNCHANGED <<config, present, outside, readable, mounted, touches, fetched, listed>>,
         RootFirst', MountGone', Shallow',
         \A f \in walking'.results \ walking'.stirred : Walk!Kept(f),
         \A f \in Files \ walking'.stirred : Walk!Visible(f) =>
            \/ f \in walking'.results \cup walking'.entries
            \/ walking'.dirs \cap PathTo[FolderOf[f]] # {}
  PROVE  WalkInv'
<1>1. Walk!WalkTypeOK'
  BY DEF WalkInv, Walk!WalkTypeOK
<1>2. ASSUME NEW f PROVE (Walk!Kept(f)' <=> Walk!Kept(f)) /\ (Walk!Visible(f)' <=> Walk!Visible(f))
  BY DEF Walk!Kept, Walk!Visible, Walk!Accessible, Walk!Candidate, Walk!Hidden, Walk!Includes
<1>3. Collected' /\ Ahead'
  BY <1>2 DEF Collected, Ahead
<1>4. QED BY <1>1, <1>2, <1>3 DEF WalkInv

LEMMA RootStatted ==
  ASSUME WalkInv, Walk!StatRoot
  PROVE  WalkInv'
<1>1. UNCHANGED <<config, present, outside, readable, mounted, touches, fetched, listed>>
  BY DEF Walk!StatRoot, Walk!Env
<1>2. CASE ~mounted
  BY <1>1, <1>2, WalkAbandoned DEF Walk!StatRoot
<1>3. CASE mounted
  <2>1. walking \in Walk!Walks /\ walking.at = "root" /\ walking.entries = {}
          /\ walking.results = {}
    BY DEF WalkInv, RootFirst, Walk!StatRoot, Walk!WalkTypeOK
  <2>2. /\ walking' \in Walk!Walks /\ walking'.at = "walk" /\ walking'.dirs = {Top}
        /\ walking'.entries = {} /\ walking'.results = {}
        /\ walking'.stirred = walking.stirred
    BY <1>3, <2>1, WalkAssumed DEF Walk!StatRoot, Walk!Walks, Walk!WalkAssumption
  <2>3. RootFirst' /\ MountGone' /\ Shallow'
    BY <2>2 DEF RootFirst, MountGone, Shallow
  <2>4. \A f \in Files : Top \in PathTo[FolderOf[f]]
    BY WalkAssumed DEF Walk!WalkAssumption
  <2>5. QED BY <1>1, <2>2, <2>3, <2>4, WalkGoes
<1>4. QED BY <1>2, <1>3

\* Below a folder on the way to a visible file lies the next one, and the walk
\* descends into it.
LEMMA NextBelow ==
  ASSUME WalkInv, NEW f \in Files, Walk!Visible(f), NEW d \in PathTo[FolderOf[f]],
         d # FolderOf[f]
  PROVE  \E e \in PathTo[FolderOf[f]] : e \in Walk!Subfolders(d) /\ Walk!Descends(e)
<1>1. FolderOf[f] \in Folders /\ PathTo[FolderOf[f]] \subseteq Folders
  BY WalkAssumed DEF Walk!WalkAssumption
<1>2. PICK e \in PathTo[FolderOf[f]] \ {d} : PathTo[e] = PathTo[d] \cup {e}
  BY <1>1, WalkAssumed DEF Walk!WalkAssumption
<1>3. e \in Walk!Subfolders(d)
  BY <1>1, <1>2 DEF Walk!Subfolders
<1>4. config.recursive
  BY <1>1, WalkAssumed DEF Walk!Visible, Walk!WalkAssumption
<1>5. e \in DotFolders => config.globbed
  BY <1>2 DEF Walk!Visible, Walk!Candidate, Walk!Hidden
<1>6. QED BY <1>2, <1>3, <1>4, <1>5 DEF Walk!Descends

LEMMA DirRead ==
  ASSUME WalkInv, NEW d \in Folders, Walk!ReadDir(d)
  PROVE  WalkInv'
<1>1. UNCHANGED <<config, present, outside, readable, mounted, touches, fetched, listed>>
  BY DEF Walk!ReadDir, Walk!Env
<1>2. /\ walking \in Walk!Walks /\ walking.at = "walk" /\ d \in walking.dirs
      /\ RootFirst /\ MountGone /\ Shallow /\ Collected /\ Ahead
  BY DEF WalkInv, Walk!ReadDir, Walk!WalkTypeOK
<1>3. \A f \in Files : /\ FolderOf[f] \in Folders /\ Top \in PathTo[FolderOf[f]]
                       /\ FolderOf[f] \in PathTo[FolderOf[f]]
  BY WalkAssumed DEF Walk!WalkAssumption
<1>4. CASE mounted /\ d \in readable
  <2> DEFINE below == {e \in Walk!Subfolders(d) : Walk!Descends(e)}
             found_ == {f \in present : FolderOf[f] = d}
  <2>1. below \subseteq Folders \ {d} /\ Top \notin below
    BY WalkAssumed DEF Walk!Subfolders, Walk!WalkAssumption
  <2>2. found_ \subseteq Files
    BY DEF WalkInv, Walk!WalkTypeOK
  <2>3. walking' = [walking EXCEPT !.dirs = (@ \ {d}) \cup below, !.entries = @ \cup found_]
    BY <1>4 DEF Walk!ReadDir
  <2>4. below = {} \/ config.recursive
    BY DEF Walk!Descends
  <2>5. \A f \in Files \ walking.stirred : Walk!Visible(f) =>
           \/ f \in walking.results \cup walking.entries \cup found_
           \/ ((walking.dirs \ {d}) \cup below) \cap PathTo[FolderOf[f]] # {}
    <3> SUFFICES ASSUME NEW f \in Files \ walking.stirred, Walk!Visible(f),
                        f \notin walking.results \cup walking.entries
                 PROVE  \/ f \in found_
                        \/ ((walking.dirs \ {d}) \cup below) \cap PathTo[FolderOf[f]] # {}
      OBVIOUS
    <3>1. PICK e \in walking.dirs : e \in PathTo[FolderOf[f]]
      BY <1>2 DEF Ahead
    <3>2. CASE e # d
      BY <3>1, <3>2
    <3>3. CASE e = d /\ FolderOf[f] = d
      BY <3>3 DEF Walk!Visible
    <3>4. CASE e = d /\ FolderOf[f] # d
      BY <3>1, <3>4, NextBelow
    <3>5. QED BY <3>2, <3>3, <3>4
  <2> HIDE DEF below, found_
  <2>6. /\ walking' \in Walk!Walks /\ walking'.at = "walk"
        /\ walking'.dirs = (walking.dirs \ {d}) \cup below
        /\ walking'.entries = walking.entries \cup found_
        /\ walking'.results = walking.results /\ walking'.stirred = walking.stirred
    BY <1>2, <2>1, <2>2, <2>3 DEF Walk!Walks
  <2>7. Top \notin walking'.dirs
    BY <1>2, <2>1, <2>6 DEF RootFirst
  <2>8. RootFirst' /\ MountGone'
    BY <1>1, <1>4, <2>6, <2>7 DEF RootFirst, MountGone
  <2>9. Shallow'
    <3>1. \A f \in found_ : config.recursive \/ FolderOf[f] = Top
      BY <1>2 DEF Shallow, found_
    <3>2. QED BY <1>1, <1>2, <2>4, <2>6, <3>1 DEF Shallow
  <2>10. \A f \in walking'.results \ walking'.stirred : Walk!Kept(f)
    BY <1>2, <2>6 DEF Collected
  <2>11. \A f \in Files \ walking'.stirred : Walk!Visible(f) =>
            \/ f \in walking'.results \cup walking'.entries
            \/ walking'.dirs \cap PathTo[FolderOf[f]] # {}
    BY <2>5, <2>6
  <2>12. QED BY <1>1, <2>6, <2>8, <2>9, <2>10, <2>11, WalkGoes
<1>5. CASE ~(mounted /\ d \in readable) /\ d = Top
  BY <1>1, <1>5, WalkAbandoned DEF Walk!ReadDir
<1>6. CASE ~(mounted /\ d \in readable) /\ d # Top
  <2>1. /\ walking' \in Walk!Walks /\ walking'.at = "walk"
        /\ walking'.dirs = walking.dirs \ {d} /\ walking'.entries = walking.entries
        /\ walking'.results = walking.results /\ walking'.stirred = walking.stirred
    BY <1>2, <1>6 DEF Walk!ReadDir, Walk!Walks
  <2>2. Top \notin walking.dirs
    BY <1>2, <1>6 DEF RootFirst
  <2>3. RootFirst' /\ MountGone' /\ Shallow'
    BY <1>1, <1>2, <2>1, <2>2 DEF RootFirst, MountGone, Shallow
  <2>4. \A f \in walking'.results \ walking'.stirred : Walk!Kept(f)
    BY <1>2, <2>1 DEF Collected
  <2>5. \A f \in Files \ walking'.stirred : Walk!Visible(f) =>
            \/ f \in walking'.results \cup walking'.entries
            \/ walking'.dirs \cap PathTo[FolderOf[f]] # {}
    <3> SUFFICES ASSUME NEW f \in Files \ walking.stirred, Walk!Visible(f),
                        f \notin walking.results \cup walking.entries
                 PROVE  (walking.dirs \ {d}) \cap PathTo[FolderOf[f]] # {}
      BY <2>1
    <3>1. PICK e \in walking.dirs : e \in PathTo[FolderOf[f]]
      BY <1>2 DEF Ahead
    <3>2. mounted
      BY <1>2, <2>2 DEF MountGone
    <3>3. e # d
      BY <1>6, <3>1, <3>2 DEF Walk!Visible
    <3>4. QED BY <3>1, <3>3
  <2>6. QED BY <1>1, <2>1, <2>3, <2>4, <2>5, WalkGoes
<1>7. QED BY <1>4, <1>5, <1>6

LEMMA EntryVisited ==
  ASSUME WalkInv, NEW g \in Files, Walk!Visit(g)
  PROVE  WalkInv'
<1>1. UNCHANGED <<config, present, outside, readable, mounted, touches, fetched, listed>>
  BY DEF Walk!Visit, Walk!Env
<1>2. /\ walking \in Walk!Walks /\ walking.at = "walk" /\ g \in walking.entries
      /\ RootFirst /\ MountGone /\ Shallow /\ Collected /\ Ahead
  BY DEF WalkInv, Walk!Visit, Walk!WalkTypeOK
<1>3. Top \notin walking.dirs
  BY <1>2 DEF RootFirst
<1>4. ASSUME NEW R, walking' = [walking EXCEPT !.entries = @ \ {g}, !.results = R],
             \/ R = walking.results /\ ~Walk!Kept(g)
             \/ R = walking.results \cup {g} /\ Walk!Kept(g)
      PROVE  WalkInv'
  <2>1. /\ walking' \in Walk!Walks /\ walking'.at = "walk"
        /\ walking'.dirs = walking.dirs /\ walking'.entries = walking.entries \ {g}
        /\ walking'.results = R /\ walking'.stirred = walking.stirred
        /\ R \subseteq walking.results \cup {g}
    BY <1>2, <1>4 DEF Walk!Walks
  <2>2. RootFirst' /\ MountGone' /\ Shallow'
    BY <1>1, <1>2, <1>3, <2>1 DEF RootFirst, MountGone, Shallow
  <2>3. \A f \in walking'.results \ walking'.stirred : Walk!Kept(f)
    BY <1>2, <1>4, <2>1 DEF Collected
  <2>4. g \notin walking.stirred /\ Walk!Visible(g) => Walk!Kept(g)
    <3>1. g \notin walking.stirred => mounted
      BY <1>2, <1>3 DEF MountGone
    <3>2. QED BY <3>1 DEF Walk!Visible, Walk!Kept, Walk!Accessible
  <2>5. \A f \in Files \ walking'.stirred : Walk!Visible(f) =>
            \/ f \in walking'.results \cup walking'.entries
            \/ walking'.dirs \cap PathTo[FolderOf[f]] # {}
    BY <1>2, <1>4, <2>1, <2>4 DEF Ahead
  <2>6. QED BY <1>1, <2>1, <2>2, <2>3, <2>5, WalkGoes
<1>5. CASE ~Walk!Kept(g)
  <2>1. walking' = [walking EXCEPT !.entries = @ \ {g}, !.results = walking.results]
    BY <1>2, <1>5 DEF Walk!Visit, Walk!Walks
  <2>2. QED BY <1>4, <1>5, <2>1
<1>6. CASE Walk!Kept(g) /\ walking' = Walk!Abandoned
  BY <1>1, <1>6, WalkAbandoned
<1>7. CASE Walk!Kept(g) /\ walking' # Walk!Abandoned
  <2>1. walking' = [walking EXCEPT !.entries = @ \ {g}, !.results = walking.results \cup {g}]
    BY <1>2, <1>7 DEF Walk!Visit
  <2>2. QED BY <1>4, <1>7, <2>1
<1>8. QED BY <1>5, <1>6, <1>7

LEMMA WalkFinished ==
  ASSUME WalkInv, Walk!FinishWalk
  PROVE  WalkInv'
<1> DEFINE items == {f \in walking.results \cap walking.query :
                       Walk!Labels(f) \cap walking.labels # {}}
<1>1. /\ walking \in Walk!Walks /\ walking.at = "walk" /\ Collected
      /\ walking' = [walking EXCEPT !.at = "given", !.results = items]
      /\ listed' = items \ walking.stirred
      /\ UNCHANGED <<config, present, outside, readable, mounted, touches, fetched>>
  BY DEF WalkInv, Walk!WalkTypeOK, Walk!FinishWalk, Walk!Env
<1>2. items \subseteq walking.results /\ items \subseteq Files
  BY <1>1 DEF Walk!Walks
<1> HIDE DEF items
<1>3. walking' \in Walk!Walks /\ walking'.at = "given"
  BY <1>1, <1>2 DEF Walk!Walks
<1>4. listed' \subseteq Files /\ \A f \in listed' : Walk!Kept(f)
  BY <1>1, <1>2 DEF Collected
<1>5. QED BY <1>1, <1>3, <1>4, WalkRests

\* What the last answer listed, and nothing has happened to, resolves and is in
\* scope.
LEMMA FileFetched ==
  ASSUME WalkInv, NEW f \in Files, Walk!Fetch(f)
  PROVE  WalkInv'
<1>1. UNCHANGED <<config, present, outside, readable, mounted, touches, walking, listed>>
  BY DEF Walk!Fetch, Walk!Env
<1>2. fetched' = [sure |-> f \in listed,
                  result |-> IF Walk!Resolves(f) # "found" THEN Walk!Resolves(f)
                             ELSE IF Walk!Includes(f) THEN Walk!Rendition(f) ELSE "notfound"]
  BY DEF Walk!Fetch
<1>3. fetched' \in [result : {"none", "shown", "metadata", "notfound", "refused"},
                    sure : BOOLEAN]
  BY <1>2 DEF Walk!Resolves, Walk!Rendition
<1>4. f \in listed => fetched'.result \notin {"notfound", "refused"}
  <2>1. f \in listed => Walk!Kept(f)
    BY DEF WalkInv
  <2>2. QED BY <1>2, <2>1
    DEF Walk!Kept, Walk!Accessible, Walk!Candidate, Walk!Resolves, Walk!Rendition
<1>5. Walk!WalkTypeOK'
  BY <1>1, <1>3 DEF WalkInv, Walk!WalkTypeOK
<1>6. RootFirst' /\ MountGone' /\ Shallow' /\ Collected' /\ Ahead'
        /\ \A g \in listed' : Walk!Kept(g)'
  BY <1>1 DEF WalkInv, RootFirst, MountGone, Shallow, Collected, Ahead, Walk!Kept, Walk!Visible,
              Walk!Accessible, Walk!Candidate, Walk!Hidden, Walk!Includes
<1>7. QED BY <1>2, <1>4, <1>5, <1>6 DEF WalkInv

\* A change of the files in F is recorded for the call under way.
LEMMA FilesTouched ==
  ASSUME WalkInv, NEW F \in SUBSET Files, Walk!Touch(F),
         present' \subseteq Files, outside' \subseteq Files, readable' \subseteq Folders,
         \A f \in Files \ F :
            /\ f \in present <=> f \in present'
            /\ f \in outside <=> f \in outside'
            /\ PathTo[FolderOf[f]] \subseteq readable <=> PathTo[FolderOf[f]] \subseteq readable'
  PROVE  WalkInv'
<1>1. /\ touches' \in 0 .. MaxTouches /\ listed' = listed \ F /\ fetched' = Walk!NoFetch
      /\ UNCHANGED <<config, mounted>> /\ walking \in Walk!Walks
  BY WalkAssumed DEF Walk!Touch, WalkInv, Walk!WalkTypeOK, Walk!WalkAssumption
<1>2. ASSUME NEW f \in Files \ F
      PROVE  (Walk!Kept(f)' <=> Walk!Kept(f)) /\ (Walk!Visible(f)' <=> Walk!Visible(f))
  BY <1>1 DEF Walk!Kept, Walk!Visible, Walk!Accessible, Walk!Candidate, Walk!Hidden, Walk!Includes
<1>3. /\ walking' \in Walk!Walks /\ walking'.at = walking.at /\ walking'.dirs = walking.dirs
      /\ walking'.entries = walking.entries /\ walking'.results = walking.results
      /\ walking.at = "walk" => walking'.stirred = walking.stirred \cup F
  <2>1. CASE Walk!Walking
    BY <1>1, <2>1 DEF Walk!Touch, Walk!Walks
  <2>2. CASE ~Walk!Walking
    BY <1>1, <2>2 DEF Walk!Touch, Walk!Walking
  <2>3. QED BY <2>1, <2>2
<1>4. fetched' \in [result : {"none", "shown", "metadata", "notfound", "refused"},
                    sure : BOOLEAN]
        /\ ~fetched'.sure
  BY <1>1 DEF Walk!NoFetch
<1>5. Walk!WalkTypeOK'
  BY <1>1, <1>3, <1>4 DEF WalkInv, Walk!WalkTypeOK
<1>6. RootFirst' /\ MountGone' /\ Shallow'
  BY <1>1, <1>3 DEF WalkInv, RootFirst, MountGone, Shallow, Walk!Walks
<1>7. Collected'
  BY <1>2, <1>3 DEF WalkInv, Collected, Walk!Walks
<1>8. Ahead'
  BY <1>2, <1>3 DEF WalkInv, Ahead
<1>9. \A f \in listed' : Walk!Kept(f)'
  BY <1>1, <1>2 DEF WalkInv, Walk!WalkTypeOK
<1>10. QED BY <1>4, <1>5, <1>6, <1>7, <1>8, <1>9 DEF WalkInv

LEMMA DirectoryChanged ==
  ASSUME WalkInv,
         \/ \E f \in Files : Walk!CreateOrRemove(f) \/ Walk!LinkOutside(f)
         \/ \E d \in Folders : Walk!Chmod(d)
  PROVE  WalkInv'
<1>1. ASSUME NEW f \in Files, Walk!CreateOrRemove(f) PROVE WalkInv'
  <2>1. Walk!Touch({f}) /\ {f} \in SUBSET Files
    BY <1>1 DEF Walk!CreateOrRemove
  <2>2. present' \subseteq Files /\ outside' \subseteq Files /\ readable' = readable
    BY <1>1 DEF Walk!CreateOrRemove, WalkInv, Walk!WalkTypeOK
  <2>3. \A g \in Files \ {f} : (g \in present <=> g \in present') /\ (g \in outside <=> g \in outside')
    BY <1>1 DEF Walk!CreateOrRemove
  <2>4. readable \subseteq Folders
    BY DEF WalkInv, Walk!WalkTypeOK
  <2>5. QED BY <2>1, <2>2, <2>3, <2>4, FilesTouched
<1>2. ASSUME NEW f \in Files, Walk!LinkOutside(f) PROVE WalkInv'
  <2>1. Walk!Touch({f}) /\ {f} \in SUBSET Files
    BY <1>2 DEF Walk!LinkOutside
  <2>2. present' = present /\ outside' \subseteq Files /\ readable' = readable
    BY <1>2 DEF Walk!LinkOutside, WalkInv, Walk!WalkTypeOK
  <2>3. \A g \in Files \ {f} : g \in outside <=> g \in outside'
    BY <1>2 DEF Walk!LinkOutside
  <2>4. readable \subseteq Folders /\ present \subseteq Files
    BY DEF WalkInv, Walk!WalkTypeOK
  <2>5. QED BY <2>1, <2>2, <2>3, <2>4, FilesTouched
<1>3. ASSUME NEW d \in Folders, Walk!Chmod(d) PROVE WalkInv'
  <2> DEFINE F == {f \in Files : d \in PathTo[FolderOf[f]]}
  <2>1. Walk!Touch(F) /\ F \in SUBSET Files
    BY <1>3 DEF Walk!Chmod
  <2>2. present' = present /\ outside' = outside /\ readable' \subseteq Folders
    BY <1>3 DEF Walk!Chmod, WalkInv, Walk!WalkTypeOK
  <2>3. \A e \in Folders \ {d} : e \in readable <=> e \in readable'
    BY <1>3 DEF Walk!Chmod
  <2>4. \A g \in Files \ F : PathTo[FolderOf[g]] \subseteq Folders \ {d}
    BY WalkAssumed DEF Walk!WalkAssumption
  <2>5. present \subseteq Files /\ outside \subseteq Files
    BY DEF WalkInv, Walk!WalkTypeOK
  <2> HIDE DEF F
  <2>6. QED BY <2>1, <2>2, <2>3, <2>4, <2>5, FilesTouched
<1>4. QED BY <1>1, <1>2, <1>3

LEMMA MountLost ==
  ASSUME WalkInv, Walk!Unmount
  PROVE  WalkInv'
<1>1. /\ UNCHANGED <<config, present, outside, readable, fetched, touches>>
      /\ mounted' = FALSE /\ listed' = {} /\ walking \in Walk!Walks
  BY DEF Walk!Unmount, WalkInv, Walk!WalkTypeOK
<1>2. /\ walking' \in Walk!Walks /\ walking'.at = walking.at /\ walking'.dirs = walking.dirs
      /\ walking'.entries = walking.entries /\ walking'.results = walking.results
      /\ walking.at = "walk" /\ Top \notin walking.dirs => walking'.stirred = Files
      /\ walking.at = "walk" /\ Top \in walking.dirs => walking'.stirred = walking.stirred
  BY <1>1 DEF Walk!Unmount, Walk!Walks
<1>3. Walk!WalkTypeOK'
  BY <1>1, <1>2 DEF WalkInv, Walk!WalkTypeOK
<1>4. RootFirst' /\ MountGone' /\ Shallow'
  BY <1>1, <1>2 DEF WalkInv, RootFirst, MountGone, Shallow
<1>5. Collected'
  BY <1>2 DEF WalkInv, RootFirst, Collected, Walk!Walks
<1>6. Ahead'
  <2>1. \A f : Walk!Visible(f)' <=> Walk!Visible(f)
    BY <1>1 DEF Walk!Visible, Walk!Candidate, Walk!Hidden, Walk!Includes
  <2>2. QED BY <1>2, <2>1 DEF WalkInv, Ahead
<1>7. QED BY <1>1, <1>3, <1>4, <1>5, <1>6 DEF WalkInv

LEMMA WalkKeeps == WalkInv /\ [Next]_vars => WalkInv'
<1> SUFFICES ASSUME WalkInv, [Next]_vars PROVE WalkInv'
  OBVIOUS
<1>1. CASE Walk!CancelWalk
  BY <1>1, WalkAbandoned DEF Walk!CancelWalk, Walk!Env
<1>2. CASE Walk!Next
  BY <1>1, <1>2, WalkBegun, RootStatted, DirRead, EntryVisited, WalkFinished, FileFetched,
     DirectoryChanged, MountLost
  DEF Walk!Next, Walk!Step, Walk!StartMatch, Walk!StartSearch
<1>3. CASE UNCHANGED walkVars
  <2>1. Walk!WalkTypeOK'
    BY <1>3 DEF walkVars, WalkInv, Walk!WalkTypeOK
  <2>2. RootFirst' /\ MountGone' /\ Shallow' /\ Collected' /\ Ahead'
          /\ \A g \in listed' : Walk!Kept(g)'
    BY <1>3 DEF walkVars, WalkInv, RootFirst, MountGone, Shallow, Collected, Ahead, Walk!Kept,
                Walk!Visible, Walk!Accessible, Walk!Candidate, Walk!Hidden, Walk!Includes
  <2>3. QED BY <1>3, <2>1, <2>2 DEF walkVars, WalkInv
<1>4. QED BY <1>2, <1>3, WalkSteps DEF vars

\* A file of the last answer that is still as it was opens: Fetch judges it by
\* the scope Match judged it by (filesystem/fetch.go).
THEOREM WalkFound == Spec => []FileOpens
<1>1. WalkInv => FileOpens
  BY DEF WalkInv, FileOpens, Walk!FileOpens
<1>2. QED BY <1>1, WalkStarts, WalkKeeps, PTL DEF Spec

LEMMA WalkShapes ==
  ASSUME WalkInv
  PROVE  /\ Walk!MembersNow \in SUBSET Files /\ walking.stirred \in SUBSET Files
         /\ walking \in Walk!Walks
         /\ Walk!ReplyNow.state = "pending" <=> Walk!Walking
<1>1. walking \in Walk!Walks /\ SearchedFiles \subseteq Files
  BY WalkAssumed DEF WalkInv, Walk!WalkTypeOK, Walk!WalkAssumption
<1>2. Walk!ReplyNow.state = "pending" <=> Walk!Walking
  BY <1>1 DEF Walk!ReplyNow, Walk!Walking, Walk!Walks
<1>3. Walk!MembersNow \in SUBSET Files /\ walking.stirred \in SUBSET Files
  BY <1>1 DEF Walk!MembersNow, Walk!Walks
<1>4. QED BY <1>1, <1>2, <1>3

\* What changes is touched while a call is under way; a step that reads changes
\* nothing.
LEMMA WalkStirs ==
  ASSUME WalkInv, WalkInv', Walk!ReplyNow' = Walk!ReplyNow,
         Walk!Walking => /\ walking.stirred \subseteq walking'.stirred
                         /\ \A f \in Files \ walking'.stirred :
                               f \in Walk!MembersNow <=> f \in Walk!MembersNow'
  PROVE  Walk!WalkContract!Next
<1>1. Walk!MembersNow' \in SUBSET Files /\ walking'.stirred \in SUBSET Files
  <2>1. walking' \in Walk!Walks /\ SearchedFiles \subseteq Files
    BY WalkAssumed DEF WalkInv, Walk!WalkTypeOK, Walk!WalkAssumption
  <2>2. QED BY <2>1 DEF Walk!MembersNow, Walk!Walks
<1>2. Walk!ReplyNow.state = "pending" =>
        walking.stirred \cup Walk!WalkContract!Differ(Walk!MembersNow, Walk!MembersNow')
          \subseteq walking'.stirred
  BY <1>1, WalkShapes DEF Walk!WalkContract!Differ
<1>3. Walk!WalkContract!Stir
  BY <1>1, <1>2 DEF Walk!WalkContract!Stir
<1>4. QED BY <1>3 DEF Walk!WalkContract!Next

LEMMA WalkReads ==
  ASSUME WalkInv, WalkInv', UNCHANGED <<config, present, outside, readable>>,
         walking'.at = walking.at \/ {walking.at, walking'.at} = {"root", "walk"},
         walking'.query = walking.query, walking'.labels = walking.labels,
         walking'.stirred = walking.stirred,
         walking.at = "given" => walking'.results = walking.results
  PROVE  Walk!WalkContract!Next
<1>1. Walk!MembersNow' = Walk!MembersNow
  BY DEF Walk!MembersNow, Walk!Labels, Walk!Visible, Walk!Candidate, Walk!Hidden, Walk!Includes
<1>2. walking.at \in {"root", "walk"} <=> walking'.at \in {"root", "walk"}
  OBVIOUS
<1>3. Walk!ReplyNow' = Walk!ReplyNow
  BY <1>2 DEF Walk!ReplyNow, Walk!Walking
<1>4. QED BY <1>1, <1>3, WalkStirs

LEMMA WalkRefuses ==
  ASSUME WalkInv, Walk!Walking, walking' = Walk!Abandoned,
         UNCHANGED <<config, present, outside, readable>>
  PROVE  Walk!WalkContract!Next
<1>1. Walk!MembersNow' = Walk!MembersNow /\ walking'.stirred = walking.stirred
  BY AbandonedShape
  DEF Walk!MembersNow, Walk!Labels, Walk!Visible, Walk!Candidate, Walk!Hidden, Walk!Includes
<1>2. Walk!ReplyNow' = [state |-> "failed", items |-> {}]
  BY AbandonedShape DEF Walk!ReplyNow, Walk!Walking
<1>3. Walk!WalkContract!Refuse("walk")
  BY <1>1, <1>2, WalkShapes DEF Walk!WalkContract!Refuse
<1>4. QED BY <1>3 DEF Walk!WalkContract!Next

LEMMA WalkBegins ==
  ASSUME WalkInv, NEW labels \in SUBSET Folders, NEW q \in {Files, SearchedFiles},
         Walk!StartWalk(labels, q)
  PROVE  Walk!WalkContract!Next
<1>1. walking'.at = "root" /\ walking'.stirred = {} /\ walking'.query = q
  BY DEF Walk!StartWalk, Walk!NoWalk
<1>2. Walk!ReplyNow' = [state |-> "pending", items |-> {}] /\ ~Walk!Walking
  BY <1>1 DEF Walk!ReplyNow, Walk!Walking, Walk!StartWalk
<1>3. Walk!MembersNow' \in SUBSET Files
  BY <1>1, WalkAssumed DEF Walk!MembersNow, Walk!WalkAssumption
<1>4. Walk!WalkContract!Begin("walk")
  BY <1>1, <1>2, <1>3, WalkShapes DEF Walk!WalkContract!Begin
<1>5. QED BY <1>4 DEF Walk!WalkContract!Next

LEMMA WalkGives ==
  ASSUME WalkInv, Walk!FinishWalk
  PROVE  Walk!WalkContract!Next
<1> DEFINE items == {f \in walking.results \cap walking.query :
                       Walk!Labels(f) \cap walking.labels # {}}
<1>1. /\ walking \in Walk!Walks /\ walking.at = "walk" /\ walking.dirs = {}
      /\ walking.entries = {} /\ Collected /\ Ahead /\ Shallow
      /\ walking' = [walking EXCEPT !.at = "given", !.results = items]
      /\ UNCHANGED <<config, present, outside, readable>>
  BY DEF WalkInv, Walk!WalkTypeOK, Walk!FinishWalk, Walk!Env
<1>2. items \in SUBSET Files
  BY <1>1 DEF Walk!Walks
<1>3. \A f \in Files \ walking.stirred : f \in walking.results <=> Walk!Visible(f)
  <2> SUFFICES ASSUME NEW f \in Files \ walking.stirred
               PROVE  f \in walking.results <=> Walk!Visible(f)
    OBVIOUS
  <2>1. Walk!Visible(f) => f \in walking.results
    BY <1>1 DEF Ahead
  <2>2. f \in walking.results => Walk!Kept(f) /\ (config.recursive \/ FolderOf[f] = Top)
    BY <1>1 DEF Collected, Shallow
  <2>3. QED BY <2>1, <2>2 DEF Walk!Kept, Walk!Visible, Walk!Accessible
<1>4. \A f \in Files \ walking.stirred : f \in items <=> f \in Walk!MembersNow
  BY <1>3 DEF Walk!MembersNow
<1> HIDE DEF items
<1>5. /\ walking'.at = "given" /\ walking'.results = items
      /\ walking'.query = walking.query /\ walking'.labels = walking.labels
      /\ walking'.stirred = walking.stirred
  BY <1>1 DEF Walk!Walks
<1>6. Walk!MembersNow' = Walk!MembersNow
  BY <1>1, <1>5
  DEF Walk!MembersNow, Walk!Labels, Walk!Visible, Walk!Candidate, Walk!Hidden, Walk!Includes
<1>7. Walk!ReplyNow' = [state |-> "given", items |-> items]
  BY <1>5 DEF Walk!ReplyNow, Walk!Walking
<1>8. /\ Walk!MembersNow \ walking.stirred \subseteq items
      /\ items \subseteq Walk!MembersNow \cup walking.stirred
  BY <1>2, <1>4, WalkShapes
<1>9. Walk!ReplyNow.state = "pending"
  BY <1>1, WalkShapes DEF Walk!Walking
<1>10. Walk!WalkContract!Give("walk")
  BY <1>2, <1>5, <1>6, <1>7, <1>8, <1>9 DEF Walk!WalkContract!Give
<1>11. QED BY <1>10 DEF Walk!WalkContract!Next

LEMMA WalkTouched ==
  ASSUME WalkInv, WalkInv', NEW F \in SUBSET Files, Walk!Touch(F),
         \A f \in Files \ F :
            /\ f \in present <=> f \in present'
            /\ f \in outside <=> f \in outside'
            /\ PathTo[FolderOf[f]] \subseteq readable <=> PathTo[FolderOf[f]] \subseteq readable'
  PROVE  Walk!WalkContract!Next
<1>1. /\ walking'.at = walking.at /\ walking'.query = walking.query
      /\ walking'.labels = walking.labels /\ walking'.results = walking.results
      /\ Walk!Walking => walking'.stirred = walking.stirred \cup F
  <2>1. CASE Walk!Walking
    BY <2>1, WalkShapes DEF Walk!Touch, Walk!Walks
  <2>2. CASE ~Walk!Walking
    BY <2>2 DEF Walk!Touch, Walk!Walking
  <2>3. QED BY <2>1, <2>2
<1>2. ASSUME NEW f \in Files \ F PROVE Walk!Visible(f)' <=> Walk!Visible(f)
  BY DEF Walk!Visible, Walk!Touch, Walk!Candidate, Walk!Hidden, Walk!Includes
<1>3. \A f \in Files \ F : f \in Walk!MembersNow <=> f \in Walk!MembersNow'
  BY <1>1, <1>2 DEF Walk!MembersNow, Walk!Labels
<1>4. Walk!ReplyNow' = Walk!ReplyNow
  BY <1>1 DEF Walk!ReplyNow, Walk!Walking
<1>5. QED BY <1>1, <1>3, <1>4, WalkStirs

LEMMA WalkMaps ==
  ASSUME WalkInv, WalkInv', Walk!Next
  PROVE  Walk!WalkContract!Next
<1>1. walking \in Walk!Walks
  BY WalkShapes
<1>2. ASSUME NEW labels \in SUBSET Folders, NEW q \in {Files, SearchedFiles},
             Walk!StartWalk(labels, q)
      PROVE  Walk!WalkContract!Next
  BY <1>2, WalkBegins
<1>3. CASE Walk!StatRoot
  <2>1. UNCHANGED <<config, present, outside, readable>> /\ Walk!Walking
    BY <1>3 DEF Walk!StatRoot, Walk!Env, Walk!Walking
  <2>2. CASE mounted
    BY <1>1, <1>3, <2>1, <2>2, WalkReads DEF Walk!StatRoot, Walk!Walks
  <2>3. CASE ~mounted
    BY <1>3, <2>1, <2>3, WalkRefuses DEF Walk!StatRoot
  <2>4. QED BY <2>2, <2>3
<1>4. ASSUME NEW d \in Folders, Walk!ReadDir(d) PROVE Walk!WalkContract!Next
  <2>1. UNCHANGED <<config, present, outside, readable>> /\ Walk!Walking
    BY <1>4 DEF Walk!ReadDir, Walk!Env, Walk!Walking
  <2>2. CASE walking' = Walk!Abandoned
    BY <2>1, <2>2, WalkRefuses
  <2>3. CASE walking' # Walk!Abandoned
    <3>1. /\ walking'.at = walking.at /\ walking'.query = walking.query
          /\ walking'.labels = walking.labels /\ walking'.stirred = walking.stirred
          /\ walking.at = "walk"
      BY <1>1, <1>4, <2>3 DEF Walk!ReadDir, Walk!Walks
    <3>2. QED BY <2>1, <3>1, WalkReads
  <2>4. QED BY <2>2, <2>3
<1>5. ASSUME NEW f \in Files, Walk!Visit(f) PROVE Walk!WalkContract!Next
  <2>1. UNCHANGED <<config, present, outside, readable>> /\ Walk!Walking
    BY <1>5 DEF Walk!Visit, Walk!Env, Walk!Walking
  <2>2. CASE walking' = Walk!Abandoned
    BY <2>1, <2>2, WalkRefuses
  <2>3. CASE walking' # Walk!Abandoned
    <3>1. /\ walking'.at = walking.at /\ walking'.query = walking.query
          /\ walking'.labels = walking.labels /\ walking'.stirred = walking.stirred
          /\ walking.at = "walk"
      BY <1>1, <1>5, <2>3 DEF Walk!Visit, Walk!Walks
    <3>2. QED BY <2>1, <3>1, WalkReads
  <2>4. QED BY <2>2, <2>3
<1>6. CASE Walk!FinishWalk
  BY <1>6, WalkGives
<1>7. CASE Walk!CancelWalk
  BY <1>7, WalkRefuses DEF Walk!CancelWalk, Walk!Env
<1>8. ASSUME NEW f \in Files, Walk!Fetch(f) PROVE Walk!WalkContract!Next
  BY <1>8, WalkReads DEF Walk!Fetch, Walk!Env
<1>9. CASE Walk!Unmount
  <2>1. /\ walking'.at = walking.at /\ walking'.query = walking.query
        /\ walking'.labels = walking.labels /\ walking'.results = walking.results
        /\ walking.stirred \subseteq walking'.stirred
    BY <1>1, <1>9 DEF Walk!Unmount, Walk!Walks
  <2>2. Walk!MembersNow' = Walk!MembersNow
    BY <1>9, <2>1 DEF Walk!Unmount, Walk!MembersNow, Walk!Labels, Walk!Visible, Walk!Candidate,
                      Walk!Hidden, Walk!Includes
  <2>3. Walk!ReplyNow' = Walk!ReplyNow
    BY <2>1 DEF Walk!ReplyNow, Walk!Walking
  <2>4. QED BY <2>1, <2>2, <2>3, WalkStirs
<1>10. ASSUME NEW f \in Files, Walk!CreateOrRemove(f) PROVE Walk!WalkContract!Next
  <2>1. Walk!Touch({f}) /\ {f} \in SUBSET Files /\ readable' = readable
    BY <1>10 DEF Walk!CreateOrRemove
  <2>2. \A g \in Files \ {f} : (g \in present <=> g \in present') /\ (g \in outside <=> g \in outside')
    BY <1>10 DEF Walk!CreateOrRemove
  <2>3. QED BY <2>1, <2>2, WalkTouched
<1>11. ASSUME NEW f \in Files, Walk!LinkOutside(f) PROVE Walk!WalkContract!Next
  <2>1. Walk!Touch({f}) /\ {f} \in SUBSET Files /\ readable' = readable /\ present' = present
    BY <1>11 DEF Walk!LinkOutside
  <2>2. \A g \in Files \ {f} : g \in outside <=> g \in outside'
    BY <1>11 DEF Walk!LinkOutside
  <2>3. QED BY <2>1, <2>2, WalkTouched
<1>12. ASSUME NEW d \in Folders, Walk!Chmod(d) PROVE Walk!WalkContract!Next
  <2> DEFINE F == {f \in Files : d \in PathTo[FolderOf[f]]}
  <2>1. Walk!Touch(F) /\ F \in SUBSET Files /\ present' = present /\ outside' = outside
    BY <1>12 DEF Walk!Chmod
  <2>2. \A e \in Folders \ {d} : e \in readable <=> e \in readable'
    BY <1>12 DEF Walk!Chmod
  <2>3. \A g \in Files \ F : PathTo[FolderOf[g]] \subseteq Folders \ {d}
    BY WalkAssumed DEF Walk!WalkAssumption
  <2> HIDE DEF F
  <2>4. QED BY <2>1, <2>2, <2>3, WalkTouched
<1>13. QED
  BY <1>2, <1>3, <1>4, <1>5, <1>6, <1>7, <1>8, <1>9, <1>10, <1>11, <1>12
  DEF Walk!Next, Walk!Step, Walk!StartMatch, Walk!StartSearch

\* Match and Search of the filesystem give the complete current set, never a
\* partial one, over any tree of folders (filesystem/walk.go).
THEOREM WalkAnswered == Spec => WalkAnswers
<1>1. Init => Walk!WalkContract!Init
  <2> SUFFICES ASSUME Init PROVE Walk!WalkContract!Init
    OBVIOUS
  <2>1. walking.at = "idle" /\ walking.stirred = {}
    BY DEF Init, Walk!Init, Walk!NoWalk
  <2>2. Walk!ReplyNow = [state |-> "none", items |-> {}]
    BY <2>1 DEF Walk!ReplyNow, Walk!Walking
  <2>3. Walk!MembersNow \in SUBSET Files
    BY WalkStarts, WalkShapes
  <2>4. QED BY <2>1, <2>2, <2>3 DEF Walk!WalkContract!Init, Walk!WalkContract!Nothing
<1>2. WalkInv /\ WalkInv' /\ [Next]_vars
        => [chosen = "filesystem" => Walk!WalkContract!Next]_vars
  BY WalkMaps, WalkSteps
<1>3. QED BY <1>1, <1>2, WalkStarts, WalkKeeps, PTL DEF Spec, WalkAnswers

-----------------------------------------------------------------------------
\* Installer

LEMMA SetupSteps == [Next]_vars => [chosen = "installer" /\ Setup!Next]_setupVars
<1> USE DEF vars
<1>1. Install => chosen = "installer" /\ Setup!Next
  BY DEF Install
<1>2. WhatsApp \/ Proton \/ Silverbullet \/ Paperless \/ Filesystem \/ SignalDesktop \/ Chats
        \/ DriveRequests \/ UNCHANGED vars => UNCHANGED setupVars
  BY DEF WhatsApp, Proton, Silverbullet, Paperless, Filesystem, SignalDesktop, Chats,
         DriveRequests
<1>3. QED BY <1>1, <1>2 DEF Next

Pair == {"manifest", "signature"}
Scripts == [at : {"idle", "stage", "checksums", "provenance", "copy", "rename", "retire",
                  "evidence", "done", "failed", "uninstall"},
            tag : Releases \cup {NoRelease},
            payload : {"genuine", "damaged", "unsigned"},
            todo : SUBSET Setup!Assets, owned : Binaries \cup {"nothing"},
            older : SUBSET Releases, touched : SUBSET Binaries]

Placing == script.at \in {"rename", "retire", "evidence", "done"}

\* What each stage has established of the download and of its work list.
Staged ==
    /\ script.at \notin {"idle", "failed", "uninstall"} => script.tag \in Releases
    /\ script.at = "provenance" => script.payload # "damaged"
    /\ script.at \in {"copy", "rename"} => /\ script.payload = "genuine"
                                           /\ script.todo \subseteq Publishes[script.tag] \cup Pair
    /\ script.at = "retire" => script.todo \subseteq Binaries \ Publishes[script.tag]

\* What has been renamed is the release's own, or the operator's since.
Renamed ==
    Placing =>
        /\ \A b \in Publishes[script.tag] :
              \/ script.at = "rename" /\ b \in script.todo
              \/ placed[b] = script.tag
              \/ placed[b] = "own" /\ b \in script.touched
        /\ (script.at = "rename" /\ "manifest" \in script.todo) \/ script.tag \in manifests
        /\ (script.at = "rename" /\ "signature" \in script.todo) \/ script.tag \in sigs

\* Bytes of a release carry its names, and are either vouched for or known to
\* be orphans, but for those of the release being placed.
Vouched ==
    \A b \in Binaries :
        /\ placed[b] # "unverified"
        /\ placed[b] \in Releases =>
              /\ b \in Publishes[placed[b]]
              /\ \/ Setup!Whole(placed[b]) \/ b \in orphans
                 \/ script.at = "rename" /\ script.tag = placed[b]

\* While the plugins of older releases go, their manifests stay, and nothing
\* of theirs is overlooked.
Retiring ==
    script.at \in {"retire", "evidence", "done"} =>
        /\ script.tag \notin script.older /\ manifests \subseteq script.older \cup {script.tag}
        /\ script.at = "done" => script.older = {}
        /\ \A b \in Binaries : placed[b] \in Releases \ {script.tag} =>
              \/ b \in orphans
              \/ /\ script.at = "retire" /\ placed[b] \in script.older
                 /\ b \in script.todo \cup {script.owned}

\* What is about to go was found to be a release's, not the operator's.
Authentic ==
    script.owned # "nothing" =>
        /\ script.at = "retire" /\ script.owned \notin Publishes[script.tag]
        /\ placed[script.owned] = "own" => script.owned \in script.touched

\* A fleet that is served is whole, and none but the one being placed once
\* anything has been placed.
Serves ==
    /\ serving # NoRelease => /\ Setup!Whole(serving)
                              /\ \A b \in Publishes[serving] : placed[b] = serving
    /\ script.at \in {"retire", "evidence"} => serving \in {NoRelease, script.tag}
    /\ script.at = "uninstall" => serving = NoRelease

SetupTyped ==
    /\ placed \in [Binaries -> Setup!Bytes]
    /\ manifests \subseteq Releases /\ sigs \subseteq Releases
    /\ script \in Scripts
    /\ serving \in Releases \cup {NoRelease}
    /\ orphans \subseteq Binaries
    /\ mishaps \in 0 .. MaxMishaps

SetupInv ==
    SetupTyped /\ Staged /\ Renamed /\ Vouched /\ Retiring /\ Authentic /\ Serves

\* A signature without its manifest is known to be stranded, but for the one
\* whose pair is being removed.
Paired ==
    /\ stranded \subseteq Releases \ manifests
    /\ script.at \notin {"evidence", "uninstall"} => sigs \ manifests \subseteq stranded
    /\ script.at = "evidence" => sigs \ manifests \subseteq stranded \cup script.older

LEMMA SetupAssumed ==
  /\ NoRelease \notin Releases
  /\ \A r \in Releases : r \notin {"absent", "own", "unverified"}
  /\ \A b \in Binaries : b \notin {"manifest", "signature", "nothing"}
  /\ \A r \in Releases : Publishes[r] \subseteq Binaries
  /\ MaxMishaps \in Nat
BY SourcesAssumption DEF Setup!InstallerAssumption

LEMMA SetupStarts == Init => SetupInv
<1> SUFFICES ASSUME Init PROVE SetupInv
  OBVIOUS
<1>1. Setup!Init
  BY DEF Init
<1>2. script \in Scripts /\ script.at = "idle" /\ script.owned = "nothing"
  BY <1>1 DEF Setup!Init, Setup!Idle, Scripts, Setup!Assets
<1>3. SetupTyped
  BY <1>1, <1>2, SetupAssumed DEF Setup!Init, SetupTyped, Setup!Bytes
<1>4. QED
  BY <1>1, <1>2, <1>3, SetupAssumed
  DEF SetupInv, Staged, Renamed, Placing, Vouched, Retiring, Authentic, Serves, Setup!Init

\* The script goes on and the directory stays as it is, before anything is
\* placed or after everything has been.
LEMMA ScriptGoes ==
  ASSUME SetupInv, script' \in Scripts, Staged',
         UNCHANGED <<placed, manifests, sigs, serving, orphans, stranded, mishaps>>,
         script'.at \notin {"retire", "evidence", "done", "uninstall"},
         script.at # "rename", script'.owned = "nothing",
         script'.at = "rename" => script'.todo = Publishes[script'.tag] \cup Pair
  PROVE  SetupInv'
<1>1. SetupTyped'
  BY DEF SetupInv, SetupTyped
<1>2. Renamed'
  BY DEF Renamed, Placing, Pair
<1>3. Vouched'
  BY DEF SetupInv, Vouched, Setup!Whole
<1>4. Retiring' /\ Authentic' /\ Serves'
  BY DEF SetupInv, Retiring, Authentic, Serves, Setup!Whole
<1>5. QED BY <1>1, <1>2, <1>3, <1>4 DEF SetupInv

LEMMA ScriptBegins ==
  ASSUME SetupInv, (\E r \in Releases : Setup!StartInstall(r)) \/ Setup!Stage
                     \/ Setup!VerifyChecksums \/ Setup!VerifyProvenance
                     \/ \E a \in Setup!Assets : Setup!Copy(a)
  PROVE  SetupInv'
<1>1. script \in Scripts /\ Staged /\ Authentic
  BY DEF SetupInv, SetupTyped
<1>2. ASSUME NEW r \in Releases, Setup!StartInstall(r) PROVE SetupInv'
  <2>1. script' = [Setup!Idle EXCEPT !.at = "stage", !.tag = r]
    BY <1>2 DEF Setup!StartInstall
  <2>2. script' \in Scripts /\ script'.at = "stage" /\ script'.tag = r /\ script'.owned = "nothing"
    BY <2>1 DEF Setup!Idle, Scripts, Setup!Assets
  <2>3. /\ script.at # "rename"
        /\ UNCHANGED <<placed, manifests, sigs, serving, orphans, stranded, mishaps>>
    BY <1>2 DEF Setup!StartInstall, Setup!Busy, Setup!Directory
  <2>4. Staged'
    BY <2>2 DEF Staged
  <2>5. QED BY <2>2, <2>3, <2>4, ScriptGoes
<1>3. CASE Setup!Stage
  <2>1. /\ script.at = "stage"
        /\ UNCHANGED <<placed, manifests, sigs, serving, orphans, stranded, mishaps>>
        /\ script' \in Scripts /\ script'.at = "checksums" /\ script'.tag = script.tag
        /\ script'.owned = script.owned
    BY <1>1, <1>3 DEF Setup!Stage, Setup!Directory, Scripts
  <2>2. Staged' /\ script'.owned = "nothing"
    BY <1>1, <2>1 DEF Staged, Authentic
  <2>3. QED BY <2>1, <2>2, ScriptGoes
<1>4. CASE Setup!VerifyChecksums
  <2>1. /\ script.at = "checksums"
        /\ UNCHANGED <<placed, manifests, sigs, serving, orphans, stranded, mishaps>>
        /\ script' \in Scripts /\ script'.tag = script.tag
        /\ script'.at = IF script.payload = "damaged" THEN "failed" ELSE "provenance"
        /\ script'.owned = script.owned /\ script'.payload = script.payload
    BY <1>1, <1>4 DEF Setup!VerifyChecksums, Setup!Goto, Setup!Directory, Scripts
  <2>2. Staged' /\ script'.owned = "nothing"
    BY <1>1, <2>1 DEF Staged, Authentic
  <2>3. QED BY <2>1, <2>2, ScriptGoes
<1>5. CASE Setup!VerifyProvenance
  <2>1. /\ script.at = "provenance"
        /\ UNCHANGED <<placed, manifests, sigs, serving, orphans, stranded, mishaps>>
    BY <1>5 DEF Setup!VerifyProvenance, Setup!Directory
  <2>2. script.owned = "nothing" /\ script.tag \in Releases /\ script.payload # "damaged"
    BY <1>1, <2>1 DEF Authentic, Staged
  <2>3. CASE script.payload = "unsigned"
    <3>1. script' \in Scripts /\ script'.at = "failed" /\ script'.owned = "nothing"
      BY <1>1, <1>5, <2>2, <2>3 DEF Setup!VerifyProvenance, Scripts
    <3>2. Staged'
      BY <3>1 DEF Staged
    <3>3. QED BY <2>1, <3>1, <3>2, ScriptGoes
  <2>4. CASE script.payload # "unsigned"
    <3>1. Publishes[script.tag] \cup Pair \in SUBSET Setup!Assets
      BY <2>2, SetupAssumed DEF Pair, Setup!Assets
    <3>2. /\ script' \in Scripts /\ script'.at = "copy" /\ script'.owned = "nothing"
          /\ script'.tag = script.tag /\ script'.todo = Publishes[script.tag] \cup Pair
          /\ script'.payload = "genuine"
      BY <1>1, <1>5, <2>2, <2>4, <3>1 DEF Setup!VerifyProvenance, Scripts, Pair
    <3>3. Staged'
      BY <2>2, <3>2 DEF Staged
    <3>4. QED BY <2>1, <3>2, <3>3, ScriptGoes
  <2>5. QED BY <2>3, <2>4
<1>6. ASSUME NEW a \in Setup!Assets, Setup!Copy(a) PROVE SetupInv'
  <2>1. /\ script.at = "copy"
        /\ UNCHANGED <<placed, manifests, sigs, serving, orphans, stranded, mishaps>>
    BY <1>6 DEF Setup!Copy, Setup!Directory
  <2>2. /\ script.owned = "nothing" /\ script.tag \in Releases /\ script.payload = "genuine"
        /\ script.todo \subseteq Publishes[script.tag] \cup Pair
    BY <1>1, <2>1 DEF Authentic, Staged
  <2>3. Publishes[script.tag] \cup Pair \in SUBSET Setup!Assets
    BY <2>2, SetupAssumed DEF Pair, Setup!Assets
  <2>4. script' = [script EXCEPT
            !.todo = IF script.todo = {a} THEN Publishes[script.tag] \cup Pair
                                          ELSE script.todo \ {a},
            !.at = IF script.todo = {a} THEN "rename" ELSE script.at]
    BY <1>6 DEF Setup!Copy, Pair
  <2>5. /\ script' \in Scripts /\ script'.owned = "nothing" /\ script'.payload = "genuine"
        /\ script'.tag = script.tag
        /\ script'.at = IF script.todo = {a} THEN "rename" ELSE "copy"
        /\ script'.todo = IF script.todo = {a} THEN Publishes[script.tag] \cup Pair
                                               ELSE script.todo \ {a}
    BY <1>1, <2>1, <2>2, <2>3, <2>4 DEF Scripts
  <2>6. Staged'
    BY <2>2, <2>5 DEF Staged
  <2>7. QED BY <2>1, <2>5, <2>6, ScriptGoes
<1>7. QED BY <1>2, <1>3, <1>4, <1>5, <1>6

\* What a rename puts in its place.
LEMMA PutShape ==
  ASSUME SetupInv, NEW a \in Setup!Assets, Setup!Rename(a)
  PROVE  /\ script.at = "rename" /\ script.tag \in Releases /\ a \in script.todo
         /\ placed' = IF a \in Binaries THEN [placed EXCEPT ![a] = script.tag] ELSE placed
         /\ manifests' = IF a = "manifest" THEN manifests \cup {script.tag} ELSE manifests
         /\ sigs' = IF a = "signature" THEN sigs \cup {script.tag} ELSE sigs
         /\ serving' = IF script.tag = serving THEN serving ELSE NoRelease
         /\ mishaps' = mishaps
         /\ orphans' \subseteq orphans
         /\ \A b \in orphans \ orphans' : b = a \/ (/\ placed'[b] = script.tag
                                                    /\ script.tag \in manifests' \cap sigs')
<1>1. script.at = "rename" /\ Setup!Put(a) /\ Setup!Turn(a)
  BY DEF Setup!Rename
<1>2. script.payload = "genuine" /\ script.tag \in Releases
  BY <1>1 DEF SetupInv, Staged
<1>3. /\ placed' = IF a \in Binaries THEN [placed EXCEPT ![a] = script.tag] ELSE placed
      /\ manifests' = IF a = "manifest" THEN manifests \cup {script.tag} ELSE manifests
      /\ sigs' = IF a = "signature" THEN sigs \cup {script.tag} ELSE sigs
  BY <1>1, <1>2 DEF Setup!Put
<1>4. orphans' = (orphans \ {a}) \ (IF script.tag \in manifests' \cap sigs'
                                       THEN {b \in Binaries : placed'[b] = script.tag} ELSE {})
  BY <1>1 DEF Setup!Put
<1>5. QED BY <1>1, <1>2, <1>3, <1>4 DEF Setup!Rename, Setup!Turn

LEMMA FileRenamed ==
  ASSUME SetupInv, NEW a \in Setup!Assets, Setup!Rename(a)
  PROVE  SetupInv'
<1> DEFINE t == script.tag
           last == script.todo = {a}
<1>1. /\ SetupTyped /\ Staged /\ Renamed /\ Vouched /\ Serves /\ script \in Scripts
      /\ Authentic /\ script.owned = "nothing"
  BY PutShape DEF SetupInv, SetupTyped, Authentic
<1>2. /\ script' \in Scripts /\ script'.tag = t /\ script'.owned = "nothing"
      /\ script'.payload = script.payload /\ script'.touched = script.touched
      /\ script'.at = IF last THEN "retire" ELSE "rename"
      /\ last => script'.older = Setup!Older /\ script'.todo = Setup!RetireCandidates
      /\ ~last => script'.todo = script.todo \ {a}
  <2>1. script' = IF last THEN [script EXCEPT !.at = "retire", !.older = Setup!Older,
                                               !.todo = Setup!RetireCandidates]
                          ELSE [script EXCEPT !.todo = @ \ {a}]
    BY DEF Setup!Rename
  <2>2. Setup!Older \subseteq Releases /\ Setup!RetireCandidates \subseteq Setup!Assets
    BY <1>1, SetupAssumed DEF Setup!Older, Setup!RetireCandidates, Setup!Assets, SetupTyped
  <2>3. script.at = "rename"
    BY PutShape
  <2>4. QED BY <1>1, <2>1, <2>2, <2>3 DEF Scripts
<1>3. /\ placed' \in [Binaries -> Setup!Bytes]
      /\ \A b \in Binaries : placed'[b] = IF b = a THEN t ELSE placed[b]
      /\ manifests' \subseteq Releases /\ manifests \subseteq manifests'
      /\ manifests' \subseteq manifests \cup {t}
      /\ sigs' \subseteq Releases /\ sigs \subseteq sigs' /\ sigs' \subseteq sigs \cup {t}
      /\ a = "manifest" => t \in manifests'
      /\ a = "signature" => t \in sigs'
  <2>1. t \in Setup!Bytes /\ t \in Releases
    BY PutShape DEF Setup!Bytes
  <2> HIDE DEF t
  <2>2. placed' = IF a \in Binaries THEN [placed EXCEPT ![a] = t] ELSE placed
    BY PutShape DEF t
  <2>3. placed' \in [Binaries -> Setup!Bytes]
    BY <1>1, <2>1, <2>2 DEF SetupTyped
  <2>4. \A b \in Binaries : placed'[b] = IF b = a THEN t ELSE placed[b]
    BY <1>1, <2>2 DEF SetupTyped
  <2>5. QED BY <1>1, <2>1, <2>3, <2>4, PutShape DEF SetupTyped, t
<1>4. t \in Releases /\ script.at = "rename" /\ a \in script.todo
        /\ script.todo \subseteq Publishes[t] \cup Pair
  BY <1>1, PutShape DEF Staged
<1> HIDE DEF t, last
<1>5. SetupTyped'
  BY <1>1, <1>2, <1>3, <1>4, PutShape DEF SetupTyped, t
<1>6. Staged'
  <2>1. Setup!RetireCandidates \subseteq Binaries \ Publishes[t]
    <3>1. ASSUME NEW b \in Setup!RetireCandidates PROVE b \in Binaries \ Publishes[t]
      <4>1. PICK r \in Setup!Older : b \in Publishes[r]
        BY DEF Setup!RetireCandidates
      <4>2. r \in Releases
        BY <1>1 DEF Setup!Older, SetupTyped
      <4>3. b \notin Publishes[script.tag]
        BY Zenon DEF Setup!RetireCandidates
      <4>4. QED BY <4>1, <4>2, <4>3, SetupAssumed DEF t
    <3>2. QED BY <3>1
  <2>2. QED BY <1>1, <1>2, <1>4, <2>1 DEF Staged, t
<1>7. Renamed'
  <2>1. ASSUME NEW b \in Publishes[t]
        PROVE  \/ ~last /\ b \in script.todo \ {a}
               \/ placed'[b] = t
               \/ placed'[b] = "own" /\ b \in script.touched
    <3>1. b \in Binaries
      BY <1>4, SetupAssumed
    <3>2. CASE b = a
      BY <1>3, <3>1, <3>2
    <3>3. CASE b # a
      <4>1. b \in script.todo \/ placed[b] = t \/ (placed[b] = "own" /\ b \in script.touched)
        BY <1>1, <1>4 DEF Renamed, Placing, t
      <4>2. QED BY <1>3, <3>1, <3>3, <4>1 DEF last
    <3>4. QED BY <3>2, <3>3
  <2>2. (~last /\ "manifest" \in script.todo \ {a}) \/ t \in manifests'
    BY <1>1, <1>3, <1>4 DEF Renamed, Placing, t, last
  <2>3. (~last /\ "signature" \in script.todo \ {a}) \/ t \in sigs'
    BY <1>1, <1>3, <1>4 DEF Renamed, Placing, t, last
  <2>4. QED BY <1>2, <2>1, <2>2, <2>3 DEF Renamed, Placing
<1>8. Vouched'
  <2> SUFFICES ASSUME NEW b \in Binaries
               PROVE  /\ placed'[b] # "unverified"
                      /\ placed'[b] \in Releases =>
                            /\ b \in Publishes[placed'[b]]
                            /\ \/ placed'[b] \in manifests' \cap sigs' \/ b \in orphans'
                               \/ script'.at = "rename" /\ script'.tag = placed'[b]
    BY DEF Vouched, Setup!Whole
  <2>1. placed'[b] = t => b \in Publishes[t]
    <3>1. CASE b = a
      BY <1>4, <3>1, SetupAssumed DEF Pair
    <3>2. CASE b # a
      BY <1>1, <1>3, <1>4, <3>2 DEF Vouched
    <3>3. QED BY <3>1, <3>2
  <2>2. CASE placed'[b] = t
    <3>1. script'.at = "rename" \/ (t \in manifests' /\ t \in sigs')
      BY <1>2, <1>7 DEF Renamed, Placing
    <3>2. QED BY <1>2, <1>4, <2>1, <2>2, <3>1, SetupAssumed DEF Setup!Whole
  <2>3. CASE placed'[b] # t
    <3>1. b # a /\ placed'[b] = placed[b]
      BY <1>3, <2>3
    <3>2. b \in orphans => b \in orphans'
      BY <2>3, <3>1, PutShape DEF t
    <3>3. QED BY <1>1, <1>3, <2>3, <3>1, <3>2 DEF Vouched, Setup!Whole, t
  <2>4. QED BY <2>2, <2>3
<1>9. Retiring'
  <2>1. CASE ~last
    BY <1>2, <2>1 DEF Retiring
  <2>2. CASE last
    <3>1. script'.at = "retire" /\ script'.older = manifests \ {t}
      BY <1>2, <2>2 DEF Setup!Older, t
    <3>2. ASSUME NEW b \in Binaries, placed'[b] \in Releases \ {t}
          PROVE  \/ b \in orphans'
                 \/ /\ placed'[b] \in script'.older
                    /\ b \in script'.todo
      <4>1. placed'[b] = placed[b] /\ b \in Publishes[placed[b]]
        BY <1>1, <1>3, <3>2 DEF Vouched
      <4>2. b \notin Publishes[t]
        <5>1. b \in Publishes[t] => placed'[b] = t \/ placed'[b] = "own"
          BY <1>2, <1>7, <3>1 DEF Renamed, Placing
        <5>2. QED BY <3>2, <5>1, SetupAssumed
      <4>3. CASE placed[b] \in manifests
        <5>1. placed[b] \in Setup!Older
          BY <3>2, <4>1, <4>3 DEF Setup!Older, t
        <5>2. b \in Setup!RetireCandidates
          <6>1. b \in UNION {Publishes[r] : r \in Setup!Older}
            BY <4>1, <5>1, Zenon
          <6>2. QED BY <4>2, <6>1, Zenon DEF Setup!RetireCandidates, t
        <5>3. QED BY <1>2, <2>2, <3>1, <3>2, <4>1, <4>3, <5>2
      <4>4. CASE placed[b] \notin manifests
        <5>1. b \in orphans'
          BY <1>2, <1>3, <1>8, <3>1, <3>2, <4>1, <4>4 DEF Vouched, Setup!Whole
        <5>2. QED BY <5>1
      <4>5. QED BY <4>3, <4>4
    <3>3. manifests' \subseteq script'.older \cup {t}
      BY <1>3, <3>1
    <3>4. QED BY <1>2, <3>1, <3>2, <3>3 DEF Retiring
  <2>3. QED BY <2>1, <2>2
<1>10. Authentic'
  BY <1>2 DEF Authentic
<1>11. Serves'
  <2>1. serving' = IF t = serving THEN serving ELSE NoRelease
    BY PutShape DEF t
  <2>2. ASSUME serving' # NoRelease
        PROVE  serving' \in manifests' \cap sigs' /\ \A b \in Publishes[serving'] : placed'[b] = serving'
    <3>1. serving' = t /\ serving = t
      BY <2>1, <2>2
    <3>2. t \in manifests' \cap sigs' /\ \A b \in Publishes[t] : placed[b] = t
      BY <1>1, <1>3, <1>4, <3>1, SetupAssumed DEF Serves, Setup!Whole
    <3>3. \A b \in Publishes[t] : placed'[b] = t
      BY <1>3, <1>4, <3>2, SetupAssumed
    <3>4. QED BY <3>1, <3>2, <3>3 DEF Setup!Whole
  <2>3. QED BY <1>2, <2>1, <2>2 DEF Serves, Setup!Whole
<1>12. QED BY <1>5, <1>6, <1>7, <1>8, <1>9, <1>10, <1>11 DEF SetupInv

\* A step that changes nothing but the script's place, after everything has been
\* placed.
LEMMA OwnershipChecked ==
  ASSUME SetupInv, NEW b \in Binaries, Setup!Authenticate(b)
  PROVE  SetupInv'
<1>1. /\ SetupTyped /\ Staged /\ Renamed /\ Vouched /\ Retiring /\ Serves /\ script \in Scripts
      /\ script.at = "retire" /\ script.owned = "nothing" /\ b \in script.todo
      /\ UNCHANGED <<placed, manifests, sigs, serving, orphans, stranded, mishaps>>
  BY DEF SetupInv, SetupTyped, Setup!Authenticate, Setup!Directory
<1>2. /\ script' \in Scripts /\ script'.at = "retire" /\ script'.todo = script.todo \ {b}
      /\ script'.owned = IF Setup!Owned(b) THEN b ELSE "nothing"
      /\ script'.tag = script.tag /\ script'.older = script.older
      /\ script'.touched = script.touched
  BY <1>1 DEF Setup!Authenticate, Scripts
<1>3. script.tag \in Releases /\ b \notin Publishes[script.tag]
  BY <1>1 DEF Staged
<1>4. Staged'
  BY <1>1, <1>2 DEF Staged
<1>5. Renamed'
  BY <1>1, <1>2 DEF Renamed, Placing
<1>6. Vouched'
  BY <1>1, <1>2 DEF Vouched, Setup!Whole
<1>7. Retiring'
  <2>1. ASSUME placed[b] \in script.older, ~Setup!Owned(b) PROVE b \in orphans
    <3>1. placed[b] \in Releases /\ b \in Publishes[placed[b]] /\ placed[b] # script.tag
      BY <1>1, <2>1 DEF Vouched, Retiring, Scripts
    <3>2. ~Setup!Whole(placed[b])
      BY <2>1, <3>1 DEF Setup!Owned
    <3>3. QED BY <1>1, <3>1, <3>2 DEF Vouched
  <2>2. ASSUME NEW c \in Binaries, placed[c] \in Releases \ {script.tag}
        PROVE  \/ c \in orphans
               \/ placed[c] \in script.older /\ c \in script'.todo \cup {script'.owned}
    <3>1. \/ c \in orphans
          \/ placed[c] \in script.older /\ c \in script.todo
      BY <1>1, <2>2, SetupAssumed DEF Retiring
    <3>2. QED BY <1>2, <2>1, <3>1
  <2>3. QED BY <1>1, <1>2, <2>2 DEF Retiring
<1>8. Authentic'
  <2>1. Setup!Owned(b) => placed[b] # "own"
    BY <1>1, SetupAssumed DEF Setup!Owned, Scripts
  <2>2. QED BY <1>1, <1>2, <1>3, <2>1 DEF Authentic
<1>9. Serves'
  BY <1>1, <1>2 DEF Serves, Setup!Whole
<1>10. SetupTyped'
  BY <1>1, <1>2 DEF SetupTyped
<1>11. QED BY <1>4, <1>5, <1>6, <1>7, <1>8, <1>9, <1>10 DEF SetupInv

LEMMA PluginRetired ==
  ASSUME SetupInv, Setup!Retire
  PROVE  SetupInv'
<1>1. /\ SetupTyped /\ Staged /\ Renamed /\ Vouched /\ Retiring /\ Serves /\ script \in Scripts
      /\ script.at = "retire" /\ script.owned \in Binaries /\ script.tag \in Releases
      /\ script.owned \notin Publishes[script.tag]
      /\ UNCHANGED <<manifests, sigs, serving, orphans, stranded, mishaps>>
  BY DEF SetupInv, SetupTyped, Staged, Authentic, Setup!Retire, Scripts
<1>2. /\ script' \in Scripts /\ script'.at = "retire" /\ script'.todo = script.todo
      /\ script'.owned = "nothing"
      /\ script'.tag = script.tag /\ script'.older = script.older
      /\ script'.touched = script.touched
  BY <1>1 DEF Setup!Retire, Scripts
<1>3. /\ placed' \in [Binaries -> Setup!Bytes]
      /\ \A b \in Binaries : placed'[b] = IF b = script.owned THEN "absent" ELSE placed[b]
  BY <1>1 DEF Setup!Retire, SetupTyped, Setup!Bytes
<1>4. Staged'
  BY <1>1, <1>2 DEF Staged
<1>5. Renamed'
  BY <1>1, <1>2, <1>3, SetupAssumed DEF Renamed, Placing
<1>6. Vouched'
  BY <1>1, <1>2, <1>3, SetupAssumed DEF Vouched, Setup!Whole
<1>7. Retiring'
  BY <1>1, <1>2, <1>3, SetupAssumed DEF Retiring
<1>8. Authentic'
  BY <1>2 DEF Authentic
<1>9. Serves'
  BY <1>1, <1>2, <1>3, SetupAssumed DEF Serves, Setup!Whole
<1>10. SetupTyped'
  BY <1>1, <1>2, <1>3 DEF SetupTyped
<1>11. QED BY <1>4, <1>5, <1>6, <1>7, <1>8, <1>9, <1>10 DEF SetupInv

LEMMA EvidenceRemoved ==
  ASSUME SetupInv,
         \/ Setup!AllRetired \/ Setup!Finish
         \/ \E r \in Releases : Setup!RemoveManifest(r) \/ Setup!RemoveSignature(r)
  PROVE  SetupInv'
<1>1. /\ SetupTyped /\ Staged /\ Renamed /\ Vouched /\ Retiring /\ Authentic /\ Serves
      /\ script \in Scripts
  BY DEF SetupInv, SetupTyped
<1>2. CASE Setup!AllRetired
  <2>1. /\ script.at = "retire" /\ script.owned = "nothing" /\ script.todo = {}
        /\ UNCHANGED <<placed, manifests, sigs, serving, orphans, stranded, mishaps>>
    BY <1>2 DEF Setup!AllRetired, Setup!Directory
  <2>2. /\ script' \in Scripts /\ script'.at = "evidence" /\ script'.owned = "nothing"
        /\ script'.tag = script.tag /\ script'.older = script.older
        /\ script'.touched = script.touched
    BY <1>1, <1>2, <2>1 DEF Setup!AllRetired, Setup!Goto, Scripts
  <2>3. Retiring'
    BY <1>1, <2>1, <2>2, SetupAssumed DEF Retiring
  <2>4. Staged' /\ Renamed' /\ Authentic'
    BY <1>1, <2>1, <2>2 DEF Staged, Renamed, Placing, Authentic
  <2>5. Vouched' /\ Serves'
    BY <1>1, <2>1, <2>2 DEF Vouched, Serves, Setup!Whole
  <2>6. SetupTyped'
    BY <1>1, <2>1, <2>2 DEF SetupTyped
  <2>7. QED BY <2>3, <2>4, <2>5, <2>6 DEF SetupInv
<1>3. CASE Setup!Finish
  <2>1. /\ script.at = "evidence" /\ script.older = {} /\ script.owned = "nothing"
        /\ serving' = IF script.touched = {} THEN script.tag ELSE NoRelease
        /\ UNCHANGED <<placed, manifests, sigs, orphans, stranded, mishaps>>
    BY <1>1, <1>3 DEF Setup!Finish, Setup!Directory, Authentic
  <2>2. /\ script' \in Scripts /\ script'.at = "done" /\ script'.owned = "nothing"
        /\ script'.tag = script.tag /\ script'.older = script.older
        /\ script'.touched = script.touched
    BY <1>1, <1>3, <2>1 DEF Setup!Finish, Setup!Goto, Scripts
  <2>3. Retiring'
    BY <1>1, <2>1, <2>2, SetupAssumed DEF Retiring
  <2>4. Staged' /\ Renamed' /\ Authentic'
    BY <1>1, <2>1, <2>2 DEF Staged, Renamed, Placing, Authentic
  <2>5. Vouched'
    BY <1>1, <2>1, <2>2 DEF Vouched, Setup!Whole
  <2>6. Serves'
    BY <1>1, <2>1, <2>2 DEF Serves, Renamed, Placing, Setup!Whole
  <2>7. SetupTyped'
    BY <1>1, <2>1, <2>2 DEF SetupTyped, Scripts
  <2>8. QED BY <2>3, <2>4, <2>5, <2>6, <2>7 DEF SetupInv
\* What an older manifest vouched for has gone, or is an orphan.
<1>4. ASSUME NEW r \in Releases, Setup!RemoveManifest(r) \/ Setup!RemoveSignature(r)
      PROVE  SetupInv'
  <2>1. /\ script.at = "evidence" /\ r \in script.older /\ script.owned = "nothing"
        /\ UNCHANGED <<placed, serving, orphans, stranded, mishaps>>
        /\ manifests' \subseteq manifests /\ manifests \subseteq manifests' \cup {r}
        /\ sigs' \subseteq sigs /\ sigs \subseteq sigs' \cup {r}
    BY <1>1, <1>4 DEF Setup!RemoveManifest, Setup!RemoveSignature, Authentic
  <2>2. r # script.tag /\ script.tag \in Releases
    BY <1>1, <2>1 DEF Retiring, Staged
  <2>3. /\ script' \in Scripts /\ script'.at = "evidence" /\ script'.owned = "nothing"
        /\ script'.tag = script.tag /\ script'.touched = script.touched
        /\ script'.older \subseteq script.older
        /\ manifests' \subseteq script'.older \cup {script.tag}
    <3>1. CASE Setup!RemoveManifest(r)
      BY <1>1, <2>1, <3>1 DEF Setup!RemoveManifest, Retiring
    <3>2. CASE Setup!RemoveSignature(r)
      <4>1. script' = [script EXCEPT !.older = script.older \ {r}] /\ manifests' = manifests
              /\ r \notin manifests
        BY <3>2 DEF Setup!RemoveSignature
      <4>2. QED BY <1>1, <2>1, <4>1 DEF Retiring, Scripts
    <3>3. QED BY <1>4, <3>1, <3>2
  <2>4. ASSUME NEW b \in Binaries, placed[b] = r PROVE b \in orphans
    BY <1>1, <2>1, <2>2, <2>4 DEF Retiring
  <2>5. Vouched'
    BY <1>1, <2>1, <2>3, <2>4 DEF Vouched, Setup!Whole
  <2>6. Retiring'
    BY <1>1, <2>1, <2>3 DEF Retiring
  <2>7. Staged' /\ Renamed' /\ Authentic'
    BY <1>1, <2>1, <2>2, <2>3 DEF Staged, Renamed, Placing, Authentic
  <2>8. Serves'
    BY <1>1, <2>1, <2>2, <2>3 DEF Serves, Setup!Whole
  <2>9. SetupTyped'
    BY <1>1, <2>1, <2>3 DEF SetupTyped
  <2>10. QED BY <2>5, <2>6, <2>7, <2>8, <2>9 DEF SetupInv
<1>5. QED BY <1>2, <1>3, <1>4

LEMMA Uninstalling ==
  ASSUME SetupInv, Setup!StartUninstall \/ Setup!Unlink \/ Setup!Uninstalled
  PROVE  SetupInv'
<1>1. SetupTyped /\ Vouched /\ Serves /\ script \in Scripts /\ Authentic
  BY DEF SetupInv, SetupTyped
<1>2. /\ script' \in Scripts /\ script'.at \in {"idle", "uninstall"} /\ script'.owned = "nothing"
      /\ serving' = NoRelease /\ UNCHANGED <<orphans, mishaps>>
  <2>1. CASE Setup!StartUninstall
    BY <2>1 DEF Setup!StartUninstall, Setup!Idle, Scripts, Setup!Assets
  <2>2. CASE Setup!Unlink
    BY <1>1, <2>2 DEF Setup!Unlink, Serves, Authentic
  <2>3. CASE Setup!Uninstalled
    BY <1>1, <2>3 DEF Setup!Uninstalled, Setup!Idle, Scripts, Setup!Assets, Serves
  <2>4. QED BY <2>1, <2>2, <2>3
<1>3. /\ placed' \in [Binaries -> Setup!Bytes]
      /\ \A b \in Binaries : placed'[b] = placed[b] \/ placed'[b] = "absent"
      /\ manifests' \subseteq manifests /\ sigs' \subseteq sigs
      /\ \/ manifests' = manifests /\ sigs' = sigs
         \/ \A b \in Binaries : placed'[b] = "absent"
  <2>1. CASE Setup!StartUninstall \/ Setup!Uninstalled
    BY <1>1, <2>1 DEF Setup!StartUninstall, Setup!Uninstalled, Setup!Directory, SetupTyped
  <2>2. CASE Setup!Unlink
    BY <1>1, <2>2 DEF Setup!Unlink, Setup!Left, SetupTyped, Setup!Bytes
  <2>3. QED BY <2>1, <2>2
<1>4. script.at = "rename" => ~Setup!Unlink /\ ~Setup!Uninstalled /\ ~Setup!StartUninstall
  BY DEF Setup!Unlink, Setup!Uninstalled, Setup!StartUninstall, Setup!Busy
<1>5. Vouched'
  BY <1>1, <1>2, <1>3, <1>4, SetupAssumed DEF Vouched, Setup!Whole
<1>6. SetupTyped'
  BY <1>1, <1>2, <1>3 DEF SetupTyped
<1>7. Staged' /\ Renamed' /\ Retiring' /\ Authentic' /\ Serves'
  BY <1>2 DEF Staged, Renamed, Placing, Retiring, Authentic, Serves
<1>8. QED BY <1>5, <1>6, <1>7 DEF SetupInv

LEMMA RunCutShort ==
  ASSUME SetupInv, Setup!Fails \/ Setup!Kill
  PROVE  SetupInv'
<1>1. SetupTyped /\ Vouched /\ Serves /\ script \in Scripts
  BY DEF SetupInv, SetupTyped
<1>2. PICK l \in {"idle", "failed"} : Setup!CutShort(l)
  BY DEF Setup!Fails, Setup!Kill
<1>3. /\ script' \in Scripts /\ script'.at = l /\ script'.owned = "nothing"
      /\ UNCHANGED <<placed, manifests, sigs, serving>> /\ mishaps' \in 0 .. MaxMishaps
  BY <1>1, <1>2, SetupAssumed
  DEF Setup!CutShort, Setup!Idle, Scripts, Setup!Assets, Setup!Directory, Setup!Mishap, SetupTyped
<1>4. orphans' = IF Setup!Whole(script.tag) THEN orphans
                 ELSE orphans \cup {b \in Binaries : placed[b] = script.tag}
  BY <1>2 DEF Setup!CutShort
<1>5. Vouched'
  BY <1>1, <1>3, <1>4 DEF Vouched, Setup!Whole
<1>6. SetupTyped'
  BY <1>1, <1>3, <1>4 DEF SetupTyped
<1>7. Staged' /\ Renamed' /\ Retiring' /\ Authentic'
  BY <1>3 DEF Staged, Renamed, Placing, Retiring, Authentic
<1>8. Serves'
  BY <1>1, <1>3 DEF Serves, Setup!Whole
<1>9. QED BY <1>5, <1>6, <1>7, <1>8 DEF SetupInv

LEMMA FileReplaced ==
  ASSUME SetupInv, NEW b \in Binaries, Setup!Replace(b)
  PROVE  SetupInv'
<1>1. /\ SetupTyped /\ Staged /\ Renamed /\ Vouched /\ Retiring /\ Authentic /\ script \in Scripts
  BY DEF SetupInv, SetupTyped
<1>2. /\ script' \in Scripts /\ script'.at = script.at /\ script'.todo = script.todo
      /\ script'.owned = script.owned /\ script'.payload = script.payload
      /\ script'.tag = script.tag /\ script'.older = script.older
      /\ script'.touched = script.touched \cup {b}
  BY <1>1 DEF Setup!Replace, Scripts
<1>3. /\ placed' \in [Binaries -> Setup!Bytes]
      /\ \A c \in Binaries : placed'[c] = IF c = b THEN "own" ELSE placed[c]
      /\ UNCHANGED <<manifests, sigs>> /\ serving' = NoRelease /\ orphans' = orphans \ {b}
      /\ mishaps' \in 0 .. MaxMishaps
  BY <1>1, SetupAssumed DEF Setup!Replace, SetupTyped, Setup!Bytes, Setup!Mishap
<1>4. Staged'
  BY <1>1, <1>2 DEF Staged
<1>5. Renamed'
  <2>1. Placing => Publishes[script.tag] \subseteq Binaries
    BY <1>1, SetupAssumed DEF Placing, Staged
  <2>2. QED BY <1>1, <1>2, <1>3, <2>1 DEF Renamed, Placing
<1>6. Vouched'
  BY <1>1, <1>2, <1>3, SetupAssumed DEF Vouched, Setup!Whole
<1>7. Retiring'
  BY <1>1, <1>2, <1>3, SetupAssumed DEF Retiring
<1>8. Authentic'
  BY <1>1, <1>2, <1>3 DEF Authentic, Scripts
<1>9. Serves'
  BY <1>3 DEF Serves
<1>10. SetupTyped'
  BY <1>1, <1>2, <1>3 DEF SetupTyped
<1>11. QED BY <1>4, <1>5, <1>6, <1>7, <1>8, <1>9, <1>10 DEF SetupInv

LEMMA SetupKeeps == SetupInv /\ [Next]_vars => SetupInv'
<1> SUFFICES ASSUME SetupInv, [Next]_vars PROVE SetupInv'
  OBVIOUS
<1>1. CASE Setup!Next
  BY <1>1, ScriptBegins, FileRenamed, OwnershipChecked, PluginRetired, EvidenceRemoved,
     Uninstalling, RunCutShort, FileReplaced
  DEF Setup!Next
<1>2. CASE UNCHANGED setupVars
  BY <1>2 DEF setupVars, SetupInv, SetupTyped, Staged, Renamed, Placing, Vouched, Retiring,
              Authentic, Serves, Setup!Whole
<1>3. QED BY <1>1, <1>2, SetupSteps

\* A run that is cut short names what it strands; a manifest is placed before
\* its signature and ends whatever its release had stranded.
LEMMA PairedKeeps == SetupInv /\ Paired /\ [Next]_vars => Paired'
<1> SUFFICES ASSUME SetupInv, Paired, [Next]_vars PROVE Paired'
  OBVIOUS
<1>1. /\ SetupTyped /\ Staged /\ Renamed /\ Retiring
      /\ manifests \subseteq Releases /\ sigs \subseteq Releases
  BY DEF SetupInv, SetupTyped
<1>2. ASSUME NEW r \in Releases,
             Setup!StartInstall(r) \/ Setup!RemoveManifest(r) \/ Setup!RemoveSignature(r)
      PROVE  Paired'
  <2>1. CASE Setup!StartInstall(r)
    <3>1. script.at \notin {"evidence", "uninstall"} /\ script'.at = "stage"
      BY <2>1 DEF Setup!StartInstall, Setup!Busy, Setup!Idle
    <3>2. QED BY <2>1, <3>1 DEF Setup!StartInstall, Setup!Directory, Paired
  <2>2. CASE Setup!RemoveManifest(r)
    BY <2>2 DEF Setup!RemoveManifest, Paired
  <2>3. CASE Setup!RemoveSignature(r)
    <3>1. script' = [script EXCEPT !.older = script.older \ {r}]
      BY <2>3 DEF Setup!RemoveSignature
    <3>2. script'.at = "evidence" /\ script'.older = script.older \ {r}
      BY <1>1, <2>3, <3>1 DEF Setup!RemoveSignature, SetupTyped, Scripts
    <3>3. QED BY <2>3, <3>2 DEF Setup!RemoveSignature, Paired
  <2>4. QED BY <1>2, <2>1, <2>2, <2>3
<1>3. CASE \/ Setup!Stage \/ Setup!VerifyChecksums \/ Setup!VerifyProvenance
           \/ (\E a \in Setup!Assets : Setup!Copy(a))
           \/ (\E b \in Binaries : Setup!Authenticate(b))
           \/ Setup!Retire \/ Setup!AllRetired \/ Setup!Finish
  <2>1. /\ UNCHANGED <<manifests, sigs, stranded>>
        /\ script.at \notin {"evidence", "uninstall"} \/ Setup!Finish
    BY <1>3 DEF Setup!Stage, Setup!VerifyChecksums, Setup!VerifyProvenance, Setup!Copy,
                Setup!Authenticate, Setup!Retire, Setup!AllRetired, Setup!Finish,
                Setup!Directory
  <2>2. script'.at # "uninstall"
    BY <1>1, <1>3 DEF SetupTyped, Scripts, Setup!Goto,
                Setup!Stage, Setup!VerifyChecksums, Setup!VerifyProvenance, Setup!Copy,
                Setup!Authenticate, Setup!Retire, Setup!AllRetired, Setup!Finish
  <2>3. Setup!Finish => script.older = {}
    BY DEF Setup!Finish
  <2>4. QED BY <2>1, <2>2, <2>3 DEF Paired, Setup!Finish
<1>4. ASSUME NEW a \in Setup!Assets, Setup!Rename(a) PROVE Paired'
  <2>1. /\ manifests' = IF a = "manifest" THEN manifests \cup {script.tag} ELSE manifests
        /\ sigs' = IF a = "signature" THEN sigs \cup {script.tag} ELSE sigs
        /\ script.at = "rename" /\ script.tag \in Releases
    BY <1>4, PutShape
  <2>2. stranded' = stranded \ manifests'
    BY <1>4 DEF Setup!Rename, Setup!Put
  <2>3. a = "signature" => script.tag \in manifests
    <3>1. a = "signature" => "manifest" \notin script.todo
      BY <1>4 DEF Setup!Rename, Setup!Turn
    <3>2. QED BY <1>1, <2>1, <3>1 DEF Renamed, Placing
  <2>4. script'.at \in {"rename", "retire"}
    BY <1>1, <1>4, <2>1 DEF Setup!Rename, SetupTyped, Scripts
  <2>5. QED BY <1>1, <2>1, <2>2, <2>3, <2>4 DEF Paired
<1>5. CASE Setup!StartUninstall \/ Setup!Unlink
  <2>1. script'.at = "uninstall" /\ manifests' \subseteq manifests
        /\ stranded' \subseteq stranded
    BY <1>5 DEF Setup!StartUninstall, Setup!Unlink, Setup!Directory, Setup!Idle
  <2>2. stranded' \cap manifests' = {}
    BY <2>1 DEF Paired
  <2>3. QED BY <2>1, <2>2 DEF Paired
<1>6. CASE Setup!Uninstalled
  BY <1>6 DEF Setup!Uninstalled, Setup!Directory, Setup!Idle, Paired
<1>7. CASE Setup!Fails \/ Setup!Kill
  <2>1. PICK l \in {"idle", "failed"} : Setup!CutShort(l)
    BY <1>7 DEF Setup!Fails, Setup!Kill
  <2>2. /\ stranded' = sigs \ manifests /\ manifests' = manifests /\ sigs' = sigs
        /\ script'.at = l
    BY <2>1 DEF Setup!CutShort, Setup!Directory, Setup!Idle
  <2>3. QED BY <1>1, <2>2 DEF Paired
<1>8. ASSUME NEW b \in Binaries, Setup!Replace(b) PROVE Paired'
  <2>1. UNCHANGED <<manifests, sigs, stranded>>
        /\ script'.at = script.at /\ script'.older = script.older
    BY <1>1, <1>8 DEF Setup!Replace, SetupTyped, Scripts
  <2>2. QED BY <2>1 DEF Paired
<1>9. CASE UNCHANGED setupVars
  BY <1>9 DEF setupVars, Paired
<1>10. QED
  BY <1>2, <1>3, <1>4, <1>5, <1>6, <1>7, <1>8, <1>9, SetupSteps DEF Setup!Next

LEMMA SetupStands == Spec => []SetupInv
BY SetupStarts, SetupKeeps, PTL DEF Spec

LEMMA PairedStands == Spec => []Paired
<1>1. Init => Paired
  <2>1. Init => Setup!Init
    BY DEF Init
  <2>2. QED BY <2>1 DEF Setup!Init, Setup!Idle, Paired
<1>2. QED BY <1>1, SetupStands, PairedKeeps, PTL DEF Spec

\* A complete fleet stays launchable through every run that fails before it
\* places anything, and every run of its own release (scripts/install.sh).
THEOREM FleetStays == Spec => []StaysLaunchable
<1>1. SetupInv => StaysLaunchable
  BY DEF SetupInv, Serves, StaysLaunchable, Setup!StaysLaunchable
<1>2. QED BY <1>1, SetupStands, PTL

\* A finished run leaves exactly its own release's fleet and evidence, whatever
\* was cut short before it (scripts/install.sh), but for the signatures and the
\* orphaned plugins that a run cut short has left where nothing looks for them,
\* and what the operator has put there meanwhile.
THEOREM InstallEnds == Spec => []InstallConverges
<1>1. ASSUME SetupInv, Paired, script.at = "done"
      PROVE  /\ manifests = {script.tag} /\ sigs \ stranded = {script.tag}
             /\ \A b \in Binaries \ script.touched :
                   IF b \in Publishes[script.tag] THEN placed[b] = script.tag
                   ELSE placed[b] \in {"absent", "own"} \/ b \in orphans
  <2>1. manifests = {script.tag} /\ script.tag \in sigs
    BY <1>1 DEF SetupInv, Renamed, Placing, Retiring
  <2>2. sigs \ stranded = {script.tag}
    BY <1>1, <2>1 DEF Paired
  <2>3. ASSUME NEW b \in Binaries \ script.touched, b \in Publishes[script.tag]
        PROVE  placed[b] = script.tag
    BY <1>1, <2>3 DEF SetupInv, Renamed, Placing
  <2>4. ASSUME NEW b \in Binaries, b \notin Publishes[script.tag]
        PROVE  placed[b] \in {"absent", "own"} \/ b \in orphans
    BY <1>1, <2>4 DEF SetupInv, SetupTyped, Setup!Bytes, Vouched, Retiring
  <2>5. QED BY <2>1, <2>2, <2>3, <2>4
<1>2. SetupInv /\ Paired => InstallConverges
  BY <1>1 DEF InstallConverges, Setup!InstallConverges
<1>3. QED BY <1>2, SetupStands, PairedStands, PTL

\* A file of the operator's own goes only for a release that publishes its name,
\* or with `make uninstall` (scripts/install.sh's retire pass).
THEOREM OwnFilesKept == Spec => OwnFilesStay
<1> DEFINE Spared == \A b \in Binaries : placed[b] = "own" /\ placed'[b] # "own" =>
                        \/ script.at = "uninstall"
                        \/ script.tag # NoRelease /\ b \in Publishes[script.tag]
                        \/ b \in script.touched
<1>1. SetupInv /\ [Next]_vars => [Spared]_setupVars
  <2> SUFFICES ASSUME SetupInv, Setup!Next, NEW b \in Binaries, placed[b] = "own", placed'[b] # "own"
               PROVE  \/ script.at = "uninstall"
                      \/ script.tag # NoRelease /\ b \in Publishes[script.tag]
                      \/ b \in script.touched
    BY SetupSteps
  <2>1. ASSUME NEW a \in Setup!Assets, Setup!Rename(a)
        PROVE  script.tag # NoRelease /\ b \in Publishes[script.tag]
    <3>1. a = b /\ script.tag \in Releases /\ script.at = "rename" /\ a \in script.todo
      BY <2>1, PutShape DEF SetupInv, SetupTyped
    <3>2. QED BY <3>1, SetupAssumed DEF SetupInv, Staged, Pair
  <2>2. CASE Setup!Retire
    <3>1. b = script.owned /\ script.owned # "nothing"
      BY <2>2 DEF Setup!Retire, SetupInv, SetupTyped
    <3>2. QED BY <3>1 DEF SetupInv, Authentic
  <2>3. CASE Setup!Unlink
    BY <2>3 DEF Setup!Unlink
  <2>4. ASSUME NEW c \in Binaries, Setup!Replace(c) PROVE FALSE
    BY <2>4 DEF Setup!Replace, SetupInv, SetupTyped
  <2>5. QED
    BY <2>1, <2>2, <2>3, <2>4
    DEF Setup!Next, Setup!StartInstall, Setup!RemoveManifest, Setup!RemoveSignature, Setup!Stage,
        Setup!VerifyChecksums, Setup!VerifyProvenance, Setup!Copy, Setup!Authenticate,
        Setup!AllRetired, Setup!Finish, Setup!StartUninstall, Setup!Uninstalled, Setup!Fails,
        Setup!Kill, Setup!CutShort, Setup!Directory
<1>2. [Spared]_setupVars => [Spared]_Setup!vars
  BY DEF setupVars, Setup!vars
<1>3. QED BY <1>1, <1>2, SetupStands, PTL DEF Spec, OwnFilesStay, Setup!OwnFilesStay

-----------------------------------------------------------------------------
\* Google Drive, around the sync

LEMMA ContentSteps == [Next]_vars => [chosen = "drive" /\ Content!Next]_contentVars
<1>1. DriveRequests => chosen = "drive" /\ Content!Next
  BY DEF DriveRequests
<1>2. WhatsApp \/ Proton \/ Silverbullet \/ Paperless \/ Filesystem \/ SignalDesktop \/ Chats
        \/ Install => UNCHANGED contentVars
  BY DEF WhatsApp, Proton, Silverbullet, Paperless, Filesystem, SignalDesktop, Chats, Install
<1>3. QED BY <1>1, <1>2 DEF Next, vars

\* Each call keeps to its own way after the sync.
Routed ==
    /\ rpc.at = "previews" => rpc.kind = "match"
    /\ rpc.at = "pages" => rpc.kind = "search"
    /\ rpc.at \in {"content", "withheld", "notfound"} => rpc.kind = "fetch"

\* Of the files nothing has happened to, Match holds the folder's from the
\* start, and Search those the pages read so far have named.
Gathered ==
    rpc.at \in {"previews", "pages"} =>
       \A f \in DriveItems \ rpc.stirred :
          /\ f \in rpc.tree <=> f \in within
          /\ f \in rpc.hits <=> /\ f \in within
                                /\ rpc.kind = "search" => f \in found \ rpc.left

\* Where the file asked for has been since the call began.
Whereabouts ==
    /\ Content!Calling => (rpc.file \in within => rpc.inside) /\ (rpc.file \notin within => rpc.outside)
    /\ rpc.at = "content" => rpc.inside
    /\ Content!TellsTruly

\* The answer remembered over a pause is Drive's last; none is pending later.
Remembered ==
    /\ rpc.at = "pause" => rpc.heard \in Content!Retryable /\ rpc.last = rpc.heard
    /\ rpc.at \in {"token", "previews", "pages", "content"} => rpc.heard = "none" /\ rpc.last = "none"

ContentInv == Content!ContentTypeOK /\ Routed /\ Gathered /\ Whereabouts /\ Remembered

LEMMA ContentAssumed == Content!ContentAssumption
BY SourcesAssumption

LEMMA UncalledShape ==
  /\ Content!Uncalled \in Content!Calls
  /\ Content!Uncalled.at = "idle" /\ Content!Uncalled.stirred = {}
  /\ Content!Uncalled.heard = "none" /\ Content!Uncalled.last = "none"
  /\ Content!Uncalled.kind = "match"
<1>1. (CHOOSE f \in DriveItems : TRUE) \in DriveItems
  BY ContentAssumed DEF Content!ContentAssumption
<1>2. QED BY <1>1 DEF Content!Uncalled, Content!Calls, Content!Causes

LEMMA ContentStarts == Init => ContentInv
<1> SUFFICES ASSUME Init PROVE ContentInv
  OBVIOUS
<1>1. Content!Init
  BY DEF Init
<1>2. Content!ContentTypeOK
  BY <1>1, UncalledShape, ContentAssumed
  DEF Content!Init, Content!ContentTypeOK, Content!ContentAssumption
<1>3. QED
  BY <1>1, <1>2, UncalledShape
  DEF ContentInv, Content!Init, Routed, Gathered, Whereabouts, Remembered, Content!Calling,
      Content!TellsTruly

\* A call that ends, in any way but an answer of Fetch's, or goes on with
\* what it has: what it must still keep to.
LEMMA CallGoes ==
  ASSUME ContentInv, UNCHANGED Content!Outside, rpc' \in Content!Calls,
         rpc'.kind = rpc.kind, rpc'.file = rpc.file, rpc'.inside = rpc.inside,
         rpc'.outside = rpc.outside, Content!Calling, Routed', Gathered', Remembered',
         rpc'.at \in {"content", "withheld"} => rpc.inside,
         rpc'.at = "given" /\ rpc.kind = "fetch" => rpc.inside,
         rpc'.at = "notfound" => rpc.outside,
         rpc'.at = "withheld" => KindOf[rpc.file] \in {"large", "outgrown", "declined"},
         rpc'.at = "failed" /\ rpc'.heard # "none" /\ rpc'.last # "context" /\ rpc.kind # "fetch"
            => rpc'.told = Content!Cause(rpc'.heard)
  PROVE  ContentInv'
<1>1. UNCHANGED <<within, found, driveMoves>>
  BY DEF Content!Outside
<1>2. Content!ContentTypeOK'
  BY <1>1 DEF ContentInv, Content!ContentTypeOK
<1>3. Content!TellsTruly'
  BY <1>1 DEF Content!TellsTruly, Content!Cause
<1>4. (rpc.file \in within => rpc.inside) /\ (rpc.file \notin within => rpc.outside)
  BY DEF ContentInv, Whereabouts
<1>5. Whereabouts'
  BY <1>1, <1>3, <1>4 DEF Whereabouts
<1>6. QED BY <1>2, <1>5 DEF ContentInv

LEMMA CallBegun ==
  ASSUME ContentInv, NEW kind \in {"match", "search", "fetch", "health"}, NEW f \in DriveItems,
         Content!StartCall(kind, f)
  PROVE  ContentInv'
<1>1. UNCHANGED <<within, found, driveMoves>>
  BY DEF Content!StartCall, Content!Outside
<1>2. /\ rpc'.kind = kind /\ rpc'.at = "token" /\ rpc'.file = f /\ rpc'.stirred = {}
      /\ rpc'.inside = (f \in within) /\ rpc'.outside = (f \notin within)
      /\ rpc'.heard = "none" /\ rpc'.last = "none" /\ rpc' \in Content!Calls
  <2>1. (f \in within) \in BOOLEAN /\ (f \notin within) \in BOOLEAN
    OBVIOUS
  <2>2. rpc' = [Content!Uncalled EXCEPT !.kind = kind, !.at = "token", !.file = f,
                                        !.inside = f \in within, !.outside = f \notin within]
    BY DEF Content!StartCall
  <2>3. rpc'.inside = (f \in within) /\ rpc'.outside = (f \notin within)
    BY <2>2, UncalledShape DEF Content!Calls
  <2>4. QED BY <2>1, <2>2, <2>3, UncalledShape DEF Content!Calls
<1>3. Content!ContentTypeOK'
  BY <1>1, <1>2 DEF ContentInv, Content!ContentTypeOK
<1>4. QED
  BY <1>1, <1>2, <1>3
  DEF ContentInv, Routed, Gathered, Whereabouts, Remembered, Content!Calling, Content!TellsTruly

LEMMA RequestSteps ==
  ASSUME ContentInv,
         \/ Content!CheckToken \/ Content!Probe \/ Content!Retry \/ Content!NextRequest
         \/ Content!Deadline
         \/ \E s \in Content!Statuses : Content!Refuse(s) \/ Content!PagesFail(s)
  PROVE  ContentInv'
<1>1. UNCHANGED Content!Outside /\ Content!Calling
  BY DEF Content!CheckToken, Content!Probe, Content!Retry, Content!NextRequest,
     Content!Deadline, Content!Refuse, Content!PagesFail, Content!Calling
<1>2. rpc \in Content!Calls /\ Remembered /\ Routed
  BY DEF ContentInv, Content!ContentTypeOK
<1>3. ASSUME NEW s PROVE Content!Cause(s) \in Content!Causes
  BY DEF Content!Cause, Content!Causes
<1>4. ASSUME NEW s PROVE Content!Told(s) \in Content!Causes
  BY <1>3 DEF Content!Told, Content!Causes
<1>5. ASSUME rpc' \in Content!Calls, rpc'.kind = rpc.kind, rpc'.file = rpc.file,
             rpc'.inside = rpc.inside, rpc'.outside = rpc.outside,
             rpc'.at \in {"request", "pause", "given", "failed"},
             rpc'.at = "pause" => rpc'.heard \in Content!Retryable /\ rpc'.last = rpc'.heard,
             rpc'.at = "given" => rpc.kind = "health",
             rpc'.at = "failed" /\ rpc'.heard # "none" /\ rpc'.last # "context" /\ rpc.kind # "fetch"
                => rpc'.told = Content!Cause(rpc'.heard)
      PROVE  ContentInv'
  <2>1. Routed' /\ Gathered' /\ Remembered'
    BY <1>5 DEF Routed, Gathered, Remembered
  <2>2. QED BY <1>1, <1>5, <2>1, CallGoes
<1>6. CASE Content!CheckToken
  <2>1. rpc.heard = "none" /\ "token" \in Content!Causes
    BY <1>2, <1>6 DEF Content!CheckToken, Remembered, Content!Causes
  <2>2. CASE rpc' = [rpc EXCEPT !.at = "request"]
    BY <1>2, <1>5, <2>2 DEF Content!Calls
  <2>3. CASE rpc' = [rpc EXCEPT !.at = "failed", !.told = "token"]
    BY <1>2, <1>5, <2>1, <2>3 DEF Content!Calls
  <2>4. QED BY <1>6, <2>2, <2>3 DEF Content!CheckToken
<1>7. CASE Content!Probe
  <2>1. rpc.kind = "health"
    BY <1>7 DEF Content!Probe
  <2>2. CASE rpc' = [rpc EXCEPT !.at = "given"]
    BY <1>2, <1>5, <2>1, <2>2 DEF Content!Calls
  <2>3. ASSUME NEW s \in Content!Statuses,
               rpc' = [rpc EXCEPT !.at = "failed", !.told = Content!Cause(s), !.heard = s, !.last = s]
        PROVE  ContentInv'
    BY <1>2, <1>3, <1>5, <2>3 DEF Content!Calls
  <2>4. QED BY <1>7, <2>2, <2>3 DEF Content!Probe
<1>8. CASE Content!Retry
  <2>1. rpc' = [rpc EXCEPT !.at = "request"]
    BY <1>8 DEF Content!Retry
  <2>2. QED BY <1>2, <1>5, <2>1 DEF Content!Calls
<1>9. CASE Content!NextRequest
  <2>1. rpc.at = "request" /\ rpc' = [rpc EXCEPT !.heard = "none", !.last = "none"]
    BY <1>9 DEF Content!NextRequest
  <2>2. QED BY <1>2, <1>5, <2>1 DEF Content!Calls
<1>10. CASE Content!Deadline
  <2> DEFINE l == IF rpc.at = "request" THEN "context" ELSE rpc.last
  <2>1. rpc' = [rpc EXCEPT !.at = "failed", !.last = l, !.told = Content!Told(l)]
    BY <1>10 DEF Content!Deadline
  <2>2. l \in {"none", "context"} \cup Content!Statuses /\ (l # "context" => l = rpc.heard)
    BY <1>2, <1>10 DEF Content!Deadline, Content!Calls, Remembered
  <2>3. rpc.kind # "fetch" => Content!Told(l) = Content!Cause(l)
    BY DEF Content!Told
  <2> HIDE DEF l
  <2>4. QED BY <1>2, <1>4, <1>5, <2>1, <2>2, <2>3 DEF Content!Calls
<1>11. ASSUME NEW s \in Content!Statuses, Content!Refuse(s) PROVE ContentInv'
  <2>1. CASE s \in Content!Retryable
    <3>1. rpc' = [rpc EXCEPT !.heard = s, !.last = s, !.at = "pause", !.told = @]
      BY <1>11, <2>1 DEF Content!Refuse
    <3>2. QED BY <1>2, <1>5, <2>1, <3>1 DEF Content!Calls
  <2>2. CASE s \notin Content!Retryable
    <3>1. rpc' = [rpc EXCEPT !.heard = s, !.last = s, !.at = "failed", !.told = Content!Told(s)]
      BY <1>11, <2>2 DEF Content!Refuse
    <3>2. rpc.kind # "fetch" => Content!Told(s) = Content!Cause(s)
      BY DEF Content!Told
    <3>3. QED BY <1>2, <1>4, <1>5, <3>1, <3>2 DEF Content!Calls
  <2>3. QED BY <2>1, <2>2
<1>12. ASSUME NEW s \in Content!Statuses, Content!PagesFail(s) PROVE ContentInv'
  <2>1. rpc' = [rpc EXCEPT !.at = "failed", !.told = Content!Cause(s), !.heard = s]
    BY <1>12 DEF Content!PagesFail
  <2>2. QED BY <1>2, <1>3, <1>5, <2>1 DEF Content!Calls
<1>13. QED BY <1>6, <1>7, <1>8, <1>9, <1>10, <1>11, <1>12

LEMMA FolderSynced ==
  ASSUME ContentInv, Content!Synced
  PROVE  ContentInv'
<1>1. UNCHANGED Content!Outside /\ Content!Calling /\ rpc \in Content!Calls /\ rpc.kind # "health"
        /\ within \subseteq DriveItems
  BY DEF Content!Synced, Content!Calling, ContentInv, Content!ContentTypeOK
<1>2. UNCHANGED <<within, found>>
  BY <1>1 DEF Content!Outside
<1>3. ASSUME NEW a \in {"given", "previews", "pages", "content", "withheld", "notfound"},
             NEW hits \in SUBSET DriveItems, NEW left \in SUBSET DriveItems,
             rpc' = [rpc EXCEPT !.heard = "none", !.last = "none", !.tree = within,
                                !.hits = hits, !.left = left, !.at = a],
             a = "previews" => rpc.kind = "match" /\ hits = within,
             a = "pages" => rpc.kind = "search" /\ hits = {} /\ left = DriveItems,
             a \in {"content", "withheld", "notfound"} => rpc.kind = "fetch",
             a \in {"content", "withheld"} => rpc.inside,
             a = "given" => rpc.kind # "fetch",
             a = "notfound" => rpc.outside,
             a = "withheld" => KindOf[rpc.file] \in {"large", "outgrown", "declined"}
      PROVE  ContentInv'
  <2>1. /\ rpc' \in Content!Calls /\ rpc'.kind = rpc.kind /\ rpc'.file = rpc.file
        /\ rpc'.inside = rpc.inside /\ rpc'.outside = rpc.outside /\ rpc'.tree = within
        /\ rpc'.at = a /\ rpc'.heard = "none" /\ rpc'.last = "none" /\ rpc'.hits = hits
        /\ rpc'.left = left /\ rpc'.stirred = rpc.stirred
    BY <1>1, <1>3 DEF Content!Calls
  <2>2. Routed' /\ Remembered'
    BY <1>3, <2>1 DEF Routed, Remembered
  <2>3. Gathered'
    BY <1>2, <1>3, <2>1 DEF Gathered
  <2>4. QED BY <1>1, <1>3, <2>1, <2>2, <2>3, CallGoes
<1>4. CASE rpc.kind = "match"
  <2>1. rpc' = [rpc EXCEPT !.heard = "none", !.last = "none", !.tree = within, !.hits = within,
                           !.left = within, !.at = IF within = {} THEN "given" ELSE "previews"]
    BY <1>4 DEF Content!Synced
  <2>2. CASE within = {}
    BY <1>1, <1>3, <1>4, <2>1, <2>2
  <2>3. CASE within # {}
    BY <1>1, <1>3, <1>4, <2>1, <2>3
  <2>4. QED BY <2>2, <2>3
<1>5. CASE rpc.kind = "search"
  <2>1. rpc' = [rpc EXCEPT !.heard = "none", !.last = "none", !.tree = within, !.hits = {},
                           !.left = DriveItems, !.at = IF within = {} THEN "given" ELSE "pages"]
    BY <1>5 DEF Content!Synced
  <2>2. CASE within = {}
    BY <1>1, <1>3, <1>5, <2>1, <2>2
  <2>3. CASE within # {}
    BY <1>1, <1>3, <1>5, <2>1, <2>3
  <2>4. QED BY <2>2, <2>3
<1>6. CASE rpc.kind = "fetch"
  <2>1. rpc' = [rpc EXCEPT !.heard = "none", !.last = "none", !.tree = within, !.hits = {},
                           !.left = {}, !.at = Content!Open(rpc.file)]
    BY <1>6 DEF Content!Synced
  <2>2. /\ Content!Open(rpc.file) \in {"content", "withheld", "notfound"}
        /\ Content!Open(rpc.file) \in {"content", "withheld"} => rpc.inside
        /\ Content!Open(rpc.file) = "notfound" => rpc.outside
        /\ Content!Open(rpc.file) = "withheld" => KindOf[rpc.file] \in {"large", "outgrown", "declined"}
    BY <1>1 DEF Content!Open, ContentInv, Whereabouts
  <2> DEFINE a == Content!Open(rpc.file)
  <2> HIDE DEF a
  <2>3. a \notin {"previews", "pages", "given"} /\ {} \in SUBSET DriveItems
    BY <2>2 DEF a
  <2>4. QED BY <1>3, <1>6, <2>1, <2>2, <2>3 DEF a
<1>7. QED BY <1>1, <1>4, <1>5, <1>6 DEF Content!Calls

\* What a preview or a page adds to what Match or Search holds.
LEMMA HandShape ==
  ASSUME ContentInv, NEW hits \in SUBSET DriveItems, NEW left \in SUBSET DriveItems,
         Content!Hand(hits, left)
  PROVE  /\ rpc' \in Content!Calls /\ rpc'.kind = rpc.kind /\ rpc'.file = rpc.file
         /\ rpc'.inside = rpc.inside /\ rpc'.outside = rpc.outside /\ rpc'.tree = rpc.tree
         /\ rpc'.heard = rpc.heard /\ rpc'.last = rpc.last /\ rpc'.stirred = rpc.stirred
         /\ rpc'.hits = hits /\ rpc'.left = left
         /\ rpc'.at = IF left = {} THEN "given" ELSE rpc.at
BY DEF Content!Hand, Content!Calls, ContentInv, Content!ContentTypeOK

LEMMA PartHanded ==
  ASSUME ContentInv,
         \/ \E f \in DriveItems : Content!Preview(f)
         \/ Content!StopPreviews
         \/ \E part \in SUBSET rpc.left : Content!ReadPage(part)
  PROVE  /\ ContentInv'
         /\ UNCHANGED Content!Outside /\ Content!Calling
         /\ rpc'.kind = rpc.kind /\ rpc.kind \in {"match", "search"}
         /\ rpc'.stirred = rpc.stirred /\ rpc'.at \in {rpc.at, "given"}
         /\ \A f \in DriveItems \ rpc.stirred :
               rpc'.at = "given" =>
                  (f \in rpc'.hits <=> f \in within /\ (rpc.kind = "search" => f \in found))
<1>1. /\ UNCHANGED Content!Outside /\ Content!Calling /\ rpc \in Content!Calls
      /\ rpc.at \in {"previews", "pages"} /\ Routed /\ Gathered /\ Remembered
  BY DEF Content!Preview, Content!StopPreviews, Content!ReadPage, Content!Calling, ContentInv,
         Content!ContentTypeOK
<1>2. UNCHANGED <<within, found>>
  BY <1>1 DEF Content!Outside
<1>3. PICK hits \in SUBSET DriveItems, left \in SUBSET DriveItems :
        /\ Content!Hand(hits, left) /\ left \subseteq rpc.left
        /\ rpc.at = "previews" => hits = rpc.hits
        /\ rpc.at = "pages" => hits = rpc.hits \cup ((rpc.left \ left) \cap rpc.tree \cap found)
  <2>1. rpc.hits \in SUBSET DriveItems /\ rpc.left \in SUBSET DriveItems
    BY <1>1 DEF Content!Calls
  <2>2. ASSUME NEW f \in DriveItems, Content!Preview(f)
        PROVE  /\ Content!Hand(rpc.hits, rpc.left \ {f}) /\ rpc.at = "previews"
               /\ rpc.left \ {f} \in SUBSET DriveItems
    BY <2>1, <2>2 DEF Content!Preview
  <2>3. ASSUME Content!StopPreviews
        PROVE  Content!Hand(rpc.hits, {}) /\ rpc.at = "previews"
    BY <2>3 DEF Content!StopPreviews
  <2>4. ASSUME NEW part \in SUBSET rpc.left, Content!ReadPage(part)
        PROVE  /\ Content!Hand(rpc.hits \cup (part \cap rpc.tree \cap found), rpc.left \ part)
               /\ rpc.at = "pages" /\ rpc.left \ (rpc.left \ part) = part
               /\ rpc.hits \cup (part \cap rpc.tree \cap found) \in SUBSET DriveItems
               /\ rpc.left \ part \in SUBSET DriveItems
    BY <2>1, <2>4 DEF Content!ReadPage
  <2>5. CASE \E f \in DriveItems : Content!Preview(f)
    <3>1. PICK f \in DriveItems : Content!Preview(f)
      BY <2>5
    <3> DEFINE left == rpc.left \ {f}
    <3>2. Content!Hand(rpc.hits, left) /\ rpc.at = "previews" /\ left \subseteq rpc.left
      BY <2>2, <3>1
    <3> HIDE DEF left
    <3>3. QED BY <2>1, <3>2
  <2>6. CASE Content!StopPreviews
    BY <2>1, <2>3, <2>6
  <2>7. CASE \E part \in SUBSET rpc.left : Content!ReadPage(part)
    <3>1. PICK part \in SUBSET rpc.left : Content!ReadPage(part)
      BY <2>7
    <3> DEFINE left == rpc.left \ part
               hits == rpc.hits \cup (part \cap rpc.tree \cap found)
    <3>2. /\ Content!Hand(hits, left) /\ rpc.at = "pages" /\ left \subseteq rpc.left
          /\ hits = rpc.hits \cup ((rpc.left \ left) \cap rpc.tree \cap found)
          /\ hits \in SUBSET DriveItems /\ left \in SUBSET DriveItems
      BY <2>4, <3>1
    <3> HIDE DEF left, hits
    <3>3. QED BY <3>2
  <2>8. QED BY <2>5, <2>6, <2>7
<1>4. /\ rpc' \in Content!Calls /\ rpc'.kind = rpc.kind /\ rpc'.file = rpc.file
      /\ rpc'.inside = rpc.inside /\ rpc'.outside = rpc.outside /\ rpc'.tree = rpc.tree
      /\ rpc'.heard = rpc.heard /\ rpc'.last = rpc.last /\ rpc'.stirred = rpc.stirred
      /\ rpc'.hits = hits /\ rpc'.left = left
      /\ rpc'.at = IF left = {} THEN "given" ELSE rpc.at
  BY <1>3, HandShape
<1>5. \A f \in DriveItems \ rpc.stirred :
         f \in hits <=> f \in within /\ (rpc.kind = "search" => f \in found \ left)
  BY <1>1, <1>3 DEF Gathered, Routed
<1>6. Routed' /\ Remembered' /\ Gathered'
  BY <1>1, <1>2, <1>4, <1>5 DEF Routed, Remembered, Gathered
<1>7. rpc.kind \in {"match", "search"}
  BY <1>1 DEF Routed
<1>8. ContentInv'
  BY <1>1, <1>4, <1>6, <1>7, CallGoes
<1>9. QED BY <1>1, <1>4, <1>5, <1>7, <1>8

LEMMA FileDownloaded ==
  ASSUME ContentInv, Content!Download \/ Content!DownloadFails
  PROVE  ContentInv' /\ rpc.kind = "fetch" /\ rpc'.kind = "fetch"
<1>1. /\ UNCHANGED Content!Outside /\ Content!Calling /\ rpc \in Content!Calls
      /\ rpc.at = "content" /\ rpc.kind = "fetch" /\ rpc.inside
  BY DEF Content!Download, Content!DownloadFails, Content!Calling, ContentInv, Routed,
         Whereabouts, Content!ContentTypeOK
<1>2. /\ rpc' \in Content!Calls /\ rpc'.kind = rpc.kind /\ rpc'.file = rpc.file
      /\ rpc'.inside = rpc.inside /\ rpc'.outside = rpc.outside
      /\ rpc'.at \in {"given", "failed", "withheld"}
      /\ rpc'.at = "withheld" => KindOf[rpc.file] = "outgrown"
  <2>1. CASE Content!Download
    BY <2>1, HandShape DEF Content!Download
  <2>2. CASE rpc' = [rpc EXCEPT !.at = "failed", !.told = "unclassified"]
    BY <1>1, <2>2 DEF Content!Calls, Content!Causes
  <2>3. CASE KindOf[rpc.file] = "outgrown" /\ rpc' = [rpc EXCEPT !.at = "withheld"]
    BY <1>1, <2>3 DEF Content!Calls
  <2>4. QED BY <2>1, <2>2, <2>3 DEF Content!DownloadFails, Content!Fail
<1>3. Routed' /\ Gathered' /\ Remembered'
  BY <1>1, <1>2 DEF Routed, Gathered, Remembered
<1>4. QED BY <1>1, <1>2, <1>3, CallGoes

LEMMA ChangeShape ==
  ASSUME ContentInv, NEW f \in DriveItems, Content!ChangeDrive(f)
  PROVE  /\ rpc' \in Content!Calls /\ rpc'.kind = rpc.kind /\ rpc'.file = rpc.file
         /\ rpc'.at = rpc.at /\ rpc'.tree = rpc.tree /\ rpc'.hits = rpc.hits
         /\ rpc'.left = rpc.left /\ rpc'.heard = rpc.heard /\ rpc'.last = rpc.last
         /\ rpc'.told = rpc.told /\ rpc'.stirred = rpc.stirred \cup {f}
         /\ rpc'.inside = (rpc.inside \/ (Content!Calling /\ rpc.file \in within'))
         /\ rpc'.outside = (rpc.outside \/ (Content!Calling /\ rpc.file \notin within'))
         /\ \A g \in DriveItems \ {f} : /\ g \in within' <=> g \in within
                                        /\ g \in found' <=> g \in found
         /\ within' \subseteq DriveItems /\ found' \subseteq DriveItems
         /\ driveMoves' \in 0 .. MaxDriveMoves
<1>1. rpc \in Content!Calls /\ within \subseteq DriveItems /\ found \subseteq DriveItems
        /\ driveMoves \in 0 .. MaxDriveMoves
  BY DEF ContentInv, Content!ContentTypeOK
<1>2. driveMoves' \in 0 .. MaxDriveMoves
  BY <1>1, ContentAssumed DEF Content!ChangeDrive, Content!ContentAssumption
<1>3. /\ within' \subseteq DriveItems /\ found' \subseteq DriveItems
      /\ \A g \in DriveItems \ {f} : /\ g \in within' <=> g \in within
                                     /\ g \in found' <=> g \in found
  BY <1>1 DEF Content!ChangeDrive
<1>4. rpc' = [rpc EXCEPT !.stirred = @ \cup {f},
                         !.inside = @ \/ (Content!Calling /\ rpc.file \in within'),
                         !.outside = @ \/ (Content!Calling /\ rpc.file \notin within')]
  BY DEF Content!ChangeDrive
<1> DEFINE in == rpc.inside \/ (Content!Calling /\ rpc.file \in within')
           out == rpc.outside \/ (Content!Calling /\ rpc.file \notin within')
<1>5. in \in BOOLEAN /\ out \in BOOLEAN
  OBVIOUS
<1>6. rpc'.inside = in /\ rpc'.outside = out
  BY <1>1, <1>4 DEF Content!Calls
<1> HIDE DEF in, out
<1>7. rpc' \in Content!Calls
  <2>1. rpc' = [rpc EXCEPT !.stirred = @ \cup {f}, !.inside = in, !.outside = out]
    BY <1>4 DEF in, out
  <2>2. QED BY <1>1, <1>5, <2>1 DEF Content!Calls
<1>8. QED BY <1>1, <1>2, <1>3, <1>4, <1>6, <1>7 DEF Content!Calls, in, out

LEMMA DriveChanged ==
  ASSUME ContentInv, NEW f \in DriveItems, Content!ChangeDrive(f)
  PROVE  ContentInv'
<1>1. Content!ContentTypeOK'
  BY ChangeShape DEF Content!ContentTypeOK
<1>2. Routed' /\ Gathered' /\ Remembered'
  BY ChangeShape DEF ContentInv, Routed, Gathered, Remembered
<1>3. Content!TellsTruly'
  BY ChangeShape DEF ContentInv, Whereabouts, Content!TellsTruly, Content!Cause
<1>4. Whereabouts'
  BY <1>3, ChangeShape DEF ContentInv, Whereabouts, Content!Calling
<1>5. QED BY <1>1, <1>2, <1>4 DEF ContentInv

LEMMA ContentKeeps == ContentInv /\ [Next]_vars => ContentInv'
<1> SUFFICES ASSUME ContentInv, [Next]_vars PROVE ContentInv'
  OBVIOUS
<1>1. CASE Content!Next
  BY <1>1, CallBegun, RequestSteps, FolderSynced, PartHanded, FileDownloaded, DriveChanged
  DEF Content!Next
<1>2. CASE UNCHANGED contentVars
  BY <1>2
  DEF contentVars, ContentInv, Content!ContentTypeOK, Routed, Gathered, Whereabouts, Remembered,
      Content!TellsTruly, Content!Calling
<1>3. QED BY <1>1, <1>2, ContentSteps

\* Content is given, a file withheld or not found, and the cause in an error
\* told, as Drive has it (gdrive/plugin.go, driveclient.go, driveerror.go).
THEOREM ToldTruly == Spec => []TellsTruly
<1>1. ContentInv => TellsTruly
  BY DEF ContentInv, Whereabouts, TellsTruly
<1>2. QED BY <1>1, ContentStarts, ContentKeeps, PTL DEF Spec

LEMMA ContentShapes ==
  ASSUME ContentInv
  PROVE  /\ rpc \in Content!Calls /\ within \subseteq DriveItems
         /\ Content!MembersNow \in SUBSET DriveItems /\ Content!StirredNow \in SUBSET DriveItems
         /\ Content!ReplyNow.state = "pending" <=> Content!Lists /\ Content!Calling
<1>1. rpc \in Content!Calls /\ within \subseteq DriveItems /\ Routed
  BY DEF ContentInv, Content!ContentTypeOK
<1>2. Content!MembersNow \in SUBSET DriveItems /\ Content!StirredNow \in SUBSET DriveItems
  <2>1. CASE rpc.kind = "match"
    BY <1>1, <2>1 DEF Content!MembersNow, Content!StirredNow, Content!Calls
  <2>2. CASE rpc.kind = "search"
    BY <1>1, <2>2 DEF Content!MembersNow, Content!StirredNow, Content!Calls
  <2>3. CASE rpc.kind \notin {"match", "search"}
    BY <1>1, <2>3 DEF Content!MembersNow, Content!StirredNow, Content!Lists
  <2>4. QED BY <2>1, <2>2, <2>3
<1>3. Content!ReplyNow.state = "pending" <=> Content!Lists /\ Content!Calling
  <2>1. rpc.at # "pending"
    BY <1>1 DEF Content!Calls
  <2>2. Content!ReplyNow.state = IF ~Content!Lists \/ rpc.at = "idle" THEN "none"
                                 ELSE IF Content!Calling THEN "pending" ELSE rpc.at
    BY DEF Content!ReplyNow
  <2>3. QED BY <2>1, <2>2 DEF Content!Calling
<1>4. QED BY <1>1, <1>2, <1>3

LEMMA ContentAfter ==
  ASSUME ContentInv'
  PROVE  Content!MembersNow' \in SUBSET DriveItems /\ Content!StirredNow' \in SUBSET DriveItems
<1>1. rpc' \in Content!Calls /\ within' \subseteq DriveItems
  BY DEF ContentInv, Content!ContentTypeOK
<1>2. CASE rpc'.kind = "match"
  BY <1>1, <1>2 DEF Content!MembersNow, Content!StirredNow, Content!Calls
<1>3. CASE rpc'.kind = "search"
  BY <1>1, <1>3 DEF Content!MembersNow, Content!StirredNow, Content!Calls
<1>4. CASE rpc'.kind \notin {"match", "search"}
  BY <1>1, <1>4 DEF Content!MembersNow, Content!StirredNow, Content!Lists
<1>5. QED BY <1>2, <1>3, <1>4

LEMMA ContentStirs ==
  ASSUME ContentInv, ContentInv', Content!ReplyNow' = Content!ReplyNow,
         Content!Lists /\ Content!Calling =>
            /\ Content!StirredNow \subseteq Content!StirredNow'
            /\ \A f \in DriveItems \ Content!StirredNow' :
                  f \in Content!MembersNow <=> f \in Content!MembersNow'
  PROVE  Content!DriveContract!Next
<1>1. Content!MembersNow' \in SUBSET DriveItems /\ Content!StirredNow' \in SUBSET DriveItems
  BY ContentAfter
<1>2. Content!ReplyNow.state = "pending" =>
        Content!StirredNow \cup Content!DriveContract!Differ(Content!MembersNow, Content!MembersNow')
          \subseteq Content!StirredNow'
  BY <1>1, ContentShapes DEF Content!DriveContract!Differ
<1>3. Content!DriveContract!Stir
  BY <1>1, <1>2 DEF Content!DriveContract!Stir
<1>4. QED BY <1>3 DEF Content!DriveContract!Next

\* A step of the call that gives no answer yet, or that is not Match's or
\* Search's.
LEMMA ContentIdles ==
  ASSUME ContentInv, ContentInv', UNCHANGED Content!Outside, rpc'.kind = rpc.kind,
         rpc'.stirred = rpc.stirred,
         Content!Lists => Content!Calling /\ Content!Calling'
  PROVE  Content!DriveContract!Next
<1>1. Content!Lists' <=> Content!Lists
  BY DEF Content!Lists
<1>2. Content!MembersNow' = Content!MembersNow /\ Content!StirredNow' = Content!StirredNow
  BY DEF Content!MembersNow, Content!StirredNow, Content!Lists, Content!Outside
<1>3. Content!ReplyNow' = Content!ReplyNow
  <2>1. CASE Content!Lists
    BY <1>1, <2>1 DEF Content!ReplyNow, Content!Calling
  <2>2. CASE ~Content!Lists
    BY <1>1, <2>2 DEF Content!ReplyNow
  <2>3. QED BY <2>1, <2>2
<1>4. QED BY <1>2, <1>3, ContentStirs

LEMMA ContentRefuses ==
  ASSUME ContentInv, UNCHANGED Content!Outside, rpc'.kind = rpc.kind,
         rpc'.stirred = rpc.stirred, Content!Lists, Content!Calling, rpc'.at = "failed"
  PROVE  Content!DriveContract!Next
<1>1. Content!MembersNow' = Content!MembersNow /\ Content!StirredNow' = Content!StirredNow
  BY DEF Content!MembersNow, Content!StirredNow, Content!Lists, Content!Outside
<1>2. Content!ReplyNow' = [state |-> "failed", items |-> {}]
  BY DEF Content!ReplyNow, Content!Calling, Content!Lists
<1>3. Content!DriveContract!Refuse("rpc")
  BY <1>1, <1>2, ContentShapes DEF Content!DriveContract!Refuse
<1>4. QED BY <1>3 DEF Content!DriveContract!Next

LEMMA ContentGives ==
  ASSUME ContentInv, ContentInv', UNCHANGED Content!Outside, rpc'.kind = rpc.kind,
         rpc'.stirred = rpc.stirred, Content!Lists, Content!Calling, rpc'.at = "given",
         \A f \in DriveItems \ rpc.stirred :
            f \in rpc'.hits <=> f \in within /\ (rpc.kind = "search" => f \in found)
  PROVE  Content!DriveContract!Next
<1>1. Content!MembersNow' = Content!MembersNow /\ Content!StirredNow' = Content!StirredNow
  BY DEF Content!MembersNow, Content!StirredNow, Content!Lists, Content!Outside
<1>2. Content!ReplyNow' = [state |-> "given", items |-> rpc'.hits]
  BY DEF Content!ReplyNow, Content!Calling, Content!Lists
<1>3. rpc'.hits \in SUBSET DriveItems
  BY DEF ContentInv, Content!ContentTypeOK, Content!Calls
<1>4. \A f \in DriveItems : f \in Content!MembersNow <=>
                               f \in within /\ (rpc.kind = "search" => f \in found)
  BY DEF Content!MembersNow, Content!Lists
<1>5. Content!StirredNow = rpc.stirred
  BY DEF Content!StirredNow
<1>6. /\ Content!MembersNow \ Content!StirredNow \subseteq rpc'.hits
      /\ rpc'.hits \subseteq Content!MembersNow \cup Content!StirredNow
  BY <1>3, <1>4, <1>5, ContentShapes
<1>7. Content!DriveContract!Give("rpc")
  BY <1>1, <1>2, <1>3, <1>6, ContentShapes DEF Content!DriveContract!Give
<1>8. QED BY <1>7 DEF Content!DriveContract!Next

LEMMA ContentBegins ==
  ASSUME ContentInv, ContentInv', NEW kind \in {"match", "search", "fetch", "health"},
         NEW f \in DriveItems, Content!StartCall(kind, f)
  PROVE  Content!DriveContract!Next
<1>1. rpc'.kind = kind /\ rpc'.at = "token" /\ rpc'.stirred = {} /\ ~Content!Calling
  BY UncalledShape DEF Content!StartCall, Content!Calls
<1>2. Content!MembersNow' \in SUBSET DriveItems
  BY ContentAfter
<1>3. Content!StirredNow' = {} /\ Content!ReplyNow.state # "pending"
  BY <1>1, ContentShapes DEF Content!StirredNow
<1>4. CASE kind \in {"match", "search"}
  <2>1. Content!ReplyNow' = [state |-> "pending", items |-> {}]
    BY <1>1, <1>4 DEF Content!ReplyNow, Content!Lists, Content!Calling
  <2>2. Content!DriveContract!Begin("rpc")
    BY <1>2, <1>3, <2>1 DEF Content!DriveContract!Begin
  <2>3. QED BY <2>2 DEF Content!DriveContract!Next
<1>5. CASE kind \notin {"match", "search"}
  <2>1. Content!ReplyNow' = [state |-> "none", items |-> {}]
    BY <1>1, <1>5 DEF Content!ReplyNow, Content!Lists
  <2>2. Content!DriveContract!Forget
    BY <1>2, <1>3, <2>1 DEF Content!DriveContract!Forget, Content!DriveContract!Nothing
  <2>3. QED BY <2>2 DEF Content!DriveContract!Next
<1>6. QED BY <1>4, <1>5

LEMMA ContentMaps ==
  ASSUME ContentInv, ContentInv', Content!Next
  PROVE  Content!DriveContract!Next
<1>1. rpc \in Content!Calls /\ Routed
  BY DEF ContentInv, Content!ContentTypeOK
<1>2. ASSUME NEW kind \in {"match", "search", "fetch", "health"}, NEW f \in DriveItems,
             Content!StartCall(kind, f)
      PROVE  Content!DriveContract!Next
  BY <1>2, ContentBegins
<1>3. ASSUME \/ Content!CheckToken \/ Content!Probe \/ Content!Retry \/ Content!NextRequest
             \/ Content!Deadline
             \/ \E s \in Content!Statuses : Content!Refuse(s) \/ Content!PagesFail(s)
      PROVE  Content!DriveContract!Next
  <2>1. /\ UNCHANGED Content!Outside /\ Content!Calling /\ rpc'.kind = rpc.kind
        /\ rpc'.stirred = rpc.stirred
        /\ rpc'.at \in {"request", "pause", "failed", "given"}
        /\ rpc'.at = "given" => rpc.kind = "health"
    <3>1. CASE Content!CheckToken
      BY <1>1, <3>1 DEF Content!CheckToken, Content!Calls, Content!Calling
    <3>2. CASE Content!Probe
      BY <1>1, <3>2 DEF Content!Probe, Content!Calls, Content!Calling
    <3>3. CASE Content!Retry \/ Content!NextRequest
      BY <1>1, <3>3 DEF Content!Retry, Content!NextRequest, Content!Calls, Content!Calling
    <3>4. CASE Content!Deadline
      BY <1>1, <3>4 DEF Content!Deadline, Content!Calls, Content!Calling
    <3>5. ASSUME NEW s \in Content!Statuses, Content!Refuse(s) PROVE <2>1!1 /\ <2>1!2 /\ <2>1!3 /\ <2>1!4
      BY <1>1, <3>5 DEF Content!Refuse, Content!Calls, Content!Calling
    <3>6. ASSUME NEW s \in Content!Statuses, Content!PagesFail(s) PROVE <2>1!1 /\ <2>1!2 /\ <2>1!3 /\ <2>1!4
      BY <1>1, <3>6 DEF Content!PagesFail, Content!Calls, Content!Calling
    <3>7. QED BY <1>3, <3>1, <3>2, <3>3, <3>4, <3>5, <3>6
  <2>2. CASE rpc'.at = "failed" /\ Content!Lists
    BY <2>1, <2>2, ContentRefuses
  <2>3. CASE rpc'.at # "failed" \/ ~Content!Lists
    BY <2>1, <2>3, ContentIdles DEF Content!Lists, Content!Calling
  <2>4. QED BY <2>2, <2>3
<1>4. ASSUME Content!Synced PROVE Content!DriveContract!Next
  <2>1. /\ UNCHANGED Content!Outside /\ Content!Calling /\ rpc'.kind = rpc.kind
        /\ rpc'.stirred = rpc.stirred /\ within \subseteq DriveItems
        /\ rpc.kind = "match" => /\ rpc'.at = IF within = {} THEN "given" ELSE "previews"
                                 /\ rpc'.hits = within
        /\ rpc.kind = "search" => /\ rpc'.at = IF within = {} THEN "given" ELSE "pages"
                                  /\ rpc'.hits = {}
    <3>1. UNCHANGED Content!Outside /\ Content!Calling /\ within \subseteq DriveItems
      BY <1>4 DEF Content!Synced, Content!Calling, ContentInv, Content!ContentTypeOK
    <3>2. CASE rpc.kind = "match"
      <4>1. rpc' = [rpc EXCEPT !.heard = "none", !.last = "none", !.tree = within, !.hits = within,
                               !.left = within, !.at = IF within = {} THEN "given" ELSE "previews"]
        BY <1>4, <3>2 DEF Content!Synced
      <4>2. QED BY <1>1, <3>1, <3>2, <4>1 DEF Content!Calls
    <3>3. CASE rpc.kind = "search"
      <4>1. rpc' = [rpc EXCEPT !.heard = "none", !.last = "none", !.tree = within, !.hits = {},
                               !.left = DriveItems, !.at = IF within = {} THEN "given" ELSE "pages"]
        BY <1>4, <3>3 DEF Content!Synced
      <4>2. QED BY <1>1, <3>1, <3>3, <4>1 DEF Content!Calls
    <3>4. CASE rpc.kind \notin {"match", "search"}
      BY <1>1, <1>4, <3>1, <3>4 DEF Content!Synced, Content!Calls
    <3>5. QED BY <3>2, <3>3, <3>4
  <2>2. CASE Content!Lists /\ within = {}
    BY <2>1, <2>2, ContentGives DEF Content!Lists
  <2>3. CASE Content!Lists /\ within # {}
    BY <2>1, <2>3, ContentIdles DEF Content!Lists, Content!Calling
  <2>4. CASE ~Content!Lists
    BY <2>1, <2>4, ContentIdles
  <2>5. QED BY <2>2, <2>3, <2>4
<1>5. ASSUME \/ \E f \in DriveItems : Content!Preview(f)
             \/ Content!StopPreviews
             \/ \E part \in SUBSET rpc.left : Content!ReadPage(part)
      PROVE  Content!DriveContract!Next
  <2>1. Content!Lists
    BY <1>5, PartHanded DEF Content!Lists
  <2>2. CASE rpc'.at = "given"
    BY <1>5, <2>1, <2>2, PartHanded, ContentGives
  <2>3. CASE rpc'.at # "given"
    <3>1. UNCHANGED Content!Outside /\ Content!Calling /\ rpc'.kind = rpc.kind
            /\ rpc'.stirred = rpc.stirred /\ rpc'.at = rpc.at
      BY <1>5, <2>3, PartHanded
    <3>2. Content!Calling'
      BY <3>1 DEF Content!Calling
    <3>3. QED BY <3>1, <3>2, ContentIdles
  <2>4. QED BY <2>2, <2>3
<1>6. ASSUME Content!Download \/ Content!DownloadFails PROVE Content!DriveContract!Next
  <2>1. ~Content!Lists /\ ~Content!Lists'
    BY <1>6, FileDownloaded DEF Content!Lists
  <2>2. Content!ReplyNow' = Content!ReplyNow
    BY <2>1 DEF Content!ReplyNow
  <2>3. QED BY <2>1, <2>2, ContentStirs
<1>7. ASSUME NEW f \in DriveItems, Content!ChangeDrive(f) PROVE Content!DriveContract!Next
  <2>1. /\ rpc'.kind = rpc.kind /\ rpc'.at = rpc.at /\ rpc'.hits = rpc.hits
        /\ rpc'.stirred = rpc.stirred \cup {f}
        /\ \A g \in DriveItems \ {f} : /\ g \in within' <=> g \in within
                                       /\ g \in found' <=> g \in found
    BY <1>7, ChangeShape
  <2>2. Content!ReplyNow' = Content!ReplyNow
    BY <2>1 DEF Content!ReplyNow, Content!Lists, Content!Calling
  <2>3. Content!Lists => /\ Content!StirredNow' = Content!StirredNow \cup {f}
                         /\ \A g \in DriveItems \ {f} :
                               g \in Content!MembersNow <=> g \in Content!MembersNow'
    BY <2>1 DEF Content!StirredNow, Content!MembersNow, Content!Lists
  <2>4. QED BY <2>2, <2>3, ContentStirs
<1>8. QED BY <1>2, <1>3, <1>4, <1>5, <1>6, <1>7 DEF Content!Next

\* Match and Search of Google Drive give whole answers, whatever becomes of
\* retries, previews and pages (gdrive/plugin.go).
THEOREM DriveAnswered == Spec => DriveAnswers
<1>1. Init => Content!DriveContract!Init
  <2> SUFFICES ASSUME Init PROVE Content!DriveContract!Init
    OBVIOUS
  <2>1. rpc.at = "idle" /\ rpc.stirred = {}
    BY UncalledShape DEF Init, Content!Init
  <2>2. Content!ReplyNow = [state |-> "none", items |-> {}] /\ Content!StirredNow = {}
    BY <2>1 DEF Content!ReplyNow, Content!StirredNow
  <2>3. Content!MembersNow \in SUBSET DriveItems
    BY ContentStarts, ContentShapes
  <2>4. QED BY <2>2, <2>3 DEF Content!DriveContract!Init, Content!DriveContract!Nothing
<1>2. ContentInv /\ ContentInv' /\ [Next]_vars => [chosen = "drive" => Content!DriveContract!Next]_vars
  <2> SUFFICES ASSUME ContentInv, ContentInv', Next, chosen = "drive"
               PROVE  Content!DriveContract!Next
    OBVIOUS
  <2>1. Content!Next
    BY DEF Next, WhatsApp, Proton, Silverbullet, Paperless, Filesystem, SignalDesktop, Chats,
           DriveRequests, Install
  <2>2. QED BY <2>1, ContentMaps
<1>3. QED BY <1>1, <1>2, ContentStarts, ContentKeeps, PTL DEF Spec, DriveAnswers

-----------------------------------------------------------------------------
\* Signal

LEMMA SignalSteps == [Next]_vars => [chosen = "signal" /\ Signal!Next]_signalVars
<1>1. SignalDesktop => chosen = "signal" /\ Signal!Next
  BY DEF SignalDesktop
<1>2. WhatsApp \/ Proton \/ Silverbullet \/ Paperless \/ Filesystem \/ DriveRequests \/ Chats
        \/ Install => UNCHANGED signalVars
  BY DEF WhatsApp, Proton, Silverbullet, Paperless, Filesystem, DriveRequests, Chats, Install
<1>3. QED BY <1>1, <1>2 DEF Next, vars

\* A message erased before the call keeps no text while its row is there.
StaysErased ==
    \A m \in query.erased : rows[m] \notin {"text", "file"} /\ query.read[m] # "text"

\* A title's count stands until its day is written; Fetch works towards it.
CountStands ==
    /\ \A d \in Signal!Digests : counted[d] > 0 => counted[d] = Signal!DayCount(rows, d)
    /\ query.kind = "fetch" /\ query.expected > 0 =>
          /\ query.at # "notfound"
          /\ Signal!Asking => query.expected = Signal!DayCount(rows, query.digest)
          /\ query.at = "given" => query.expected = Signal!DayCount(query.read, query.digest)

\* A database that was opened and is no longer the one expected has been
\* touched as a whole.
Opened ==
    query.at \in {"convs", "messages"} =>
        install = "ready" \/ (query.stirred = Signal!Digests /\ query.expected = 0)

\* The conversations found are those that match, except where they changed.
FoundConvs ==
    query.at = "messages" /\ query.kind # "fetch" =>
       \A d \in Signal!Digests \ query.stirred :
          d[1] \in query.found <=> Signal!MatchesConversation(d[1])

SignalInv == Signal!SignalTypeOK /\ StaysErased /\ CountStands /\ Opened /\ FoundConvs

LEMMA SignalAssumed == Signal!SignalAssumption
BY SourcesAssumption

LEMMA MessagesCounted ==
  ASSUME NEW S \in SUBSET Signal!Messages
  PROVE  /\ Signal!Cardinality(S) \in 0 .. LastMessage
         /\ Signal!Cardinality(S) = 0 <=> S = {}
<1>1. LastMessage \in Nat \ {0}
  BY SignalAssumed DEF Signal!SignalAssumption
<1>2. IsFiniteSet(1 .. LastMessage) /\ Cardinality(1 .. LastMessage) = LastMessage
  BY <1>1, FS_Interval
<1>3. IsFiniteSet(S) /\ Cardinality(S) \in Nat /\ Cardinality(S) <= LastMessage
        /\ (Cardinality(S) = 0 <=> S = {})
  <2>1. S \in SUBSET (1 .. LastMessage)
    BY DEF Signal!Messages
  <2>2. IsFiniteSet(S) /\ Cardinality(S) <= LastMessage
    BY <1>2, <2>1, FS_Subset
  <2>3. QED BY <2>2, FS_CardinalityType, FS_EmptySet
<1>4. Signal!Cardinality(S) = Cardinality(S)
  BY DEF Signal!Cardinality, Cardinality
<1>5. QED BY <1>1, <1>3, <1>4

LEMMA DaysCounted ==
  ASSUME NEW read \in [Signal!Messages -> Signal!Rows], NEW d \in Signal!Digests
  PROVE  /\ Signal!DayCount(read, d) \in 0 .. LastMessage
         /\ Signal!DayCount(read, d) > 0 => Signal!Transcript(read, d) # {}
         /\ Signal!Cardinality(Signal!Transcript(read, d)) = Signal!DayCount(read, d)
<1>1. {m \in Signal!OfDigest(d) : Signal!Counts(read[m])} = Signal!Transcript(read, d)
  BY DEF Signal!Counts, Signal!Transcript
<1>2. Signal!Transcript(read, d) \in SUBSET Signal!Messages
  BY DEF Signal!Transcript, Signal!OfDigest
<1>3. Signal!DayCount(read, d) = Signal!Cardinality(Signal!Transcript(read, d))
  BY <1>1 DEF Signal!DayCount
<1>4. QED BY <1>2, <1>3, MessagesCounted

\* A day none of whose messages differs counts and matches the same.
LEMMA SameDay ==
  ASSUME NEW r1, NEW r2, NEW d, \A m \in Signal!OfDigest(d) : r1[m] = r2[m]
  PROVE  /\ Signal!DayCount(r1, d) = Signal!DayCount(r2, d)
         /\ \A kind, F : d \in Signal!Answered(kind, F, r1) <=> d \in Signal!Answered(kind, F, r2)
<1>1. {m \in Signal!OfDigest(d) : Signal!Counts(r1[m])}
        = {m \in Signal!OfDigest(d) : Signal!Counts(r2[m])}
  OBVIOUS
<1>2. Signal!DayCount(r1, d) = Signal!DayCount(r2, d)
  BY <1>1 DEF Signal!DayCount
<1>3. ASSUME NEW kind, NEW F
      PROVE  d \in Signal!Answered(kind, F, r1) <=> d \in Signal!Answered(kind, F, r2)
  BY DEF Signal!Answered
<1>4. QED BY <1>2, <1>3

LEMMA UnaskedShape ==
  /\ Signal!Unasked \in Signal!Queries /\ Signal!Unasked.digest \in Signal!Digests
  /\ Signal!Unasked.at = "idle" /\ Signal!Unasked.stirred = {} /\ Signal!Unasked.erased = {}
  /\ Signal!Unasked.kind = "match" /\ Signal!Unasked.read = Signal!NoRows
  /\ Signal!Unasked.expected = 0 /\ Signal!Unasked.found = {}
<1>1. 1 \in Signal!Messages
  BY SignalAssumed DEF Signal!SignalAssumption, Signal!Messages
<1>2. <<ConvOf[1], DayOf[1]>> \in Signal!Digests
  BY <1>1 DEF Signal!Digests
<1>3. (CHOOSE d \in Signal!Digests : TRUE) \in Signal!Digests
  BY <1>2
<1> DEFINE first == CHOOSE d \in Signal!Digests : TRUE
<1>4. Signal!NoRows \in [Signal!Messages -> Signal!Rows]
  BY DEF Signal!NoRows, Signal!Rows
<1>5. Signal!Unasked = [kind |-> "match", at |-> "idle", digest |-> first, found |-> {},
                        read |-> Signal!NoRows, erased |-> {}, stirred |-> {}, expected |-> 0]
  BY DEF Signal!Unasked
<1> HIDE DEF first
<1>6. QED BY <1>3, <1>4, <1>5 DEF Signal!Queries, first

LEMMA SignalStarts == Init => SignalInv
<1> SUFFICES ASSUME Init PROVE SignalInv
  OBVIOUS
<1>1. Signal!Init /\ LastMessage \in Nat /\ MaxWrites \in Nat
  BY SignalAssumed DEF Init, Signal!SignalAssumption
<1>2. counted \in [Signal!Digests -> 0 .. LastMessage] /\ \A d \in Signal!Digests : counted[d] = 0
  BY <1>1 DEF Signal!Init, Signal!Uncounted
<1>3. rows \in [Signal!Messages -> Signal!Rows]
  BY <1>1 DEF Signal!Init, Signal!Rows
<1>4. Signal!SignalTypeOK
  BY <1>1, <1>2, <1>3, UnaskedShape DEF Signal!Init, Signal!SignalTypeOK
<1>5. query = Signal!Unasked
  BY <1>1 DEF Signal!Init
<1>6. QED
  BY <1>2, <1>4, <1>5, UnaskedShape DEF SignalInv, StaysErased, CountStands, Opened, FoundConvs

LEMMA QueryBegun ==
  ASSUME SignalInv, NEW kind \in {"match", "search", "fetch"}, NEW d \in Signal!Digests,
         Signal!StartQuery(kind, d)
  PROVE  SignalInv'
<1>1. UNCHANGED <<rows, named, profiled, install, writes, counted>> /\ Signal!SignalTypeOK
  BY DEF Signal!StartQuery, Signal!Database, SignalInv
<1> DEFINE gone == {m \in Signal!Messages : rows[m] \in {"columnErased", "blobErased"}}
           count == IF kind = "fetch" THEN counted[d] ELSE 0
<1>2. gone \in SUBSET Signal!Messages /\ count \in Nat
  BY <1>1, SignalAssumed DEF Signal!SignalTypeOK, Signal!SignalAssumption
<1>3. query' = [Signal!Unasked EXCEPT !.kind = kind, !.at = "open", !.digest = d,
                                      !.erased = gone, !.expected = count]
  BY DEF Signal!StartQuery
<1> HIDE DEF gone, count
<1>4. /\ query' \in Signal!Queries /\ query'.kind = kind /\ query'.at = "open"
      /\ query'.digest = d /\ query'.read = Signal!NoRows /\ query'.erased = gone
      /\ query'.expected = count
  BY <1>2, <1>3, UnaskedShape DEF Signal!Queries
<1>5. Signal!SignalTypeOK'
  BY <1>1, <1>4 DEF Signal!SignalTypeOK
<1>6. StaysErased'
  BY <1>1, <1>4 DEF StaysErased, gone, Signal!NoRows
<1>7. CountStands'
  BY <1>1, <1>4 DEF SignalInv, CountStands, count
<1>8. QED BY <1>4, <1>5, <1>6, <1>7 DEF SignalInv, Opened, FoundConvs

LEMMA QueryGoes ==
  ASSUME SignalInv, Signal!OpenGuarded \/ Signal!QueryFails
  PROVE  SignalInv'
<1>1. /\ UNCHANGED <<rows, named, profiled, install, writes, counted>> /\ Signal!SignalTypeOK
      /\ query \in Signal!Queries /\ Signal!Asking
  BY DEF Signal!OpenGuarded, Signal!QueryFails, Signal!Database, Signal!Asking, SignalInv,
         Signal!SignalTypeOK
<1>2. /\ query' \in Signal!Queries /\ query'.kind = query.kind /\ query'.digest = query.digest
      /\ query'.read = query.read /\ query'.erased = query.erased
      /\ query'.expected = query.expected /\ query'.at \in {"convs", "failed"}
      /\ query'.at = "convs" => install = "ready"
  <2>1. CASE Signal!OpenGuarded
    <3>1. CASE query' = [query EXCEPT !.at = "convs"]
      BY <1>1, <2>1, <3>1
      DEF Signal!OpenGuarded, Signal!Queries, Signal!SignalTypeOK, Signal!ResolveKey,
          Signal!GuardSchemaVersion
    <3>2. CASE query' = [query EXCEPT !.at = "failed"]
      BY <1>1, <3>2 DEF Signal!Queries
    <3>3. QED BY <2>1, <3>1, <3>2 DEF Signal!OpenGuarded
  <2>2. CASE Signal!QueryFails
    BY <1>1, <2>2 DEF Signal!QueryFails, Signal!Queries
  <2>3. QED BY <2>1, <2>2
<1>3. Signal!SignalTypeOK'
  BY <1>1, <1>2 DEF Signal!SignalTypeOK
<1>4. CountStands'
  BY <1>1, <1>2 DEF SignalInv, CountStands, Signal!Asking
<1>5. QED BY <1>1, <1>2, <1>3, <1>4 DEF SignalInv, StaysErased, Opened, FoundConvs

LEMMA ConversationsRead ==
  ASSUME SignalInv, Signal!ReadConversations
  PROVE  /\ SignalInv'
         /\ query' \in Signal!Queries /\ query'.kind = query.kind
         /\ query'.stirred = query.stirred /\ query'.found \subseteq Convs
         /\ query.kind = "fetch" => query'.at = "messages"
         /\ query.kind # "fetch" =>
               /\ query'.found = {c \in Convs : Signal!MatchesConversation(c)}
               /\ query'.at = IF query'.found = {} THEN "given" ELSE "messages"
<1>1. /\ UNCHANGED <<rows, named, profiled, install, writes>> /\ Signal!SignalTypeOK
      /\ query \in Signal!Queries /\ query.at = "convs"
  BY DEF Signal!ReadConversations, Signal!Database, SignalInv, Signal!SignalTypeOK
<1> DEFINE mine == IF query.kind = "fetch" THEN {query.digest[1]}
                                           ELSE {c \in Convs : Signal!MatchesConversation(c)}
<1>2. mine \in SUBSET Convs
  BY <1>1, SignalAssumed DEF Signal!SignalAssumption, Signal!Digests, Signal!Queries
<1>3. query' = [query EXCEPT !.found = mine, !.at = IF mine = {} THEN "given" ELSE "messages"]
  BY DEF Signal!ReadConversations
<1>4. counted' = IF query.kind # "fetch" /\ query'.at = "given" THEN Signal!Uncounted ELSE counted
  BY DEF Signal!ReadConversations
<1> HIDE DEF mine
<1>5. /\ query' \in Signal!Queries /\ query'.kind = query.kind /\ query'.digest = query.digest
      /\ query'.found = mine /\ query'.read = query.read /\ query'.erased = query.erased
      /\ query'.stirred = query.stirred /\ query'.expected = query.expected
      /\ query'.at = IF mine = {} THEN "given" ELSE "messages"
  <2>1. CASE mine = {}
    BY <1>1, <1>2, <1>3, <2>1 DEF Signal!Queries
  <2>2. CASE mine # {}
    BY <1>1, <1>2, <1>3, <2>2 DEF Signal!Queries
  <2>3. QED BY <2>1, <2>2
<1>6. /\ counted' \in [Signal!Digests -> 0 .. LastMessage]
      /\ \A d \in Signal!Digests : counted'[d] = 0 \/ counted'[d] = counted[d]
  BY <1>1, <1>4, SignalAssumed DEF Signal!SignalTypeOK, Signal!Uncounted, Signal!SignalAssumption
<1>7. Signal!SignalTypeOK'
  BY <1>1, <1>5, <1>6 DEF Signal!SignalTypeOK
<1>8. query.kind = "fetch" => query'.at = "messages"
  BY <1>5 DEF mine
<1>9. \A d \in Signal!Digests : counted'[d] > 0 => counted'[d] = Signal!DayCount(rows, d)
  BY <1>6 DEF SignalInv, CountStands
<1>10. CountStands'
  BY <1>1, <1>5, <1>8, <1>9 DEF SignalInv, CountStands, Signal!Asking
<1>11. FoundConvs'
  <2> SUFFICES ASSUME query.kind # "fetch", NEW d \in Signal!Digests
               PROVE  d[1] \in mine <=> Signal!MatchesConversation(d[1])
    BY <1>1, <1>5 DEF FoundConvs, Signal!MatchesConversation
  <2>1. d[1] \in Convs
    BY SignalAssumed DEF Signal!SignalAssumption, Signal!Digests
  <2>2. QED BY <2>1 DEF mine
<1>12. StaysErased' /\ Opened'
  BY <1>1, <1>5 DEF SignalInv, StaysErased, Opened
<1>13. query.kind # "fetch" => mine = {c \in Convs : Signal!MatchesConversation(c)}
  BY DEF mine
<1>14. SignalInv'
  BY <1>7, <1>10, <1>11, <1>12 DEF SignalInv
<1>15. QED BY <1>2, <1>5, <1>8, <1>13, <1>14

\* The rows read are the table's, unless the schema is of another version.
LEMMA MessagesShape ==
  ASSUME SignalInv, Signal!ReadMessages
  PROVE  /\ query' \in Signal!Queries /\ query'.kind = query.kind
         /\ query'.digest = query.digest /\ query'.erased = query.erased
         /\ query'.stirred = query.stirred /\ query'.expected = query.expected
         /\ query'.found = query.found
         /\ query'.at = IF query.kind = "fetch" /\ Signal!Transcript(query'.read, query.digest) = {}
                          THEN "notfound" ELSE "given"
         /\ query'.read = rows \/ (query'.read = Signal!NoRows /\ install = "newer")
<1>1. query \in Signal!Queries /\ rows \in [Signal!Messages -> Signal!Rows]
  BY DEF SignalInv, Signal!SignalTypeOK
<1>2. Signal!NoRows \in [Signal!Messages -> Signal!Rows]
  BY DEF Signal!NoRows, Signal!Rows
<1>3. PICK read \in {rows} \cup IF install = "newer" THEN {Signal!NoRows} ELSE {} :
        query' = [query EXCEPT
           !.read = read,
           !.at = IF query.kind = "fetch" /\ Signal!Transcript(read, query.digest) = {}
                    THEN "notfound" ELSE "given"]
  BY DEF Signal!ReadMessages
<1>4. read = rows \/ (read = Signal!NoRows /\ install = "newer")
  BY <1>3
<1> DEFINE ends == IF query.kind = "fetch" /\ Signal!Transcript(read, query.digest) = {}
                     THEN "notfound" ELSE "given"
<1>5. query' = [query EXCEPT !.read = read, !.at = ends] /\ ends \in {"notfound", "given"}
  BY <1>3
<1> HIDE DEF ends
<1>6. /\ query' \in Signal!Queries /\ query'.kind = query.kind
      /\ query'.digest = query.digest /\ query'.erased = query.erased
      /\ query'.stirred = query.stirred /\ query'.expected = query.expected
      /\ query'.found = query.found /\ query'.read = read /\ query'.at = ends
  <2>1. read \in [Signal!Messages -> Signal!Rows]
    BY <1>1, <1>2, <1>4
  <2>2. QED BY <1>1, <1>5, <2>1 DEF Signal!Queries
<1>7. QED BY <1>4, <1>6 DEF ends

LEMMA MessagesRead ==
  ASSUME SignalInv, Signal!ReadMessages
  PROVE  SignalInv'
<1>1. /\ UNCHANGED <<rows, named, profiled, install, writes>> /\ Signal!SignalTypeOK
      /\ query \in Signal!Queries /\ query.at = "messages"
  BY DEF Signal!ReadMessages, Signal!Database, SignalInv, Signal!SignalTypeOK
<1>2. query'.read \in [Signal!Messages -> Signal!Rows] /\ LastMessage \in Nat
  BY MessagesShape, SignalAssumed DEF Signal!Queries, Signal!SignalAssumption
<1>3. /\ query.kind = "fetch" => counted' = counted
      /\ query.kind # "fetch" =>
            counted' = [d \in Signal!Digests |->
               IF d \in Signal!Answered(query.kind, query.found, query'.read) \ query.stirred
                 THEN Signal!DayCount(query'.read, d) ELSE 0]
  BY DEF Signal!ReadMessages
<1>4. counted' \in [Signal!Digests -> 0 .. LastMessage]
  <2>1. \A d \in Signal!Digests : Signal!DayCount(query'.read, d) \in 0 .. LastMessage
    BY <1>2, DaysCounted
  <2>2. CASE query.kind = "fetch"
    BY <1>1, <1>3, <2>2 DEF Signal!SignalTypeOK
  <2>3. CASE query.kind # "fetch"
    BY <1>2, <1>3, <2>1, <2>3
  <2>4. QED BY <2>2, <2>3
<1>5. Signal!SignalTypeOK'
  BY <1>1, <1>4, MessagesShape DEF Signal!SignalTypeOK
<1>6. \/ query'.read = rows
      \/ query'.read = Signal!NoRows /\ query.stirred = Signal!Digests /\ query.expected = 0
  BY <1>1, MessagesShape DEF SignalInv, Opened
<1>7. \A d \in Signal!Digests : counted'[d] > 0 => counted'[d] = Signal!DayCount(rows, d)
  <2>1. CASE query.kind = "fetch"
    BY <1>3, <2>1 DEF SignalInv, CountStands
  <2>2. CASE query.kind # "fetch"
    BY <1>3, <1>6, <2>2
  <2>3. QED BY <2>1, <2>2
<1>8. ASSUME query.kind = "fetch", query.expected > 0
      PROVE  /\ query'.at = "given"
             /\ query.expected = Signal!DayCount(query'.read, query.digest)
  <2>1. query'.read = rows
    BY <1>6, <1>8
  <2>2. query.expected = Signal!DayCount(query'.read, query.digest)
    BY <1>1, <1>8, <2>1 DEF SignalInv, CountStands, Signal!Asking
  <2>3. query.digest \in Signal!Digests
    BY <1>1 DEF Signal!Queries
  <2>4. Signal!Transcript(query'.read, query.digest) # {}
    BY <1>2, <1>8, <2>2, <2>3, DaysCounted
  <2>5. QED BY <2>2, <2>4, MessagesShape
<1>9. query'.at \in {"given", "notfound"}
  BY MessagesShape
<1>10. CountStands'
  BY <1>1, <1>7, <1>8, <1>9, MessagesShape DEF CountStands, Signal!Asking
<1>11. StaysErased'
  <2> SUFFICES ASSUME NEW m \in query.erased PROVE query'.read[m] # "text"
    BY <1>1, MessagesShape DEF SignalInv, StaysErased
  <2>1. m \in Signal!Messages
    BY <1>1 DEF Signal!Queries
  <2>2. QED BY <2>1, <1>6 DEF SignalInv, StaysErased, Signal!NoRows
<1>12. Opened' /\ FoundConvs'
  BY <1>9 DEF Opened, FoundConvs
<1>13. QED BY <1>5, <1>10, <1>11, <1>12 DEF SignalInv

\* What a write of Signal Desktop's does to the call and the counts.
LEMMA WriteShape ==
  ASSUME SignalInv, NEW D \in SUBSET Signal!Digests, Signal!Write(D)
  PROVE  /\ query' \in Signal!Queries /\ query'.kind = query.kind
         /\ query'.at = query.at /\ query'.digest = query.digest /\ query'.found = query.found
         /\ query'.read = query.read /\ query'.stirred = query.stirred \cup D
         /\ query'.erased = {m \in query.erased : rows[m] # "none"}
         /\ query'.expected = IF query.digest \in D THEN 0 ELSE query.expected
         /\ counted' \in [Signal!Digests -> 0 .. LastMessage]
         /\ \A d \in Signal!Digests : counted'[d] = IF d \in D THEN 0 ELSE counted[d]
         /\ writes' \in 0 .. MaxWrites
<1>1. /\ query \in Signal!Queries /\ counted \in [Signal!Digests -> 0 .. LastMessage]
      /\ writes \in 0 .. MaxWrites /\ LastMessage \in Nat /\ MaxWrites \in Nat
  BY SignalAssumed DEF SignalInv, Signal!SignalTypeOK, Signal!SignalAssumption
<1>2. counted' \in [Signal!Digests -> 0 .. LastMessage]
      /\ \A d \in Signal!Digests : counted'[d] = IF d \in D THEN 0 ELSE counted[d]
  BY <1>1 DEF Signal!Write
<1>3. writes' \in 0 .. MaxWrites
  BY <1>1 DEF Signal!Write
<1> DEFINE still == {m \in query.erased : rows[m] # "none"}
           count == IF query.digest \in D THEN 0 ELSE query.expected
<1>4. query' = [query EXCEPT !.stirred = query.stirred \cup D, !.erased = still, !.expected = count]
  BY <1>1 DEF Signal!Write, Signal!Queries
<1>5. still \in SUBSET Signal!Messages /\ count \in Nat
  BY <1>1 DEF Signal!Queries
<1> HIDE DEF still, count
<1>6. /\ query' \in Signal!Queries /\ query'.kind = query.kind
      /\ query'.at = query.at /\ query'.digest = query.digest /\ query'.found = query.found
      /\ query'.read = query.read /\ query'.stirred = query.stirred \cup D
      /\ query'.erased = still /\ query'.expected = count
  BY <1>1, <1>4, <1>5 DEF Signal!Queries
<1>7. QED BY <1>2, <1>3, <1>6 DEF still, count

\* A write of Signal Desktop's changes no more than the digests it touches, and
\* leaves no text in an erased row.
Touches(D) ==
    /\ rows' \in [Signal!Messages -> Signal!Rows] /\ named' \subseteq Convs
    /\ profiled' \subseteq Convs /\ install' \in {"ready", "missing", "unkeyed", "newer"}
    /\ \A d \in Signal!Digests \ D :
          /\ \A m \in Signal!OfDigest(d) : rows'[m] = rows[m]
          /\ d[1] \in named' <=> d[1] \in named
    /\ \A m \in Signal!Messages : rows'[m] \in {"text", "file"} =>
          rows[m] \in {"none", "text", "file"}
    /\ install' = install \/ D = Signal!Digests

LEMMA WriteKeeps ==
  ASSUME SignalInv, NEW D \in SUBSET Signal!Digests, Signal!Write(D),
         Touches(D)
  PROVE  SignalInv'
<1> USE DEF Touches
<1>1. query \in Signal!Queries /\ Signal!SignalTypeOK
  BY DEF SignalInv, Signal!SignalTypeOK
<1>2. Signal!SignalTypeOK'
  BY WriteShape DEF Signal!SignalTypeOK
<1>3. StaysErased'
  <2> SUFFICES ASSUME NEW m \in query'.erased
               PROVE  rows'[m] \notin {"text", "file"} /\ query'.read[m] # "text"
    BY DEF StaysErased
  <2>1. m \in query.erased /\ rows[m] # "none" /\ m \in Signal!Messages
    BY <1>1, WriteShape DEF Signal!Queries
  <2>2. rows[m] \notin {"text", "file"} /\ query.read[m] # "text"
    BY <2>1 DEF SignalInv, StaysErased
  <2>3. QED BY <2>1, <2>2, WriteShape
<1>4. \A d \in Signal!Digests \ D : Signal!DayCount(rows', d) = Signal!DayCount(rows, d)
  BY SameDay
<1>5. query.digest \in Signal!Digests
  BY <1>1 DEF Signal!Queries
<1>6. CountStands'
  <2>1. ASSUME NEW d \in Signal!Digests, counted'[d] > 0
        PROVE  counted'[d] = Signal!DayCount(rows', d)
    BY <1>4, <2>1, WriteShape DEF SignalInv, CountStands
  <2>2. ASSUME query.kind = "fetch", query'.expected > 0
        PROVE  /\ query.digest \notin D /\ query'.expected = query.expected
               /\ query.expected > 0
    BY <2>2, WriteShape
  <2>3. Signal!Asking' <=> Signal!Asking
    BY WriteShape DEF Signal!Asking
  <2>4. QED BY <1>4, <1>5, <2>1, <2>2, <2>3, WriteShape DEF SignalInv, CountStands
<1>7. Opened'
  <2>1. CASE D = Signal!Digests
    <3>1. query.stirred \subseteq Signal!Digests
      BY <1>1 DEF Signal!Queries
    <3>2. query'.stirred = Signal!Digests /\ query'.expected = 0
      BY <1>5, <2>1, <3>1, WriteShape
    <3>3. QED BY <3>2 DEF Opened
  <2>2. CASE D # Signal!Digests
    <3>1. install' = install /\ query.stirred \subseteq Signal!Digests
      BY <1>1, <2>2 DEF Signal!Queries
    <3>2. query'.stirred = query.stirred \cup D
      BY WriteShape
    <3>3. query.stirred = Signal!Digests => query'.stirred = Signal!Digests
      BY <3>1, <3>2
    <3>4. query.expected = 0 => query'.expected = 0
      BY WriteShape
    <3>5. QED BY <3>1, <3>3, <3>4, WriteShape DEF SignalInv, Opened
  <2>3. QED BY <2>1, <2>2
<1>8. FoundConvs'
  BY WriteShape DEF SignalInv, FoundConvs, Signal!MatchesConversation
<1>9. QED BY <1>2, <1>3, <1>6, <1>7, <1>8 DEF SignalInv

\* Every write of Signal Desktop's touches what it says.
LEMMA WriteSteps ==
  ASSUME SignalInv,
         \/ \E m \in Signal!Messages : Signal!WriteMessage(m)
         \/ \E c \in Convs : Signal!Rename(c) \/ Signal!RenameProfile(c)
         \/ Signal!ChangeInstall
  PROVE  \E D \in SUBSET Signal!Digests : Signal!Write(D) /\ Touches(D)
<1>1. /\ rows \in [Signal!Messages -> Signal!Rows] /\ named \subseteq Convs
      /\ profiled \subseteq Convs /\ install \in {"ready", "missing", "unkeyed", "newer"}
  BY DEF SignalInv, Signal!SignalTypeOK
<1>2. ASSUME NEW n \in Signal!Messages, Signal!WriteMessage(n)
      PROVE  \E D \in SUBSET Signal!Digests : Signal!Write(D) /\ Touches(D)
  <2> DEFINE D == {<<ConvOf[n], DayOf[n]>>}
  <2>1. Signal!Write(D) /\ UNCHANGED <<named, profiled, install>>
    BY <1>2 DEF Signal!WriteMessage
  <2>2. PICK r \in Signal!Rows \ {rows[n]} : /\ rows[n] = "none" <=> r \in {"text", "file"}
                                            /\ rows' = [rows EXCEPT ![n] = r]
    BY <1>2 DEF Signal!WriteMessage
  <2>3. D \in SUBSET Signal!Digests
    BY DEF Signal!Digests
  <2>4. \A d \in Signal!Digests \ D : n \notin Signal!OfDigest(d)
    BY DEF Signal!OfDigest
  <2> HIDE DEF D
  <2>5. rows' \in [Signal!Messages -> Signal!Rows]
    BY <1>1, <2>2
  <2>6. \A m \in Signal!Messages : rows'[m] = IF m = n THEN r ELSE rows[m]
    BY <1>1, <2>2
  <2>7. \A d \in Signal!Digests \ D : \A m \in Signal!OfDigest(d) : rows'[m] = rows[m]
    BY <2>4, <2>6 DEF Signal!OfDigest
  <2>8. \A m \in Signal!Messages : rows'[m] \in {"text", "file"} =>
          rows[m] \in {"none", "text", "file"}
    BY <2>2, <2>6
  <2>9. QED BY <1>1, <2>1, <2>3, <2>5, <2>7, <2>8 DEF Touches
<1>3. ASSUME NEW c \in Convs, Signal!Rename(c)
      PROVE  \E D \in SUBSET Signal!Digests : Signal!Write(D) /\ Touches(D)
  <2> DEFINE D == {d \in Signal!Digests : d[1] = c}
  <2>1. Signal!Write(D) /\ UNCHANGED <<rows, profiled, install>> /\ D \in SUBSET Signal!Digests
    BY <1>3 DEF Signal!Rename
  <2>2. named' \subseteq Convs /\ \A b : b # c => (b \in named' <=> b \in named)
    BY <1>1, <1>3 DEF Signal!Rename
  <2>3. \A d \in Signal!Digests \ D : d[1] \in named' <=> d[1] \in named
    BY <2>2
  <2> HIDE DEF D
  <2>4. QED BY <1>1, <2>1, <2>2, <2>3 DEF Touches
<1>4. ASSUME NEW c \in Convs, Signal!RenameProfile(c)
      PROVE  \E D \in SUBSET Signal!Digests : Signal!Write(D) /\ Touches(D)
  <2>1. Signal!Write({}) /\ UNCHANGED <<rows, named, install>> /\ profiled' \subseteq Convs
    BY <1>1, <1>4 DEF Signal!RenameProfile
  <2>2. Touches({})
    BY <1>1, <2>1 DEF Touches
  <2>3. {} \in SUBSET Signal!Digests
    OBVIOUS
  <2>4. QED BY <2>1, <2>2, <2>3
<1>5. ASSUME Signal!ChangeInstall
      PROVE  \E D \in SUBSET Signal!Digests : Signal!Write(D) /\ Touches(D)
  <2>1. /\ Signal!Write(Signal!Digests) /\ UNCHANGED <<rows, named, profiled>>
        /\ install' \in {"missing", "unkeyed", "newer"}
    BY <1>5 DEF Signal!ChangeInstall
  <2>2. Touches(Signal!Digests)
    BY <1>1, <2>1 DEF Touches
  <2>3. Signal!Digests \in SUBSET Signal!Digests
    OBVIOUS
  <2>4. QED BY <2>1, <2>2, <2>3
<1>6. QED BY <1>2, <1>3, <1>4, <1>5

LEMMA SignalKeeps == SignalInv /\ [Next]_vars => SignalInv'
<1> SUFFICES ASSUME SignalInv, [Next]_vars PROVE SignalInv'
  OBVIOUS
<1>1. CASE Signal!Next
  <2>1. Signal!Unasked.digest \in Signal!Digests
    BY UnaskedShape
  <2>2. CASE \/ \E m \in Signal!Messages : Signal!WriteMessage(m)
             \/ \E c \in Convs : Signal!Rename(c) \/ Signal!RenameProfile(c)
             \/ Signal!ChangeInstall
    BY <2>2, WriteSteps, WriteKeeps
  <2>3. QED
    BY <1>1, <2>1, <2>2, QueryBegun, QueryGoes, ConversationsRead, MessagesRead
    DEF Signal!Next, Signal!Step
<1>2. CASE UNCHANGED signalVars
  BY <1>2
  DEF signalVars, SignalInv, Signal!SignalTypeOK, StaysErased, CountStands, Opened, FoundConvs,
      Signal!Asking, Signal!MatchesConversation
<1>3. QED BY <1>1, <1>2, SignalSteps

\* No preview shows text that had been erased for everyone before the call
\* (signal/message.go's parseMessage).
THEOREM ErasureHolds == Spec => []ErasedHidden
<1>1. SignalInv => ErasedHidden
  BY DEF SignalInv, StaysErased, ErasedHidden, Signal!ErasedHidden, Signal!Tail, Signal!HasBody
<1>2. QED BY <1>1, SignalStarts, SignalKeeps, PTL DEF Spec

\* A digest of the last answer opens with the messages its title counts
\* (signal/digest.go against signal/plugin.go's fetchTranscript).
THEOREM TitlesAgree == Spec => []TranscriptAgrees
<1>1. SignalInv => TranscriptAgrees
  <2> SUFFICES ASSUME SignalInv, query.kind = "fetch", query.expected > 0
               PROVE  /\ query.at # "notfound"
                      /\ query.at = "given" =>
                            Signal!Cardinality(Signal!Transcript(query.read, query.digest))
                              = query.expected
    BY DEF TranscriptAgrees, Signal!TranscriptAgrees
  <2>1. query.read \in [Signal!Messages -> Signal!Rows] /\ query.digest \in Signal!Digests
    BY DEF SignalInv, Signal!SignalTypeOK, Signal!Queries
  <2>2. QED BY <2>1, DaysCounted DEF SignalInv, CountStands
<1>2. QED BY <1>1, SignalStarts, SignalKeeps, PTL DEF Spec

LEMMA SignalShapes ==
  ASSUME SignalInv
  PROVE  /\ query \in Signal!Queries
         /\ Signal!MembersNow \in SUBSET Signal!Digests
         /\ Signal!StirredNow \in SUBSET Signal!Digests
         /\ Signal!ReplyNow.state = "pending" <=> Signal!Listing /\ Signal!Asking
<1>1. query \in Signal!Queries
  BY DEF SignalInv, Signal!SignalTypeOK
<1>2. Signal!MembersNow \in SUBSET Signal!Digests /\ Signal!StirredNow \in SUBSET Signal!Digests
  BY <1>1 DEF Signal!MembersNow, Signal!Members, Signal!Answered, Signal!StirredNow, Signal!Queries
<1>3. query.at # "pending"
  BY <1>1 DEF Signal!Queries
<1>4. Signal!ReplyNow.state = IF ~Signal!Listing \/ query.at = "idle" THEN "none"
                              ELSE IF Signal!Asking THEN "pending" ELSE query.at
  BY DEF Signal!ReplyNow
<1>5. Signal!ReplyNow.state = "pending" <=> Signal!Listing /\ Signal!Asking
  BY <1>3, <1>4 DEF Signal!Asking
<1>6. QED BY <1>1, <1>2, <1>5

LEMMA SignalAfter ==
  ASSUME SignalInv'
  PROVE  /\ Signal!MembersNow' \in SUBSET Signal!Digests
         /\ Signal!StirredNow' \in SUBSET Signal!Digests
<1>1. query' \in Signal!Queries
  BY DEF SignalInv, Signal!SignalTypeOK
<1>2. QED
  BY <1>1 DEF Signal!MembersNow, Signal!Members, Signal!Answered, Signal!StirredNow, Signal!Queries

LEMMA SignalStirs ==
  ASSUME SignalInv, SignalInv', Signal!ReplyNow' = Signal!ReplyNow,
         Signal!Listing /\ Signal!Asking =>
            /\ Signal!StirredNow \subseteq Signal!StirredNow'
            /\ \A d \in Signal!Digests \ Signal!StirredNow' :
                  d \in Signal!MembersNow <=> d \in Signal!MembersNow'
  PROVE  Signal!SignalContract!Next
<1>1. Signal!MembersNow' \in SUBSET Signal!Digests /\ Signal!StirredNow' \in SUBSET Signal!Digests
  BY SignalAfter
<1>2. Signal!ReplyNow.state = "pending" =>
        Signal!StirredNow \cup Signal!SignalContract!Differ(Signal!MembersNow, Signal!MembersNow')
          \subseteq Signal!StirredNow'
  BY <1>1, SignalShapes DEF Signal!SignalContract!Differ
<1>3. Signal!SignalContract!Stir
  BY <1>1, <1>2 DEF Signal!SignalContract!Stir
<1>4. QED BY <1>3 DEF Signal!SignalContract!Next

\* A step of the call over a database that stays as it is.
LEMMA SignalStands ==
  ASSUME UNCHANGED Signal!Database, query'.kind = query.kind, query'.stirred = query.stirred
  PROVE  Signal!MembersNow' = Signal!MembersNow /\ Signal!StirredNow' = Signal!StirredNow
BY DEF Signal!MembersNow, Signal!StirredNow, Signal!Listing, Signal!Members, Signal!Answered,
       Signal!Database

LEMMA SignalIdles ==
  ASSUME SignalInv, SignalInv', UNCHANGED Signal!Database, query'.kind = query.kind,
         query'.stirred = query.stirred, Signal!Listing => Signal!Asking /\ Signal!Asking'
  PROVE  Signal!SignalContract!Next
<1>1. Signal!ReplyNow' = Signal!ReplyNow
  <2>1. CASE Signal!Listing
    BY <2>1 DEF Signal!ReplyNow, Signal!Asking, Signal!Listing
  <2>2. CASE ~Signal!Listing
    BY <2>2 DEF Signal!ReplyNow, Signal!Listing
  <2>3. QED BY <2>1, <2>2
<1>2. QED BY <1>1, SignalStands, SignalStirs

LEMMA SignalRefuses ==
  ASSUME SignalInv, UNCHANGED Signal!Database, query'.kind = query.kind,
         query'.stirred = query.stirred, Signal!Listing, Signal!Asking, query'.at = "failed"
  PROVE  Signal!SignalContract!Next
<1>1. Signal!ReplyNow' = [state |-> "failed", items |-> {}]
  BY DEF Signal!ReplyNow, Signal!Asking, Signal!Listing
<1>2. Signal!SignalContract!Refuse("query")
  BY <1>1, SignalStands, SignalShapes DEF Signal!SignalContract!Refuse
<1>3. QED BY <1>2 DEF Signal!SignalContract!Next

LEMMA SignalGives ==
  ASSUME SignalInv, SignalInv', UNCHANGED Signal!Database, query'.kind = query.kind,
         query'.stirred = query.stirred, Signal!Listing, Signal!Asking, query'.at = "given",
         \A d \in Signal!Digests \ query.stirred :
            d \in Signal!Answered(query.kind, query'.found, query'.read) <=> d \in Signal!Members
  PROVE  Signal!SignalContract!Next
<1> DEFINE items == Signal!Answered(query.kind, query'.found, query'.read)
<1>1. items \in SUBSET Signal!Digests
  BY DEF Signal!Answered
<1>2. Signal!ReplyNow' = [state |-> "given", items |-> items]
  BY DEF Signal!ReplyNow, Signal!Asking, Signal!Listing
<1>3. Signal!MembersNow = Signal!Members /\ Signal!StirredNow = query.stirred
  BY DEF Signal!MembersNow, Signal!StirredNow
<1>4. /\ Signal!MembersNow \ Signal!StirredNow \subseteq items
      /\ items \subseteq Signal!MembersNow \cup Signal!StirredNow
  BY <1>1, <1>3, SignalShapes
<1> HIDE DEF items
<1>5. Signal!SignalContract!Give("query")
  BY <1>1, <1>2, <1>4, SignalStands, SignalShapes DEF Signal!SignalContract!Give
<1>6. QED BY <1>5 DEF Signal!SignalContract!Next

LEMMA SignalBegins ==
  ASSUME SignalInv, SignalInv', NEW kind \in {"match", "search", "fetch"},
         NEW d \in Signal!Digests, Signal!StartQuery(kind, d)
  PROVE  Signal!SignalContract!Next
<1>1. query'.kind = kind /\ query'.at = "open" /\ query'.stirred = {} /\ ~Signal!Asking
  BY UnaskedShape DEF Signal!StartQuery, Signal!Queries
<1>2. Signal!MembersNow' \in SUBSET Signal!Digests
  BY SignalAfter
<1>3. Signal!StirredNow' = {} /\ Signal!ReplyNow.state # "pending"
  BY <1>1, SignalShapes DEF Signal!StirredNow
<1>4. CASE kind # "fetch"
  <2>1. Signal!ReplyNow' = [state |-> "pending", items |-> {}]
    BY <1>1, <1>4 DEF Signal!ReplyNow, Signal!Listing, Signal!Asking
  <2>2. Signal!SignalContract!Begin("query")
    BY <1>2, <1>3, <2>1 DEF Signal!SignalContract!Begin
  <2>3. QED BY <2>2 DEF Signal!SignalContract!Next
<1>5. CASE kind = "fetch"
  <2>1. Signal!ReplyNow' = [state |-> "none", items |-> {}]
    BY <1>1, <1>5 DEF Signal!ReplyNow, Signal!Listing
  <2>2. Signal!SignalContract!Forget
    BY <1>2, <1>3, <2>1 DEF Signal!SignalContract!Forget, Signal!SignalContract!Nothing
  <2>3. QED BY <2>2 DEF Signal!SignalContract!Next
<1>6. QED BY <1>4, <1>5

LEMMA SignalMaps ==
  ASSUME SignalInv, SignalInv', Signal!Next
  PROVE  Signal!SignalContract!Next
<1>1. query \in Signal!Queries
  BY SignalShapes
<1>2. ASSUME NEW kind \in {"match", "search", "fetch"}, NEW d \in Signal!Digests,
             Signal!StartQuery(kind, d)
      PROVE  Signal!SignalContract!Next
  BY <1>2, SignalBegins
<1>3. CASE Signal!OpenGuarded \/ Signal!QueryFails
  <2>1. /\ UNCHANGED Signal!Database /\ Signal!Asking /\ query'.kind = query.kind
        /\ query'.stirred = query.stirred /\ query'.at \in {"convs", "failed"}
    <3>1. CASE Signal!OpenGuarded
      BY <1>1, <3>1 DEF Signal!OpenGuarded, Signal!Queries, Signal!Asking
    <3>2. CASE Signal!QueryFails
      BY <1>1, <3>2 DEF Signal!QueryFails, Signal!Queries
    <3>3. QED BY <1>3, <3>1, <3>2
  <2>2. CASE query'.at = "failed" /\ Signal!Listing
    BY <2>1, <2>2, SignalRefuses
  <2>3. CASE query'.at = "convs" \/ ~Signal!Listing
    BY <2>1, <2>3, SignalIdles DEF Signal!Asking
  <2>4. QED BY <2>1, <2>2, <2>3
<1>4. CASE Signal!ReadConversations
  <2>1. UNCHANGED Signal!Database /\ Signal!Asking
    BY <1>4 DEF Signal!ReadConversations, Signal!Database, Signal!Asking
  <2>2. CASE Signal!Listing /\ query'.found = {}
    <3>1. \A c \in Convs : ~(c # Self /\ c \in named)
      BY <1>4, <2>2, ConversationsRead DEF Signal!Listing, Signal!MatchesConversation
    <3>2. Signal!Members = {} /\ Signal!Answered(query.kind, query'.found, query'.read) = {}
      BY <2>2, <3>1 DEF Signal!Members, Signal!Answered
    <3>3. query'.at = "given"
      BY <1>4, <2>2, ConversationsRead DEF Signal!Listing
    <3>4. QED BY <1>4, <2>1, <2>2, <3>2, <3>3, ConversationsRead, SignalGives
  <2>3. CASE ~(Signal!Listing /\ query'.found = {})
    <3>1. query'.at = "messages"
      BY <1>4, <2>3, ConversationsRead DEF Signal!Listing
    <3>2. QED BY <1>4, <2>1, <3>1, ConversationsRead, SignalIdles DEF Signal!Asking
  <2>4. QED BY <2>2, <2>3
<1>5. CASE Signal!ReadMessages
  <2>1. UNCHANGED Signal!Database /\ Signal!Asking /\ query.at = "messages"
    BY <1>5 DEF Signal!ReadMessages, Signal!Database, Signal!Asking
  <2>2. CASE Signal!Listing
    <3>1. query'.at = "given"
      BY <1>5, <2>2, MessagesShape DEF Signal!Listing
    <3>2. ASSUME NEW d \in Signal!Digests \ query.stirred
          PROVE  d \in Signal!Answered(query.kind, query'.found, query'.read) <=> d \in Signal!Members
      <4>1. query'.read = rows
        BY <1>5, <2>1, <3>2, MessagesShape DEF SignalInv, Opened
      <4>2. d[1] \in query.found <=> d[1] # Self /\ d[1] \in named
        BY <2>1, <2>2 DEF SignalInv, FoundConvs, Signal!Listing, Signal!MatchesConversation
      <4>3. d[1] \in Convs
        BY SignalAssumed DEF Signal!SignalAssumption, Signal!Digests
      <4>4. query'.found = query.found
        BY <1>5, MessagesShape
      <4>5. QED BY <4>1, <4>2, <4>3, <4>4 DEF Signal!Members, Signal!Answered
    <3>3. QED BY <1>5, <2>1, <2>2, <3>1, <3>2, MessagesShape, SignalGives
  <2>3. CASE ~Signal!Listing
    BY <1>5, <2>1, <2>3, MessagesShape, SignalIdles
  <2>4. QED BY <2>2, <2>3
<1>6. CASE \/ \E m \in Signal!Messages : Signal!WriteMessage(m)
           \/ \E c \in Convs : Signal!Rename(c) \/ Signal!RenameProfile(c)
           \/ Signal!ChangeInstall
  <2>1. PICK D \in SUBSET Signal!Digests : Signal!Write(D) /\ Touches(D)
    BY <1>6, WriteSteps
  <2>2. /\ query'.kind = query.kind /\ query'.at = query.at /\ query'.found = query.found
        /\ query'.read = query.read /\ query'.stirred = query.stirred \cup D
    BY <2>1, WriteShape
  <2>3. Signal!ReplyNow' = Signal!ReplyNow
    BY <2>2 DEF Signal!ReplyNow, Signal!Listing, Signal!Asking, Signal!Answered
  <2>4. ASSUME Signal!Listing
        PROVE  /\ Signal!StirredNow' = Signal!StirredNow \cup D
               /\ Signal!MembersNow = Signal!Members /\ Signal!MembersNow' = Signal!Members'
    BY <2>2, <2>4 DEF Signal!StirredNow, Signal!MembersNow, Signal!Listing
  <2>5. ASSUME NEW d \in Signal!Digests \ D
        PROVE  d \in Signal!Members <=> d \in Signal!Members'
    <3>1. d[1] \in named' <=> d[1] \in named
      BY <2>1 DEF Touches
    <3>2. \A m \in Signal!OfDigest(d) : rows'[m] = rows[m]
      BY <2>1 DEF Touches
    <3>3. QED BY <2>2, <3>1, <3>2 DEF Signal!Members, Signal!Answered
  <2>6. QED BY <2>3, <2>4, <2>5, SignalStirs
<1>7. QED
  BY <1>2, <1>3, <1>4, <1>5, <1>6, UnaskedShape DEF Signal!Next, Signal!Step

\* Match and Search of Signal give whole answers while Signal Desktop writes
\* the database they read by separate queries (signal/plugin.go).
THEOREM SignalAnswered == Spec => SignalAnswers
<1>1. Init => Signal!SignalContract!Init
  <2> SUFFICES ASSUME Init PROVE Signal!SignalContract!Init
    OBVIOUS
  <2>1. query.at = "idle" /\ query.stirred = {}
    BY UnaskedShape DEF Init, Signal!Init
  <2>2. Signal!ReplyNow = [state |-> "none", items |-> {}] /\ Signal!StirredNow = {}
    BY <2>1 DEF Signal!ReplyNow, Signal!StirredNow
  <2>3. Signal!MembersNow \in SUBSET Signal!Digests
    BY SignalStarts, SignalShapes
  <2>4. QED BY <2>2, <2>3 DEF Signal!SignalContract!Init, Signal!SignalContract!Nothing
<1>2. SignalInv /\ SignalInv' /\ [Next]_vars
        => [chosen = "signal" => Signal!SignalContract!Next]_vars
  <2> SUFFICES ASSUME SignalInv, SignalInv', Next, chosen = "signal"
               PROVE  Signal!SignalContract!Next
    OBVIOUS
  <2>1. Signal!Next
    BY DEF Next, WhatsApp, Proton, Silverbullet, Paperless, Filesystem, SignalDesktop, Chats,
           DriveRequests, Install
  <2>2. QED BY <2>1, SignalMaps
<1>3. QED BY <1>1, <1>2, SignalStarts, SignalKeeps, PTL DEF Spec, SignalAnswers

-----------------------------------------------------------------------------
\* WhatsApp's readings

LEMMA ChatSteps == [Next]_vars => [chosen = "chats" /\ Chat!Next]_chatVars
<1>1. Chats => chosen = "chats" /\ Chat!Next
  BY DEF Chats
<1>2. WhatsApp \/ Proton \/ Silverbullet \/ Paperless \/ Filesystem \/ DriveRequests
        \/ SignalDesktop \/ Install => UNCHANGED chatVars
  BY DEF WhatsApp, Proton, Silverbullet, Paperless, Filesystem, DriveRequests, SignalDesktop,
         Install
<1>3. QED BY <1>1, <1>2 DEF Next, vars

\* A group's saved name, and a 1:1 chat's subject, stay empty.
NamesApart == subject \subseteq Groups /\ contact \subseteq Contacts

\* A title's count stands until its day is written; Fetch works towards it.
TitlesStand ==
    /\ \A d \in Chat!ChatDays :
          titled[d] > 0 => titled[d] = Chat!Cardinality(Chat!Recorded(stored, d))
    /\ reader.kind = "fetch" =>
          /\ reader.at \notin {"health", "chats"}
          /\ reader.expected > 0 =>
                /\ reader.at # "notfound"
                /\ reader.at = "messages" =>
                      reader.expected = Chat!Cardinality(Chat!Recorded(stored, reader.digest))
                /\ reader.at = "given" =>
                      reader.expected = Chat!Cardinality(Chat!Recorded(reader.read, reader.digest))

\* A call that got beyond the health was linked at some time of it.
SeenLinked ==
    /\ reader.at = "health" /\ healthy => reader.linked
    /\ Chat!Asks /\ reader.at \in {"chats", "messages", "given"} => reader.linked

\* The chats found are those that match, except where they changed.
FoundChats ==
    /\ reader.at \in {"health", "chats"} => reader.matched = {}
    /\ reader.at = "messages" /\ Chat!Asks =>
          \A d \in Chat!ChatDays \ reader.stirred :
             d[1] \in reader.matched <=> d[1] \in Chat!MatchedChats

ChatInv == Chat!ReaderTypeOK /\ NamesApart /\ TitlesStand /\ SeenLinked /\ FoundChats

LEMMA ChatAssumed == Chat!ChatReaderAssumption
BY SourcesAssumption

LEMMA NotesCounted ==
  ASSUME NEW S \in SUBSET Chat!Notes
  PROVE  /\ Chat!Cardinality(S) \in 0 .. LastNote
         /\ Chat!Cardinality(S) = 0 <=> S = {}
<1>1. LastNote \in Nat \ {0}
  BY ChatAssumed DEF Chat!ChatReaderAssumption
<1>2. IsFiniteSet(1 .. LastNote) /\ Cardinality(1 .. LastNote) = LastNote
  BY <1>1, FS_Interval
<1>3. IsFiniteSet(S) /\ Cardinality(S) \in Nat /\ Cardinality(S) <= LastNote
        /\ (Cardinality(S) = 0 <=> S = {})
  <2>1. S \in SUBSET (1 .. LastNote)
    BY DEF Chat!Notes
  <2>2. IsFiniteSet(S) /\ Cardinality(S) <= LastNote
    BY <1>2, <2>1, FS_Subset
  <2>3. QED BY <2>2, FS_CardinalityType, FS_EmptySet
<1>4. Chat!Cardinality(S) = Cardinality(S)
  BY DEF Chat!Cardinality, Cardinality
<1>5. QED BY <1>1, <1>3, <1>4

LEMMA RecordedCounted ==
  ASSUME NEW read, NEW d
  PROVE  /\ Chat!Cardinality(Chat!Recorded(read, d)) \in 0 .. LastNote
         /\ Chat!Cardinality(Chat!Recorded(read, d)) = 0 <=> Chat!Recorded(read, d) = {}
<1>1. Chat!Recorded(read, d) \in SUBSET Chat!Notes
  BY DEF Chat!Recorded, Chat!OfDay
<1>2. QED BY <1>1, NotesCounted

\* A call that ends without digests has no titles to keep to.
LEMMA TitlesShape ==
  ASSUME ChatInv, NEW D,
         titled' = titled \/ titled' = Chat!Untitled \/
         titled' = Chat!Titles(reader.kind, reader.matched, stored, D)
  PROVE  /\ titled' \in [Chat!ChatDays -> 0 .. LastNote]
         /\ \A d \in Chat!ChatDays :
               titled'[d] > 0 => titled'[d] = Chat!Cardinality(Chat!Recorded(stored, d))
<1>1. LastNote \in Nat
  BY ChatAssumed DEF Chat!ChatReaderAssumption
<1>2. CASE titled' = titled
  BY <1>2 DEF ChatInv, TitlesStand, Chat!ReaderTypeOK
<1>3. CASE titled' = Chat!Untitled
  BY <1>1, <1>3 DEF Chat!Untitled
<1>4. CASE titled' = Chat!Titles(reader.kind, reader.matched, stored, D)
  <2> DEFINE F == Chat!Digested(reader.kind, reader.matched, stored) \ D
  <2>1. titled' = [d \in Chat!ChatDays |-> IF d \in F THEN Chat!Cardinality(Chat!Recorded(stored, d)) ELSE 0]
    BY <1>4 DEF Chat!Titles
  <2> HIDE DEF F
  <2>2. \A d \in Chat!ChatDays : Chat!Cardinality(Chat!Recorded(stored, d)) \in 0 .. LastNote
    BY RecordedCounted
  <2>3. QED BY <1>1, <2>1, <2>2
<1>5. QED BY <1>2, <1>3, <1>4

LEMMA UnreadShape ==
  /\ Chat!Unread \in Chat!Readers /\ Chat!Unread.digest \in Chat!ChatDays
  /\ Chat!Unread.at = "idle" /\ Chat!Unread.stirred = {} /\ Chat!Unread.matched = {}
  /\ Chat!Unread.kind = "match" /\ Chat!Unread.expected = 0 /\ ~Chat!Unread.linked
<1>1. 1 \in Chat!Notes
  BY ChatAssumed DEF Chat!ChatReaderAssumption, Chat!Notes
<1>2. <<ChatOfNote[1], DayOfNote[1]>> \in Chat!ChatDays
  BY <1>1 DEF Chat!ChatDays
<1> DEFINE first == CHOOSE d \in Chat!ChatDays : TRUE
<1>3. first \in Chat!ChatDays
  BY <1>2
<1>4. Chat!Empty \in [Chat!Notes -> Chat!Bodies]
  BY DEF Chat!Empty, Chat!Bodies
<1>5. Chat!Unread = [kind |-> "match", at |-> "idle", groups |-> FALSE, contacts |-> FALSE,
                     digest |-> first, matched |-> {}, read |-> Chat!Empty,
                     linked |-> FALSE, stirred |-> {}, expected |-> 0]
  BY DEF Chat!Unread
<1> HIDE DEF first
<1>6. QED BY <1>3, <1>4, <1>5 DEF Chat!Readers

LEMMA ChatStarts == Init => ChatInv
<1> SUFFICES ASSUME Init PROVE ChatInv
  OBVIOUS
<1>1. Chat!Init /\ LastNote \in Nat /\ MaxChatWrites \in Nat
  BY ChatAssumed DEF Init, Chat!ChatReaderAssumption
<1>2. titled \in [Chat!ChatDays -> 0 .. LastNote] /\ \A d \in Chat!ChatDays : titled[d] = 0
  BY <1>1 DEF Chat!Init, Chat!Untitled
<1>3. stored \in [Chat!Notes -> Chat!Bodies]
  BY <1>1 DEF Chat!Init, Chat!Bodies
<1>4. NamesApart /\ subject \subseteq Chat!Chats /\ contact \subseteq Chat!Chats
  BY <1>1 DEF Chat!Init, NamesApart, Chat!Chats
<1>5. reader = Chat!Unread
  BY <1>1 DEF Chat!Init
<1>6. Chat!ReaderTypeOK
  BY <1>1, <1>2, <1>3, <1>4, <1>5, UnreadShape DEF Chat!Init, Chat!ReaderTypeOK
<1>7. QED
  BY <1>2, <1>4, <1>5, <1>6, UnreadShape
  DEF ChatInv, TitlesStand, SeenLinked, FoundChats

LEMMA ReadBegun ==
  ASSUME ChatInv, NEW kind \in {"match", "search"}, NEW groups \in BOOLEAN,
         NEW contacts \in BOOLEAN, Chat!StartRead(kind, groups, contacts)
  PROVE  ChatInv'
<1>1. UNCHANGED <<healthy, subject, contact, stored, chatWrites, titled>> /\ healthy \in BOOLEAN
  BY DEF Chat!StartRead, Chat!Store, ChatInv, Chat!ReaderTypeOK
<1>2. /\ reader' \in Chat!Readers /\ reader'.kind = kind /\ reader'.at = "health"
      /\ reader'.matched = {} /\ reader'.linked = healthy
  BY <1>1, UnreadShape DEF Chat!StartRead, Chat!Readers
<1>3. QED
  BY <1>1, <1>2
  DEF ChatInv, Chat!ReaderTypeOK, NamesApart, TitlesStand, SeenLinked, FoundChats

LEMMA TranscriptBegun ==
  ASSUME ChatInv, NEW d \in Chat!ChatDays, Chat!StartTranscript(d)
  PROVE  ChatInv'
<1>1. UNCHANGED <<healthy, subject, contact, stored, chatWrites, titled>>
  BY DEF Chat!StartTranscript, Chat!Store
<1>2. titled[d] \in Nat /\ d[1] \in Chat!Chats
  BY ChatAssumed DEF ChatInv, Chat!ReaderTypeOK, Chat!ChatReaderAssumption, Chat!ChatDays
<1>3. /\ reader' \in Chat!Readers /\ reader'.kind = "fetch" /\ reader'.at = "messages"
      /\ reader'.digest = d /\ reader'.expected = titled[d]
  BY <1>2, UnreadShape DEF Chat!StartTranscript, Chat!Readers
<1>4. QED
  BY <1>1, <1>3
  DEF ChatInv, Chat!ReaderTypeOK, NamesApart, TitlesStand, SeenLinked, FoundChats, Chat!Asks

\* What a step of a call leaves as it is.
LEMMA ReadShape ==
  ASSUME ChatInv, Chat!CheckHealth \/ Chat!ReadChats \/ Chat!ReadMessages \/ Chat!ReadFails
  PROVE  /\ UNCHANGED <<healthy, subject, contact, stored, chatWrites>>
         /\ reader' \in Chat!Readers /\ reader'.kind = reader.kind
         /\ reader'.groups = reader.groups /\ reader'.contacts = reader.contacts
         /\ reader'.digest = reader.digest /\ reader'.linked = reader.linked
         /\ reader'.stirred = reader.stirred /\ reader'.expected = reader.expected
         /\ Chat!Reading
         /\ reader.at = "health" =>
               /\ reader'.matched = reader.matched
               /\ reader'.at = IF ~healthy THEN "failed"
                               ELSE IF reader.groups \/ reader.contacts THEN "chats" ELSE "given"
         /\ reader.at = "chats" /\ reader'.at # "failed" =>
               /\ reader'.matched = {c \in Chat!Chats : Chat!Eligible(c, reader.groups, reader.contacts)}
               /\ reader'.at = IF reader'.matched = {} THEN "given" ELSE "messages"
         /\ reader.at = "messages" /\ reader'.at # "failed" =>
               /\ reader'.matched = reader.matched /\ reader'.read = stored
               /\ reader'.at = IF reader.kind = "fetch" /\ Chat!Recorded(stored, reader.digest) = {}
                                 THEN "notfound" ELSE "given"
<1>1. reader \in Chat!Readers /\ stored \in [Chat!Notes -> Chat!Bodies]
  BY DEF ChatInv, Chat!ReaderTypeOK
<1>2. UNCHANGED <<healthy, subject, contact, stored, chatWrites>> /\ Chat!Reading
  BY DEF Chat!CheckHealth, Chat!ReadChats, Chat!ReadMessages, Chat!ReadFails, Chat!Store,
         Chat!Reading
<1>3. CASE Chat!CheckHealth
  <2> DEFINE next == IF ~healthy THEN "failed"
                     ELSE IF reader.groups \/ reader.contacts THEN "chats" ELSE "given"
  <2>1. reader' = [reader EXCEPT !.at = next] /\ reader.at = "health"
          /\ next \in {"failed", "chats", "given"}
    BY <1>3 DEF Chat!CheckHealth
  <2> HIDE DEF next
  <2>2. /\ reader' \in Chat!Readers /\ reader'.kind = reader.kind
        /\ reader'.groups = reader.groups /\ reader'.contacts = reader.contacts
        /\ reader'.digest = reader.digest /\ reader'.linked = reader.linked
        /\ reader'.stirred = reader.stirred /\ reader'.expected = reader.expected
        /\ reader'.matched = reader.matched /\ reader'.at = next
    BY <1>1, <2>1 DEF Chat!Readers
  <2>3. QED BY <1>2, <2>1, <2>2 DEF next
<1>4. CASE Chat!ReadChats
  <2> DEFINE M == {c \in Chat!Chats : Chat!Eligible(c, reader.groups, reader.contacts)}
             next == IF M = {} THEN "given" ELSE "messages"
  <2>1. reader' = [reader EXCEPT !.matched = M, !.at = next] /\ reader.at = "chats"
    BY <1>4 DEF Chat!ReadChats
  <2>2. M \in SUBSET Chat!Chats /\ next \in {"given", "messages"}
    OBVIOUS
  <2> HIDE DEF M, next
  <2>3. /\ reader' \in Chat!Readers /\ reader'.kind = reader.kind
        /\ reader'.groups = reader.groups /\ reader'.contacts = reader.contacts
        /\ reader'.digest = reader.digest /\ reader'.linked = reader.linked
        /\ reader'.stirred = reader.stirred /\ reader'.expected = reader.expected
        /\ reader'.matched = M /\ reader'.at = next
    BY <1>1, <2>1, <2>2 DEF Chat!Readers
  <2>4. QED BY <1>2, <2>1, <2>3 DEF next, M
<1>5. CASE Chat!ReadMessages
  <2> DEFINE next == IF reader.kind = "fetch" /\ Chat!Recorded(stored, reader.digest) = {}
                       THEN "notfound" ELSE "given"
  <2>1. reader' = [reader EXCEPT !.read = stored, !.at = next] /\ reader.at = "messages"
    BY <1>5 DEF Chat!ReadMessages
  <2>2. next \in {"given", "notfound"}
    OBVIOUS
  <2> HIDE DEF next
  <2>3. /\ reader' \in Chat!Readers /\ reader'.kind = reader.kind
        /\ reader'.groups = reader.groups /\ reader'.contacts = reader.contacts
        /\ reader'.digest = reader.digest /\ reader'.linked = reader.linked
        /\ reader'.stirred = reader.stirred /\ reader'.expected = reader.expected
        /\ reader'.matched = reader.matched /\ reader'.read = stored /\ reader'.at = next
    BY <1>1, <2>1, <2>2 DEF Chat!Readers
  <2>4. QED BY <1>2, <2>1, <2>3 DEF next
<1>6. CASE Chat!ReadFails
  BY <1>1, <1>2, <1>6 DEF Chat!ReadFails, Chat!Readers
<1>7. QED BY <1>3, <1>4, <1>5, <1>6

LEMMA EligibleMatched ==
  ASSUME NamesApart, NEW c \in Chat!Chats
  PROVE  Chat!Eligible(c, reader.groups, reader.contacts) <=> c \in Chat!MatchedChats
BY ChatAssumed DEF NamesApart, Chat!Eligible, Chat!MatchedChats, Chat!Chats, Chat!ChatReaderAssumption

LEMMA ReadGoes ==
  ASSUME ChatInv, Chat!CheckHealth \/ Chat!ReadChats \/ Chat!ReadMessages \/ Chat!ReadFails
  PROVE  ChatInv'
<1>1. /\ titled' \in [Chat!ChatDays -> 0 .. LastNote]
      /\ \A d \in Chat!ChatDays :
            titled'[d] > 0 => titled'[d] = Chat!Cardinality(Chat!Recorded(stored, d))
  <2>1. \/ titled' = titled \/ titled' = Chat!Untitled
        \/ titled' = Chat!Titles(reader.kind, reader.matched, stored, reader.stirred)
    BY DEF Chat!CheckHealth, Chat!ReadChats, Chat!ReadMessages, Chat!ReadFails
  <2>2. QED BY <2>1, TitlesShape
<1>2. reader.at \in {"health", "chats", "messages"} /\ healthy \in BOOLEAN
  BY ReadShape DEF Chat!Reading, ChatInv, Chat!ReaderTypeOK
<1>3. Chat!ReaderTypeOK' /\ NamesApart'
  BY <1>1, ReadShape DEF ChatInv, Chat!ReaderTypeOK, NamesApart
<1>4. reader.at = "health" => reader'.at \in {"failed", "chats", "given"}
  BY ReadShape
<1>5. reader.at = "chats" => reader'.at \in {"failed", "messages", "given"}
  BY ReadShape
<1>6. reader.at = "messages" => reader'.at \in {"failed", "notfound", "given"}
  BY ReadShape
<1>7. ASSUME reader.kind = "fetch", reader.expected > 0
      PROVE  /\ reader'.at \in {"given", "failed"}
             /\ reader'.at = "given" =>
                  reader.expected = Chat!Cardinality(Chat!Recorded(reader'.read, reader.digest))
  <2>1. reader.at = "messages"
          /\ reader.expected = Chat!Cardinality(Chat!Recorded(stored, reader.digest))
    BY <1>2, <1>7 DEF ChatInv, TitlesStand
  <2>2. Chat!Recorded(stored, reader.digest) # {}
    BY <1>7, <2>1, RecordedCounted
  <2>3. QED BY <2>1, <2>2, ReadShape
<1>8. TitlesStand'
  BY <1>1, <1>2, <1>4, <1>5, <1>6, <1>7, ReadShape DEF ChatInv, TitlesStand
<1>9. SeenLinked'
  <2>1. Chat!Asks' <=> Chat!Asks
    BY ReadShape DEF Chat!Asks
  <2>2. reader.at = "health" /\ reader'.at \in {"chats", "messages", "given"} => healthy
    BY ReadShape
  <2>3. QED BY <1>2, <1>4, <1>5, <1>6, <2>1, <2>2, ReadShape DEF ChatInv, SeenLinked
<1>10. FoundChats'
  <2>1. reader'.at \in {"health", "chats"} => reader'.matched = {}
    BY <1>2, <1>4, <1>5, <1>6, ReadShape DEF ChatInv, FoundChats
  <2>2. ASSUME reader'.at = "messages", NEW d \in Chat!ChatDays
        PROVE  d[1] \in reader'.matched <=> d[1] \in Chat!MatchedChats'
    <3>1. reader'.matched = {c \in Chat!Chats : Chat!Eligible(c, reader.groups, reader.contacts)}
      BY <1>2, <1>4, <1>6, <2>2, ReadShape
    <3>2. d[1] \in Chat!Chats
      BY ChatAssumed DEF Chat!ChatReaderAssumption, Chat!ChatDays
    <3>3. Chat!MatchedChats' = Chat!MatchedChats
      BY ReadShape DEF Chat!MatchedChats
    <3>4. QED BY <3>1, <3>2, <3>3, EligibleMatched DEF ChatInv
  <2>3. QED BY <2>1, <2>2 DEF FoundChats
<1>11. QED BY <1>3, <1>8, <1>9, <1>10 DEF ChatInv

\* A write of the event goroutines' changes no more than the days it touches.
Reaches(D) ==
    /\ stored' \in [Chat!Notes -> Chat!Bodies]
    /\ subject' \subseteq Groups /\ contact' \subseteq Contacts
    /\ \A d \in Chat!ChatDays \ D :
          /\ \A n \in Chat!OfDay(d) : stored'[n] = stored[n]
          /\ d[1] \in subject' <=> d[1] \in subject
          /\ d[1] \in contact' <=> d[1] \in contact

LEMMA WroteShape ==
  ASSUME ChatInv, NEW D \in SUBSET Chat!ChatDays, Chat!Wrote(D)
  PROVE  /\ reader' \in Chat!Readers /\ reader'.kind = reader.kind /\ reader'.at = reader.at
         /\ reader'.groups = reader.groups /\ reader'.contacts = reader.contacts
         /\ reader'.digest = reader.digest /\ reader'.matched = reader.matched
         /\ reader'.read = reader.read /\ reader'.linked = reader.linked
         /\ reader'.stirred = reader.stirred \cup D
         /\ reader'.expected = IF reader.digest \in D THEN 0 ELSE reader.expected
         /\ titled' \in [Chat!ChatDays -> 0 .. LastNote]
         /\ \A d \in Chat!ChatDays : titled'[d] = IF d \in D THEN 0 ELSE titled[d]
         /\ chatWrites' \in 0 .. MaxChatWrites
<1>1. /\ reader \in Chat!Readers /\ titled \in [Chat!ChatDays -> 0 .. LastNote]
      /\ chatWrites \in 0 .. MaxChatWrites /\ LastNote \in Nat /\ MaxChatWrites \in Nat
  BY ChatAssumed DEF ChatInv, Chat!ReaderTypeOK, Chat!ChatReaderAssumption
<1>2. /\ titled' \in [Chat!ChatDays -> 0 .. LastNote]
      /\ \A d \in Chat!ChatDays : titled'[d] = IF d \in D THEN 0 ELSE titled[d]
      /\ chatWrites' \in 0 .. MaxChatWrites
  BY <1>1 DEF Chat!Wrote
<1> DEFINE count == IF reader.digest \in D THEN 0 ELSE reader.expected
<1>3. reader' = [reader EXCEPT !.stirred = reader.stirred \cup D, !.expected = count]
        /\ count \in Nat
  BY <1>1 DEF Chat!Wrote, Chat!Readers
<1> HIDE DEF count
<1>4. /\ reader' \in Chat!Readers /\ reader'.kind = reader.kind /\ reader'.at = reader.at
      /\ reader'.groups = reader.groups /\ reader'.contacts = reader.contacts
      /\ reader'.digest = reader.digest /\ reader'.matched = reader.matched
      /\ reader'.read = reader.read /\ reader'.linked = reader.linked
      /\ reader'.stirred = reader.stirred \cup D /\ reader'.expected = count
  BY <1>1, <1>3 DEF Chat!Readers
<1>5. QED BY <1>2, <1>4 DEF count

LEMMA WroteSteps ==
  ASSUME ChatInv,
         (\E n \in Chat!Notes : Chat!WriteNote(n)) \/ (\E c \in Chat!Chats : Chat!WriteName(c))
  PROVE  \E D \in SUBSET Chat!ChatDays : Chat!Wrote(D) /\ Reaches(D) /\ healthy' = healthy
<1>1. /\ stored \in [Chat!Notes -> Chat!Bodies]
      /\ subject \subseteq Groups /\ contact \subseteq Contacts
  BY DEF ChatInv, Chat!ReaderTypeOK, NamesApart
<1>2. ASSUME NEW n \in Chat!Notes, Chat!WriteNote(n)
      PROVE  \E D \in SUBSET Chat!ChatDays : Chat!Wrote(D) /\ Reaches(D) /\ healthy' = healthy
  <2> DEFINE D == {<<ChatOfNote[n], DayOfNote[n]>>}
  <2>1. Chat!Wrote(D) /\ UNCHANGED <<healthy, subject, contact>>
    BY <1>2 DEF Chat!WriteNote
  <2>2. PICK b \in Chat!Bodies \ {"none", stored[n]} : stored' = [stored EXCEPT ![n] = b]
    BY <1>2 DEF Chat!WriteNote
  <2>3. D \in SUBSET Chat!ChatDays
    BY DEF Chat!ChatDays
  <2>4. \A d \in Chat!ChatDays \ D : n \notin Chat!OfDay(d)
    BY DEF Chat!OfDay
  <2> HIDE DEF D
  <2>5. stored' \in [Chat!Notes -> Chat!Bodies]
    BY <1>1, <2>2
  <2>6. \A m \in Chat!Notes \ {n} : stored'[m] = stored[m]
    BY <1>1, <2>2
  <2>7. \A d \in Chat!ChatDays \ D : \A m \in Chat!OfDay(d) : stored'[m] = stored[m]
    BY <2>4, <2>6 DEF Chat!OfDay
  <2>8. QED BY <1>1, <2>1, <2>3, <2>5, <2>7 DEF Reaches
<1>3. ASSUME NEW c \in Chat!Chats, Chat!WriteName(c)
      PROVE  \E D \in SUBSET Chat!ChatDays : Chat!Wrote(D) /\ Reaches(D) /\ healthy' = healthy
  <2> DEFINE D == {d \in Chat!ChatDays : d[1] = c}
  <2>1. Chat!Wrote(D) /\ UNCHANGED <<healthy, stored>> /\ D \in SUBSET Chat!ChatDays
    BY <1>3 DEF Chat!WriteName
  <2>2. c \in Groups \/ c \in Contacts
    BY DEF Chat!Chats
  <2>3. /\ subject' \subseteq Groups /\ contact' \subseteq Contacts
        /\ \A b : b # c => (b \in subject' <=> b \in subject) /\ (b \in contact' <=> b \in contact)
    <3>1. CASE c \in Groups
      BY <1>1, <1>3, <3>1 DEF Chat!WriteName
    <3>2. CASE c \notin Groups
      BY <1>1, <1>3, <2>2, <3>2 DEF Chat!WriteName
    <3>3. QED BY <3>1, <3>2
  <2>4. \A d \in Chat!ChatDays \ D : /\ d[1] \in subject' <=> d[1] \in subject
                                     /\ d[1] \in contact' <=> d[1] \in contact
    BY <2>3
  <2> HIDE DEF D
  <2>5. QED BY <1>1, <2>1, <2>3, <2>4 DEF Reaches
<1>4. QED BY <1>2, <1>3

LEMMA WroteKeeps ==
  ASSUME ChatInv, NEW D \in SUBSET Chat!ChatDays, Chat!Wrote(D), Reaches(D), healthy' = healthy
  PROVE  ChatInv'
<1>1. reader \in Chat!Readers
  BY DEF ChatInv, Chat!ReaderTypeOK
<1>2. NamesApart' /\ subject' \subseteq Chat!Chats /\ contact' \subseteq Chat!Chats
  BY DEF Reaches, NamesApart, Chat!Chats
<1>3. Chat!ReaderTypeOK'
  BY <1>2, WroteShape DEF ChatInv, Chat!ReaderTypeOK, Reaches
<1>4. ASSUME NEW d \in Chat!ChatDays \ D PROVE Chat!Recorded(stored', d) = Chat!Recorded(stored, d)
  BY DEF Reaches, Chat!Recorded
<1>5. TitlesStand'
  <2>1. ASSUME NEW d \in Chat!ChatDays, titled'[d] > 0
        PROVE  titled'[d] = Chat!Cardinality(Chat!Recorded(stored', d))
    BY <1>4, <2>1, WroteShape DEF ChatInv, TitlesStand
  <2>2. reader.digest \in Chat!ChatDays
    BY <1>1 DEF Chat!Readers
  <2>3. ASSUME reader'.expected > 0
        PROVE  /\ reader'.expected = reader.expected /\ reader.expected > 0
               /\ Chat!Recorded(stored', reader.digest) = Chat!Recorded(stored, reader.digest)
    BY <1>4, <2>2, <2>3, WroteShape
  <2>4. QED BY <2>1, <2>3, WroteShape DEF ChatInv, TitlesStand
<1>6. SeenLinked'
  BY WroteShape DEF ChatInv, SeenLinked, Chat!Asks
<1>7. \A d \in Chat!ChatDays \ D : d[1] \in Chat!MatchedChats' <=> d[1] \in Chat!MatchedChats
  BY WroteShape DEF Reaches, Chat!MatchedChats
<1>8. FoundChats'
  BY <1>7, WroteShape DEF ChatInv, FoundChats, Chat!Asks
<1>9. QED BY <1>2, <1>3, <1>5, <1>6, <1>8 DEF ChatInv

LEMMA HealthShape ==
  ASSUME ChatInv, Chat!SetHealth
  PROVE  /\ UNCHANGED <<subject, contact, stored, titled>> /\ healthy' \in BOOLEAN
         /\ chatWrites' \in 0 .. MaxChatWrites
         /\ reader' \in Chat!Readers /\ reader'.kind = reader.kind /\ reader'.at = reader.at
         /\ reader'.groups = reader.groups /\ reader'.contacts = reader.contacts
         /\ reader'.digest = reader.digest /\ reader'.matched = reader.matched
         /\ reader'.read = reader.read /\ reader'.stirred = reader.stirred
         /\ reader'.expected = reader.expected
         /\ reader'.linked = (reader.linked \/ (Chat!Reading /\ healthy'))
<1>1. /\ reader \in Chat!Readers /\ healthy \in BOOLEAN /\ chatWrites \in 0 .. MaxChatWrites
      /\ MaxChatWrites \in Nat
  BY ChatAssumed DEF ChatInv, Chat!ReaderTypeOK, Chat!ChatReaderAssumption
<1>2. /\ UNCHANGED <<subject, contact, stored, titled>> /\ healthy' = ~healthy
      /\ chatWrites' \in 0 .. MaxChatWrites
  BY <1>1 DEF Chat!SetHealth
<1> DEFINE was == reader.linked \/ (Chat!Reading /\ healthy')
<1>3. reader' = [reader EXCEPT !.linked = @ \/ (Chat!Reading /\ healthy')] /\ was \in BOOLEAN
  BY DEF Chat!SetHealth
<1>4. reader'.linked = was
  BY <1>1, <1>3 DEF Chat!Readers
<1>5. reader' = [reader EXCEPT !.linked = was]
  BY <1>3
<1> HIDE DEF was
<1>6. /\ reader' \in Chat!Readers /\ reader'.kind = reader.kind /\ reader'.at = reader.at
      /\ reader'.groups = reader.groups /\ reader'.contacts = reader.contacts
      /\ reader'.digest = reader.digest /\ reader'.matched = reader.matched
      /\ reader'.read = reader.read /\ reader'.stirred = reader.stirred
      /\ reader'.expected = reader.expected
  BY <1>1, <1>3, <1>5 DEF Chat!Readers
<1>7. QED BY <1>2, <1>4, <1>6 DEF was

LEMMA HealthSet ==
  ASSUME ChatInv, Chat!SetHealth
  PROVE  ChatInv'
<1>1. Chat!ReaderTypeOK' /\ NamesApart' /\ TitlesStand'
  BY HealthShape DEF ChatInv, Chat!ReaderTypeOK, NamesApart, TitlesStand
<1>2. SeenLinked'
  BY HealthShape DEF ChatInv, SeenLinked, Chat!Asks, Chat!Reading
<1>3. FoundChats'
  BY HealthShape DEF ChatInv, FoundChats, Chat!Asks, Chat!MatchedChats
<1>4. QED BY <1>1, <1>2, <1>3 DEF ChatInv

LEMMA ChatKeeps == ChatInv /\ [Next]_vars => ChatInv'
<1> SUFFICES ASSUME ChatInv, [Next]_vars PROVE ChatInv'
  OBVIOUS
<1>1. CASE Chat!Next
  <2>1. CASE (\E n \in Chat!Notes : Chat!WriteNote(n)) \/ (\E c \in Chat!Chats : Chat!WriteName(c))
    BY <2>1, WroteSteps, WroteKeeps
  <2>2. QED BY <1>1, <2>1, ReadBegun, TranscriptBegun, ReadGoes, HealthSet DEF Chat!Next
<1>2. CASE UNCHANGED chatVars
  BY <1>2
  DEF chatVars, ChatInv, Chat!ReaderTypeOK, NamesApart, TitlesStand, SeenLinked, FoundChats,
      Chat!Asks, Chat!MatchedChats
<1>3. QED BY <1>1, <1>2, ChatSteps

\* No answer of a session that was down all along; and what was listed opens,
\* with the messages its title counts (whatsapp/plugin.go).
THEOREM SilenceRefused == Spec => []NeverSilent
<1>1. ChatInv => NeverSilent
  BY DEF ChatInv, SeenLinked, TitlesStand, NeverSilent, Chat!NeverSilent
<1>2. QED BY <1>1, ChatStarts, ChatKeeps, PTL DEF Spec

LEMMA ChatShapes ==
  ASSUME ChatInv
  PROVE  /\ reader \in Chat!Readers
         /\ Chat!MembersNow \in SUBSET Chat!ChatDays
         /\ Chat!StirredNow \in SUBSET Chat!ChatDays
         /\ Chat!ReplyNow.state = "pending" <=> Chat!Asks /\ Chat!Reading
<1>1. reader \in Chat!Readers
  BY DEF ChatInv, Chat!ReaderTypeOK
<1>2. Chat!MembersNow \in SUBSET Chat!ChatDays /\ Chat!StirredNow \in SUBSET Chat!ChatDays
  BY <1>1 DEF Chat!MembersNow, Chat!Digested, Chat!StirredNow, Chat!Readers
<1>3. reader.at # "pending"
  BY <1>1 DEF Chat!Readers
<1>4. Chat!ReplyNow.state = IF ~Chat!Asks \/ reader.at = "idle" THEN "none"
                            ELSE IF Chat!Reading THEN "pending" ELSE reader.at
  BY DEF Chat!ReplyNow
<1>5. Chat!ReplyNow.state = "pending" <=> Chat!Asks /\ Chat!Reading
  BY <1>3, <1>4 DEF Chat!Reading
<1>6. QED BY <1>1, <1>2, <1>5

LEMMA ChatAfter ==
  ASSUME ChatInv'
  PROVE  Chat!MembersNow' \in SUBSET Chat!ChatDays /\ Chat!StirredNow' \in SUBSET Chat!ChatDays
<1>1. reader' \in Chat!Readers
  BY DEF ChatInv, Chat!ReaderTypeOK
<1>2. QED BY <1>1 DEF Chat!MembersNow, Chat!Digested, Chat!StirredNow, Chat!Readers

LEMMA ChatStirs ==
  ASSUME ChatInv, ChatInv', Chat!ReplyNow' = Chat!ReplyNow,
         Chat!Asks /\ Chat!Reading =>
            /\ Chat!StirredNow \subseteq Chat!StirredNow'
            /\ \A d \in Chat!ChatDays \ Chat!StirredNow' :
                  d \in Chat!MembersNow <=> d \in Chat!MembersNow'
  PROVE  Chat!ChatContract!Next
<1>1. Chat!MembersNow' \in SUBSET Chat!ChatDays /\ Chat!StirredNow' \in SUBSET Chat!ChatDays
  BY ChatAfter
<1>2. Chat!ReplyNow.state = "pending" =>
        Chat!StirredNow \cup Chat!ChatContract!Differ(Chat!MembersNow, Chat!MembersNow')
          \subseteq Chat!StirredNow'
  BY <1>1, ChatShapes DEF Chat!ChatContract!Differ
<1>3. Chat!ChatContract!Stir
  BY <1>1, <1>2 DEF Chat!ChatContract!Stir
<1>4. QED BY <1>3 DEF Chat!ChatContract!Next

LEMMA ChatBegins ==
  ASSUME ChatInv, ChatInv',
         \/ \E kind \in {"match", "search"}, groups, contacts \in BOOLEAN :
               Chat!StartRead(kind, groups, contacts)
         \/ \E d \in Chat!ChatDays : Chat!StartTranscript(d)
  PROVE  Chat!ChatContract!Next
<1>1. Chat!MembersNow' \in SUBSET Chat!ChatDays
  BY ChatAfter
<1>2. reader'.stirred = {} /\ ~Chat!Reading
  BY UnreadShape DEF Chat!StartRead, Chat!StartTranscript, Chat!Readers
<1>3. Chat!StirredNow' = {} /\ Chat!ReplyNow.state # "pending"
  BY <1>2, ChatShapes DEF Chat!StirredNow
<1>4. CASE \E kind \in {"match", "search"}, groups, contacts \in BOOLEAN :
              Chat!StartRead(kind, groups, contacts)
  <2>1. reader'.kind # "fetch" /\ reader'.at = "health"
    BY <1>4, UnreadShape DEF Chat!StartRead, Chat!Readers
  <2>2. Chat!ReplyNow' = [state |-> "pending", items |-> {}]
    BY <2>1 DEF Chat!ReplyNow, Chat!Asks, Chat!Reading
  <2>3. Chat!ChatContract!Begin("reader")
    BY <1>1, <1>3, <2>2 DEF Chat!ChatContract!Begin
  <2>4. QED BY <2>3 DEF Chat!ChatContract!Next
<1>5. CASE \E d \in Chat!ChatDays : Chat!StartTranscript(d)
  <2>1. reader'.kind = "fetch"
    BY <1>5, UnreadShape DEF Chat!StartTranscript, Chat!Readers
  <2>2. Chat!ReplyNow' = [state |-> "none", items |-> {}]
    BY <2>1 DEF Chat!ReplyNow, Chat!Asks
  <2>3. Chat!ChatContract!Forget
    BY <1>1, <1>3, <2>2 DEF Chat!ChatContract!Forget, Chat!ChatContract!Nothing
  <2>4. QED BY <2>3 DEF Chat!ChatContract!Next
<1>6. QED BY <1>4, <1>5

LEMMA ChatReads ==
  ASSUME ChatInv, ChatInv',
         Chat!CheckHealth \/ Chat!ReadChats \/ Chat!ReadMessages \/ Chat!ReadFails
  PROVE  Chat!ChatContract!Next
<1>1. /\ Chat!Asks' <=> Chat!Asks
      /\ reader.at \in {"health", "chats", "messages"}
  BY ReadShape DEF Chat!Asks, Chat!Reading
<1>2. Chat!MatchedChats' = Chat!MatchedChats /\ Chat!Reading
  BY ReadShape DEF Chat!MatchedChats
<1>3. Chat!MembersNow' = Chat!MembersNow /\ Chat!StirredNow' = Chat!StirredNow
  BY <1>1, <1>2, ReadShape DEF Chat!MembersNow, Chat!StirredNow, Chat!Digested
<1>4. CASE ~Chat!Asks
  <2>1. Chat!ReplyNow' = Chat!ReplyNow
    BY <1>1, <1>4 DEF Chat!ReplyNow
  <2>2. QED BY <1>4, <2>1, ChatStirs
<1>5. CASE Chat!Asks /\ Chat!Reading'
  <2>1. Chat!ReplyNow' = Chat!ReplyNow
    BY <1>1, <1>2, <1>5 DEF Chat!ReplyNow, Chat!Reading
  <2>2. QED BY <1>3, <2>1, ChatStirs
<1>6. CASE Chat!Asks /\ reader'.at = "failed"
  <2>1. Chat!ReplyNow' = [state |-> "failed", items |-> {}]
    BY <1>1, <1>6 DEF Chat!ReplyNow, Chat!Reading
  <2>2. Chat!ChatContract!Refuse("reader")
    BY <1>2, <1>3, <1>6, <2>1, ChatShapes DEF Chat!ChatContract!Refuse
  <2>3. QED BY <2>2 DEF Chat!ChatContract!Next
<1>7. CASE Chat!Asks /\ reader'.at = "given"
  <2> DEFINE items == Chat!Digested(reader.kind, reader'.matched, reader'.read)
  <2>1. items \in SUBSET Chat!ChatDays
    BY DEF Chat!Digested
  <2>2. ASSUME NEW d \in Chat!ChatDays \ reader.stirred
        PROVE  d \in items <=> d \in Chat!Digested(reader.kind, Chat!MatchedChats, stored)
    <3>1. CASE reader.at = "messages"
      <4>1. reader'.read = stored /\ reader'.matched = reader.matched
        BY <1>7, <3>1, ReadShape
      <4>2. d[1] \in reader.matched <=> d[1] \in Chat!MatchedChats
        BY <1>7, <3>1 DEF ChatInv, FoundChats
      <4>3. QED BY <4>1, <4>2 DEF Chat!Digested
    <3>2. CASE reader.at = "health"
      <4>1. reader'.matched = {} /\ ~reader.groups /\ ~reader.contacts
        BY <1>7, <3>2, ReadShape DEF ChatInv, FoundChats
      <4>2. QED BY <4>1 DEF Chat!Digested, Chat!MatchedChats
    <3>3. CASE reader.at = "chats"
      <4>1. reader'.matched = {}
              /\ \A c \in Chat!Chats : ~Chat!Eligible(c, reader.groups, reader.contacts)
        BY <1>7, <3>3, ReadShape
      <4>2. d[1] \in Chat!Chats
        BY ChatAssumed DEF Chat!ChatReaderAssumption, Chat!ChatDays
      <4>3. d[1] \notin Chat!MatchedChats
        BY <4>1, <4>2, EligibleMatched DEF ChatInv
      <4>4. QED BY <4>1, <4>3 DEF Chat!Digested
    <3>4. QED BY <1>1, <3>1, <3>2, <3>3
  <2>3. Chat!ReplyNow' = [state |-> "given", items |-> items]
    BY <1>1, <1>7, ReadShape DEF Chat!ReplyNow, Chat!Reading, Chat!Digested
  <2>4. /\ Chat!MembersNow = Chat!Digested(reader.kind, Chat!MatchedChats, stored)
        /\ Chat!StirredNow = reader.stirred
    BY <1>7 DEF Chat!MembersNow, Chat!StirredNow
  <2> HIDE DEF items
  <2>5. /\ Chat!MembersNow \ Chat!StirredNow \subseteq items
        /\ items \subseteq Chat!MembersNow \cup Chat!StirredNow
    BY <2>1, <2>2, <2>4, ChatShapes
  <2>6. Chat!ChatContract!Give("reader")
    BY <1>2, <1>3, <1>7, <2>1, <2>3, <2>5, ChatShapes DEF Chat!ChatContract!Give
  <2>7. QED BY <2>6 DEF Chat!ChatContract!Next
<1>8. Chat!Asks => Chat!Reading' \/ reader'.at \in {"failed", "given"}
  <2>1. CASE reader.at = "health"
    BY <2>1, ReadShape DEF Chat!Reading
  <2>2. CASE reader.at = "chats"
    BY <2>2, ReadShape DEF Chat!Reading
  <2>3. CASE reader.at = "messages"
    BY <2>3, ReadShape DEF Chat!Reading, Chat!Asks
  <2>4. QED BY <1>1, <2>1, <2>2, <2>3
<1>9. QED BY <1>4, <1>5, <1>6, <1>7, <1>8

LEMMA ChatMaps ==
  ASSUME ChatInv, ChatInv', Chat!Next
  PROVE  Chat!ChatContract!Next
<1>1. CASE (\E n \in Chat!Notes : Chat!WriteNote(n)) \/ (\E c \in Chat!Chats : Chat!WriteName(c))
  <2>1. PICK D \in SUBSET Chat!ChatDays : Chat!Wrote(D) /\ Reaches(D) /\ healthy' = healthy
    BY <1>1, WroteSteps
  <2>2. Chat!ReplyNow' = Chat!ReplyNow
    <3>1. /\ Chat!Asks' <=> Chat!Asks
          /\ Chat!Reading' <=> Chat!Reading
      BY <2>1, WroteShape DEF Chat!Asks, Chat!Reading
    <3>2. /\ reader'.kind = reader.kind /\ reader'.at = reader.at
          /\ reader'.matched = reader.matched /\ reader'.read = reader.read
      BY <2>1, WroteShape
    <3>3. QED BY <3>1, <3>2 DEF Chat!ReplyNow, Chat!Digested
  <2>3. \A d \in Chat!ChatDays \ D : d[1] \in Chat!MatchedChats' <=> d[1] \in Chat!MatchedChats
    BY <2>1, WroteShape DEF Reaches, Chat!MatchedChats
  <2>4. \A d \in Chat!ChatDays \ D : \A n \in Chat!OfDay(d) : stored'[n] = stored[n]
    BY <2>1 DEF Reaches
  <2>5. Chat!Asks => /\ Chat!StirredNow' = Chat!StirredNow \cup D
                     /\ \A d \in Chat!ChatDays \ D :
                           d \in Chat!MembersNow <=> d \in Chat!MembersNow'
    BY <2>1, <2>3, <2>4, WroteShape DEF Chat!StirredNow, Chat!MembersNow, Chat!Asks, Chat!Digested
  <2>6. QED BY <2>2, <2>5, ChatStirs
<1>2. CASE Chat!SetHealth
  <2>1. Chat!ReplyNow' = Chat!ReplyNow
    BY <1>2, HealthShape DEF Chat!ReplyNow, Chat!Asks, Chat!Reading, Chat!Digested
  <2>2. Chat!MembersNow' = Chat!MembersNow /\ Chat!StirredNow' = Chat!StirredNow
    BY <1>2, HealthShape
    DEF Chat!MembersNow, Chat!StirredNow, Chat!Asks, Chat!Digested, Chat!MatchedChats
  <2>3. QED BY <2>1, <2>2, ChatStirs
<1>3. QED BY <1>1, <1>2, ChatBegins, ChatReads DEF Chat!Next

\* Match and Search of WhatsApp give whole answers although two statements
\* read them while events write (whatsapp/plugin.go).
THEOREM ChatAnswered == Spec => ChatAnswers
<1>1. Init => Chat!ChatContract!Init
  <2> SUFFICES ASSUME Init PROVE Chat!ChatContract!Init
    OBVIOUS
  <2>1. reader.at = "idle" /\ reader.stirred = {}
    BY UnreadShape DEF Init, Chat!Init
  <2>2. Chat!ReplyNow = [state |-> "none", items |-> {}] /\ Chat!StirredNow = {}
    BY <2>1 DEF Chat!ReplyNow, Chat!StirredNow
  <2>3. Chat!MembersNow \in SUBSET Chat!ChatDays
    BY ChatStarts, ChatShapes
  <2>4. QED BY <2>2, <2>3 DEF Chat!ChatContract!Init, Chat!ChatContract!Nothing
<1>2. ChatInv /\ ChatInv' /\ [Next]_vars => [chosen = "chats" => Chat!ChatContract!Next]_vars
  <2> SUFFICES ASSUME ChatInv, ChatInv', Next, chosen = "chats"
               PROVE  Chat!ChatContract!Next
    OBVIOUS
  <2>1. Chat!Next
    BY DEF Next, WhatsApp, Proton, Silverbullet, Paperless, Filesystem, SignalDesktop, Chats,
           DriveRequests, Install
  <2>2. QED BY <2>1, ChatMaps
<1>3. QED BY <1>1, <1>2, ChatStarts, ChatKeeps, PTL DEF Spec, ChatAnswers
-----------------------------------------------------------------------------
\* Paperless

LEMMA ArchiveSteps == [Next]_vars => [chosen = "paperless" /\ Archive!Next]_archiveVars
<1>1. Paperless => chosen = "paperless" /\ Archive!Next
  BY DEF Paperless
<1>2. WhatsApp \/ Proton \/ Silverbullet \/ Filesystem \/ SignalDesktop \/ Chats \/ DriveRequests
        \/ Install => UNCHANGED archiveVars
  BY DEF WhatsApp, Proton, Silverbullet, Filesystem, SignalDesktop, Chats, DriveRequests, Install
<1>3. QED BY <1>1, <1>2 DEF Next, vars

\* Nothing is read before the first page; a keyword that lost its tag since
\* excuses the call, as a document that left does.
Excused ==
    /\ paging.at \in {"idle", "resolve"} => paging.docs = {}
    /\ paging.at \in {"page", "tags"} => tagNamed \/ paging.stirred = Archive!Docs

\* Of the documents nothing has happened to, the pages read so far have given
\* those whose place lies before the page to ask for, whatever has been filed
\* in front of them; the last page completes them.
Paged ==
    /\ paging.at = "page" =>
          /\ paging.number >= 1
          /\ \A d \in Archive!Docs \ paging.stirred :
                /\ d \in paging.docs => d \in Archive!Listed
                /\ d \in Archive!Listed /\ Archive!Place(d) <= (paging.number - 1) * PageSize
                      => d \in paging.docs
    /\ paging.at = "tags" =>
          \A d \in Archive!Docs \ paging.stirred : d \in paging.docs <=> d \in Archive!Listed

ArchiveInv == Archive!PagingTypeOK /\ Excused /\ Paged

LEMMA ArchiveAssumed == Archive!ArchiveAssumption
BY SourcesAssumption

LEMMA UnpagedShape ==
  /\ Archive!Unasked \in Archive!Pagings
  /\ Archive!Unasked.at = "idle" /\ Archive!Unasked.docs = {} /\ Archive!Unasked.stirred = {}
BY ArchiveAssumed DEF Archive!Unasked, Archive!Pagings, Archive!ArchiveAssumption

\* Places count from 1 to the length of the list.
LEMMA PlacesCounted ==
  ASSUME ArchiveInv
  PROVE  /\ IsFiniteSet(Archive!Listed)
         /\ Cardinality(Archive!Listed) \in 0 .. LastDoc
         /\ \A d \in Archive!Listed : Archive!Place(d) \in 1 .. Cardinality(Archive!Listed)
<1>1. LastDoc \in Nat /\ IsFiniteSet(Archive!Docs) /\ Cardinality(Archive!Docs) = LastDoc
  BY ArchiveAssumed, FS_Interval DEF Archive!ArchiveAssumption, Archive!Docs
<1>2. Archive!Listed \in SUBSET Archive!Docs
  BY DEF Archive!Listed, ArchiveInv, Archive!PagingTypeOK
<1>3. IsFiniteSet(Archive!Listed) /\ Cardinality(Archive!Listed) <= LastDoc
  BY <1>1, <1>2, FS_Subset
<1>4. Cardinality(Archive!Listed) \in Nat
  BY <1>3, FS_CardinalityType
<1>5. ASSUME NEW d \in Archive!Listed
      PROVE  Archive!Place(d) \in 1 .. Cardinality(Archive!Listed)
  <2> DEFINE before == {e \in Archive!Listed : e >= d}
  <2>1. before \in SUBSET Archive!Listed /\ d \in before
    BY <1>2, <1>1 DEF Archive!Docs
  <2>2. IsFiniteSet(before) /\ Cardinality(before) <= Cardinality(Archive!Listed)
    BY <1>3, <2>1, FS_Subset
  <2>3. Cardinality(before) \in Nat /\ Cardinality(before) # 0
    BY <2>1, <2>2, FS_CardinalityType, FS_EmptySet
  <2>4. Archive!Place(d) = Cardinality(before)
    BY DEF Archive!Place, Archive!Cardinality, Cardinality
  <2> HIDE DEF before
  <2>5. QED BY <1>4, <2>2, <2>3, <2>4
<1>6. QED BY <1>1, <1>3, <1>4, <1>5

LEMMA ArchiveStarts == Init => ArchiveInv
<1> SUFFICES ASSUME Init PROVE ArchiveInv
  OBVIOUS
<1>1. Archive!Init
  BY DEF Init
<1>2. Archive!PagingTypeOK
  BY <1>1, UnpagedShape, ArchiveAssumed
  DEF Archive!Init, Archive!PagingTypeOK, Archive!ArchiveAssumption
<1>3. QED BY <1>1, <1>2, UnpagedShape DEF Archive!Init, ArchiveInv, Excused, Paged

LEMMA PagingBegun ==
  ASSUME ArchiveInv, NEW Q \in {Archive!Docs, SearchedDocs}, Archive!StartPaging(Q)
  PROVE  /\ ArchiveInv' /\ paging'.at = "resolve" /\ paging'.stirred = {}
         /\ UNCHANGED <<carries, tagNamed, filings>> /\ ~Archive!Asking
<1>1. /\ UNCHANGED <<carries, tagNamed, filings>> /\ ~Archive!Asking
      /\ paging' = [Archive!Unasked EXCEPT !.at = "resolve", !.query = Q]
  BY DEF Archive!StartPaging
<1>2. /\ paging' \in Archive!Pagings /\ paging'.at = "resolve" /\ paging'.docs = {}
      /\ paging'.stirred = {}
  BY <1>1, UnpagedShape DEF Archive!Pagings
<1>3. QED BY <1>1, <1>2 DEF ArchiveInv, Archive!PagingTypeOK, Excused, Paged

\* One page, and what it leaves to be asked for.
LEMMA PageShape ==
  ASSUME ArchiveInv, Archive!ListPage
  PROVE  /\ UNCHANGED <<carries, tagNamed, filings>> /\ paging.at = "page"
         /\ paging' \in Archive!Pagings /\ paging'.query = paging.query
         /\ paging'.stirred = paging.stirred
         /\ paging'.docs = paging.docs \cup Archive!Page(paging.number)
         /\ \/ /\ Archive!Beyond(paging.number)
               /\ paging'.at = "page" /\ paging'.number = paging.number + 1
            \/ ~Archive!Beyond(paging.number) /\ paging'.at = "tags"
<1> DEFINE n == paging.number
           more == Archive!Beyond(n)
           docs == paging.docs \cup Archive!Page(n)
<1>1. /\ UNCHANGED <<carries, tagNamed, filings>> /\ paging.at = "page"
      /\ paging' = [paging EXCEPT !.docs = docs, !.at = IF more THEN "page" ELSE "tags",
                                  !.number = IF more THEN n + 1 ELSE n]
  BY Zenon DEF Archive!ListPage, Archive!NextPage
<1>2. /\ paging \in Archive!Pagings /\ carries \subseteq Archive!Docs /\ n >= 1
      /\ n \in Nat /\ LastDoc \in Nat /\ PageSize \in Nat \ {0}
  BY <1>1, ArchiveAssumed
  DEF ArchiveInv, Archive!PagingTypeOK, Paged, Archive!Pagings, Archive!ArchiveAssumption
<1>3. docs \in SUBSET Archive!Docs
  BY <1>2 DEF Archive!Pagings, Archive!Page, Archive!Listed
<1>4. ASSUME more PROVE n + 1 <= LastDoc
  <2>1. Cardinality(Archive!Listed) > n * PageSize
    BY <1>4 DEF Archive!Beyond, Archive!Cardinality, Cardinality
  <2>2. n * PageSize >= n
    BY <1>2
  <2>3. n * PageSize \in Nat
    BY <1>2
  <2>4. QED BY <1>2, <2>1, <2>2, <2>3, PlacesCounted
<1>5. CASE more
  <2>1. paging' = [paging EXCEPT !.docs = docs, !.at = "page", !.number = n + 1]
    BY <1>1, <1>5
  <2>2. n + 1 \in 0 .. LastDoc + 1
    BY <1>2, <1>4, <1>5
  <2> HIDE DEF docs, n, more
  <2>3. /\ paging' \in Archive!Pagings /\ paging'.query = paging.query
        /\ paging'.stirred = paging.stirred /\ paging'.docs = docs /\ paging'.at = "page"
        /\ paging'.number = n + 1
    BY <1>2, <1>3, <2>1, <2>2 DEF Archive!Pagings
  <2>4. QED BY <1>1, <1>5, <2>3 DEF docs, n, more
<1>6. CASE ~more
  <2>1. paging' = [paging EXCEPT !.docs = docs, !.at = "tags", !.number = n]
    BY <1>1, <1>6
  <2>2. n \in 0 .. LastDoc + 1
    BY <1>2 DEF Archive!Pagings
  <2> HIDE DEF docs, n, more
  <2>3. /\ paging' \in Archive!Pagings /\ paging'.query = paging.query
        /\ paging'.stirred = paging.stirred /\ paging'.docs = docs /\ paging'.at = "tags"
    BY <1>2, <1>3, <2>1, <2>2 DEF Archive!Pagings
  <2>4. QED BY <1>1, <1>6, <2>3 DEF docs, n, more
<1>7. QED BY <1>5, <1>6

LEMMA PageListed ==
  ASSUME ArchiveInv, Archive!ListPage
  PROVE  ArchiveInv'
<1> DEFINE n == paging.number
           from == (n - 1) * PageSize
           to == n * PageSize
<1>1. n \in Nat \ {0} /\ from \in Int /\ to \in Int
  BY PageShape, ArchiveAssumed
  DEF ArchiveInv, Archive!PagingTypeOK, Paged, Archive!Pagings, Archive!ArchiveAssumption
<1>2. /\ Archive!Listed' = Archive!Listed
      /\ \A d \in Archive!Listed : Archive!Place(d)' = Archive!Place(d)
  BY PageShape DEF Archive!Listed, Archive!Place
<1>3. \A d \in Archive!Listed : /\ Archive!Place(d) \in 1 .. Cardinality(Archive!Listed)
                                /\ Cardinality(Archive!Listed) \in Nat
  BY PlacesCounted
<1>4. \A d \in Archive!Docs \ paging.stirred :
         /\ d \in paging.docs => d \in Archive!Listed
         /\ d \in Archive!Listed /\ Archive!Place(d) <= from => d \in paging.docs
  BY PageShape DEF ArchiveInv, Paged
<1>5. \A d : d \in Archive!Page(n) <=> d \in Archive!Listed /\ Archive!Place(d) \in from + 1 .. to
  BY DEF Archive!Page
<1> HIDE DEF from, to
<1>6. \A d \in Archive!Docs \ paging.stirred :
         /\ d \in paging'.docs => d \in Archive!Listed
         /\ d \in Archive!Listed /\ Archive!Place(d) <= to => d \in paging'.docs
  <2> SUFFICES ASSUME NEW d \in Archive!Docs \ paging.stirred
               PROVE  /\ d \in paging'.docs => d \in Archive!Listed
                      /\ d \in Archive!Listed /\ Archive!Place(d) <= to => d \in paging'.docs
    OBVIOUS
  <2>1. d \in paging'.docs <=> d \in paging.docs \/ d \in Archive!Page(n)
    BY PageShape
  <2>2. CASE d \in Archive!Listed
    <3>1. Archive!Place(d) \in Nat
      BY <1>3, <2>2
    <3>2. Archive!Place(d) <= to => Archive!Place(d) <= from \/ Archive!Place(d) \in from + 1 .. to
      BY <1>1, <3>1
    <3>3. QED BY <1>4, <1>5, <2>1, <2>2, <3>2
  <2>3. CASE d \notin Archive!Listed
    BY <1>4, <1>5, <2>1, <2>3
  <2>4. QED BY <2>2, <2>3
<1>7. Paged'
  <2>1. CASE Archive!Beyond(n) /\ paging'.at = "page" /\ paging'.number = n + 1
    <3>1. paging'.number - 1 = n /\ paging'.number >= 1
      BY <1>1, <2>1
    <3>2. (paging'.number - 1) * PageSize = to
      BY <3>1 DEF to
    <3>3. \A d \in Archive!Docs \ paging'.stirred :
             /\ d \in paging'.docs => d \in Archive!Listed'
             /\ d \in Archive!Listed' /\ Archive!Place(d)' <= (paging'.number - 1) * PageSize
                   => d \in paging'.docs
      BY <1>2, <1>6, <3>2, PageShape
    <3>4. QED BY <2>1, <3>1, <3>3, Zenon DEF Paged, Archive!Docs
  <2>2. CASE ~Archive!Beyond(n) /\ paging'.at = "tags"
    <3>1. ~(Cardinality(Archive!Listed) > to)
      BY <2>2 DEF Archive!Beyond, Archive!Cardinality, Cardinality, to
    <3>2. \A d \in Archive!Listed : Archive!Place(d) <= to
      BY <1>1, <1>3, <3>1
    <3>3. \A d \in Archive!Docs \ paging'.stirred : d \in paging'.docs <=> d \in Archive!Listed'
      BY <1>2, <1>6, <3>2, PageShape
    <3>4. QED BY <2>2, <3>3 DEF Paged, Archive!Docs
  <2>3. QED BY <2>1, <2>2, PageShape
<1>8. Archive!PagingTypeOK' /\ Excused'
  BY PageShape DEF ArchiveInv, Archive!PagingTypeOK, Excused, Archive!Docs
<1>9. QED BY <1>7, <1>8 DEF ArchiveInv

LEMMA PagingGoes ==
  ASSUME ArchiveInv,
         Archive!ResolveTagIDs \/ Archive!PageGone \/ Archive!AllTags \/ Archive!PagingFails
  PROVE  /\ ArchiveInv' /\ UNCHANGED <<carries, tagNamed, filings>> /\ Archive!Asking
         /\ paging'.query = paging.query /\ paging'.stirred = paging.stirred
         /\ \/ paging.at = "resolve" /\ tagNamed /\ paging'.at = "page"
            \/ paging.at = "resolve" /\ ~tagNamed /\ paging'.at = "given" /\ paging'.docs = {}
            \/ paging.at = "tags" /\ paging'.at = "given" /\ paging'.docs = paging.docs
            \/ paging'.at = "failed"
<1>1. paging \in Archive!Pagings /\ LastDoc \in Nat /\ PageSize \in Nat \ {0}
  BY ArchiveAssumed DEF ArchiveInv, Archive!PagingTypeOK, Archive!ArchiveAssumption
<1>2. /\ UNCHANGED <<carries, tagNamed, filings>> /\ Archive!Asking
      /\ paging' \in Archive!Pagings
      /\ paging'.query = paging.query /\ paging'.stirred = paging.stirred
      /\ \/ /\ paging.at = "resolve" /\ tagNamed /\ paging'.at = "page"
            /\ paging'.number = 1 /\ paging'.docs = {}
         \/ paging.at = "resolve" /\ ~tagNamed /\ paging'.at = "given" /\ paging'.docs = {}
         \/ paging.at = "tags" /\ paging'.at = "given" /\ paging'.docs = paging.docs
         \/ paging'.at = "failed" /\ paging'.docs = {}
  <2>1. CASE Archive!ResolveTagIDs
    <3>1. paging.docs = {} /\ paging.at = "resolve"
      BY <2>1 DEF Archive!ResolveTagIDs, ArchiveInv, Excused
    <3>2. CASE tagNamed
      <4>1. paging' = [paging EXCEPT !.at = "page", !.number = 1] /\ 1 \in 0 .. LastDoc + 1
        BY <1>1, <2>1, <3>2 DEF Archive!ResolveTagIDs
      <4>2. /\ paging' \in Archive!Pagings /\ paging'.at = "page" /\ paging'.number = 1
            /\ paging'.docs = paging.docs /\ paging'.query = paging.query
            /\ paging'.stirred = paging.stirred
        BY <1>1, <4>1 DEF Archive!Pagings
      <4>3. QED BY <2>1, <3>1, <3>2, <4>2 DEF Archive!ResolveTagIDs, Archive!Asking
    <3>3. CASE ~tagNamed
      BY <1>1, <2>1, <3>1, <3>3 DEF Archive!ResolveTagIDs, Archive!Pagings, Archive!Asking
    <3>4. QED BY <3>2, <3>3
  <2>2. CASE Archive!PageGone \/ Archive!PagingFails
    BY <1>1, <2>2
    DEF Archive!PageGone, Archive!PagingFails, Archive!GiveUp, Archive!Pagings, Archive!Asking
  <2>3. CASE Archive!AllTags
    BY <1>1, <2>3 DEF Archive!AllTags, Archive!Pagings, Archive!Asking
  <2>4. QED BY <2>1, <2>2, <2>3
<1>3. Archive!PagingTypeOK' /\ Excused'
  BY <1>2 DEF ArchiveInv, Archive!PagingTypeOK, Excused
<1>4. Paged'
  <2>1. CASE paging'.at = "page"
    <3>1. paging'.number = 1 /\ paging'.docs = {} /\ (paging'.number - 1) * PageSize = 0
      BY <1>1, <1>2, <2>1
    <3>2. \A d \in Archive!Listed : ~(Archive!Place(d) <= 0)
      BY PlacesCounted
    <3>3. /\ Archive!Listed' = Archive!Listed
          /\ \A d \in Archive!Listed : Archive!Place(d)' = Archive!Place(d)
      BY <1>2 DEF Archive!Listed, Archive!Place
    <3>4. \A d \in Archive!Docs \ paging'.stirred :
             /\ d \in paging'.docs => d \in Archive!Listed'
             /\ d \in Archive!Listed' /\ Archive!Place(d)' <= (paging'.number - 1) * PageSize
                   => d \in paging'.docs
      BY <3>1, <3>2, <3>3
    <3>5. paging'.number >= 1
      BY <3>1
    <3>6. QED BY <2>1, <3>4, <3>5, Zenon DEF Paged, Archive!Docs
  <2>2. CASE paging'.at # "page"
    BY <1>2, <2>2 DEF Paged
  <2>3. QED BY <2>1, <2>2
<1>5. QED BY <1>2, <1>3, <1>4 DEF ArchiveInv

LEMMA FilingShape ==
  ASSUME ArchiveInv, NEW D \in SUBSET Archive!Docs, Archive!Filing(D)
  PROVE  /\ paging' \in Archive!Pagings /\ filings' \in 0 .. MaxFilings
         /\ paging'.at = paging.at /\ paging'.query = paging.query
         /\ paging'.number = paging.number /\ paging'.docs = paging.docs
         /\ paging'.stirred = paging.stirred \cup D
<1>1. /\ paging \in Archive!Pagings /\ filings \in 0 .. MaxFilings /\ MaxFilings \in Nat
      /\ filings < MaxFilings /\ filings' = filings + 1
      /\ paging' = [paging EXCEPT !.stirred = paging.stirred \cup D]
  BY ArchiveAssumed
  DEF ArchiveInv, Archive!PagingTypeOK, Archive!Filing, Archive!ArchiveAssumption
<1>2. filings' \in 0 .. MaxFilings
  BY <1>1
<1>3. QED BY <1>1, <1>2 DEF Archive!Pagings

\* A new document moves no other towards the pages already read.
LEMMA PlacesGrow ==
  ASSUME ArchiveInv, NEW f \in Archive!Docs, carries' = carries \cup {f},
         paging'.query = paging.query
  PROVE  /\ \A d \in Archive!Docs \ {f} : d \in Archive!Listed' <=> d \in Archive!Listed
         /\ \A d \in Archive!Listed :
               Archive!Place(d)' \in Nat /\ Archive!Place(d) <= Archive!Place(d)'
<1>1. /\ LastDoc \in Nat /\ IsFiniteSet(Archive!Docs) /\ carries \subseteq Archive!Docs
      /\ Archive!Docs' = Archive!Docs
  BY ArchiveAssumed, FS_Interval
  DEF ArchiveInv, Archive!PagingTypeOK, Archive!ArchiveAssumption, Archive!Docs
<1>2. Archive!Listed \subseteq Archive!Listed' /\ Archive!Listed' \in SUBSET Archive!Docs
  BY <1>1 DEF Archive!Listed
<1>3. IsFiniteSet(Archive!Listed')
  BY <1>1, <1>2, FS_Subset
<1>4. ASSUME NEW d \in Archive!Listed
      PROVE  Archive!Place(d)' \in Nat /\ Archive!Place(d) <= Archive!Place(d)'
  <2> DEFINE before == {e \in Archive!Listed : e >= d}
             after == {e \in Archive!Listed' : e >= d}
  <2>1. before \in SUBSET after /\ after \in SUBSET Archive!Listed'
    BY <1>2
  <2>2. Archive!Place(d) = Cardinality(before) /\ Archive!Place(d)' = Cardinality(after)
    BY DEF Archive!Place, Archive!Cardinality, Cardinality
  <2> HIDE DEF before, after
  <2>3. IsFiniteSet(after) /\ Cardinality(after) \in Nat
    BY <1>3, <2>1, FS_Subset, FS_CardinalityType
  <2>4. Cardinality(before) <= Cardinality(after)
    BY <2>1, <2>3, FS_Subset
  <2>5. QED BY <2>2, <2>3, <2>4
<1>5. QED BY <1>1, <1>4 DEF Archive!Listed

LEMMA DocumentFiled ==
  ASSUME ArchiveInv, NEW f \in Archive!Docs, Archive!FileDocument(f)
  PROVE  ArchiveInv'
<1>1. /\ {f} \in SUBSET Archive!Docs /\ Archive!Filing({f}) /\ carries' = carries \cup {f}
      /\ UNCHANGED tagNamed
  BY DEF Archive!FileDocument
<1>2. Archive!PagingTypeOK'
  BY <1>1, FilingShape DEF ArchiveInv, Archive!PagingTypeOK, Archive!Docs
<1>3. Excused'
  BY <1>1, FilingShape DEF ArchiveInv, Archive!PagingTypeOK, Archive!Pagings, Excused, Archive!Docs
<1>4. Paged'
  <2> DEFINE from == (paging.number - 1) * PageSize
  <2>1. CASE paging.at = "page"
    <3>1. /\ paging.number >= 1 /\ from \in Int
          /\ \A d \in Archive!Docs \ paging.stirred :
                /\ d \in paging.docs => d \in Archive!Listed
                /\ d \in Archive!Listed /\ Archive!Place(d) <= from => d \in paging.docs
      BY <2>1, ArchiveAssumed
      DEF ArchiveInv, Paged, Archive!PagingTypeOK, Archive!Pagings, Archive!ArchiveAssumption
    <3>2. \A d \in Archive!Listed : Archive!Place(d) \in Nat
      BY PlacesCounted
    <3>3. (paging'.number - 1) * PageSize = from /\ paging'.number >= 1
      BY <1>1, <3>1, FilingShape
    <3> HIDE DEF from
    <3>4. \A d \in Archive!Docs \ paging'.stirred :
             /\ d \in Archive!Docs \ paging.stirred /\ d \in Archive!Docs \ {f}
             /\ d \in paging'.docs <=> d \in paging.docs
             /\ d \in Archive!Listed' <=> d \in Archive!Listed
      BY <1>1, FilingShape, PlacesGrow
    <3>5. \A d \in Archive!Listed : Archive!Place(d)' <= from => Archive!Place(d) <= from
      BY <1>1, <3>1, <3>2, FilingShape, PlacesGrow
    <3>6. \A d \in Archive!Docs \ paging'.stirred :
             /\ d \in paging'.docs => d \in Archive!Listed'
             /\ d \in Archive!Listed' /\ Archive!Place(d)' <= (paging'.number - 1) * PageSize
                   => d \in paging'.docs
      BY <3>1, <3>3, <3>4, <3>5
    <3>7. paging'.at = "page"
      BY <1>1, <2>1, FilingShape
    <3>8. QED BY <3>3, <3>6, <3>7, Zenon DEF Paged, Archive!Docs
  <2>2. CASE paging.at = "tags"
    BY <1>1, <2>2, FilingShape, PlacesGrow DEF ArchiveInv, Paged, Archive!Docs
  <2>3. CASE paging.at \notin {"page", "tags"}
    BY <1>1, <2>3, FilingShape DEF Paged
  <2>4. QED BY <2>1, <2>2, <2>3
<1>5. QED BY <1>2, <1>3, <1>4 DEF ArchiveInv

LEMMA DocumentLeaves ==
  ASSUME ArchiveInv,
         Archive!RenameTag \/ \E d \in Archive!Docs : Archive!RemoveDocument(d)
  PROVE  /\ ArchiveInv' /\ paging'.stirred = Archive!Docs
         /\ paging'.at = paging.at /\ paging'.docs = paging.docs
<1>1. /\ Archive!Filing(Archive!Docs) /\ carries' \subseteq Archive!Docs
      /\ tagNamed' \in BOOLEAN
  BY DEF ArchiveInv, Archive!PagingTypeOK, Archive!RenameTag, Archive!RemoveDocument
<1>2. /\ paging' \in Archive!Pagings /\ filings' \in 0 .. MaxFilings
      /\ paging'.at = paging.at /\ paging'.number = paging.number
      /\ paging'.docs = paging.docs /\ paging'.stirred = Archive!Docs
  <2>1. paging.stirred \subseteq Archive!Docs
    BY DEF ArchiveInv, Archive!PagingTypeOK, Archive!Pagings
  <2>2. QED BY <1>1, <2>1, FilingShape
<1>3. Archive!PagingTypeOK' /\ Excused'
  BY <1>1, <1>2 DEF ArchiveInv, Archive!PagingTypeOK, Excused, Archive!Docs
<1>4. Paged'
  BY <1>2 DEF ArchiveInv, Paged, Archive!Docs
<1>5. QED BY <1>2, <1>3, <1>4 DEF ArchiveInv

LEMMA ArchiveKeeps == ArchiveInv /\ [Next]_vars => ArchiveInv'
<1> SUFFICES ASSUME ArchiveInv, [Next]_vars PROVE ArchiveInv'
  OBVIOUS
<1>1. CASE Archive!Next
  BY <1>1, PagingBegun, PagingGoes, PageListed, DocumentFiled, DocumentLeaves
  DEF Archive!Next, Archive!StartMatch, Archive!StartSearch, Archive!Step
<1>2. CASE UNCHANGED archiveVars
  <2>1. /\ Archive!Listed' = Archive!Listed
        /\ \A d : Archive!Place(d)' = Archive!Place(d)
    BY <1>2 DEF archiveVars, Archive!Listed, Archive!Place
  <2>2. Paged'
    BY <1>2, <2>1 DEF archiveVars, ArchiveInv, Paged, Archive!Docs
  <2>3. QED BY <1>2, <2>2 DEF archiveVars, ArchiveInv, Archive!PagingTypeOK, Excused
<1>3. QED BY <1>1, <1>2, ArchiveSteps

LEMMA ArchiveShapes ==
  ASSUME ArchiveInv
  PROVE  /\ paging \in Archive!Pagings /\ Archive!MembersNow \in SUBSET Archive!Docs
         /\ Archive!ReplyNow.state = "pending" <=> Archive!Asking
<1>1. paging \in Archive!Pagings /\ Archive!MembersNow \in SUBSET Archive!Docs
  BY DEF ArchiveInv, Archive!PagingTypeOK, Archive!MembersNow
<1>2. Archive!ReplyNow.state = IF paging.at = "idle" THEN "none"
                               ELSE IF Archive!Asking THEN "pending" ELSE paging.at
  BY DEF Archive!ReplyNow, Archive!Asking
<1>3. QED BY <1>1, <1>2 DEF Archive!Asking, Archive!Pagings

LEMMA ArchiveAfter ==
  ASSUME ArchiveInv' PROVE Archive!MembersNow' \in SUBSET Archive!Docs
BY DEF ArchiveInv, Archive!PagingTypeOK, Archive!MembersNow, Archive!Docs

LEMMA ArchiveBegins ==
  ASSUME ArchiveInv, ArchiveInv', NEW Q \in {Archive!Docs, SearchedDocs}, Archive!StartPaging(Q)
  PROVE  Archive!ArchiveContract!Begin("paging")
<1>1. /\ paging'.at = "resolve" /\ paging'.stirred = {} /\ Archive!ReplyNow.state # "pending"
      /\ Archive!MembersNow' \in SUBSET Archive!Docs
  BY PagingBegun, ArchiveShapes, ArchiveAfter
<1>2. Archive!ReplyNow' = [state |-> "pending", items |-> {}]
  BY <1>1 DEF Archive!ReplyNow, Archive!Asking
<1>3. QED BY <1>1, <1>2 DEF Archive!ArchiveContract!Begin

LEMMA ArchiveStands ==
  ASSUME Archive!ReplyNow' = Archive!ReplyNow, Archive!MembersNow' = Archive!MembersNow,
         ArchiveInv, ArchiveInv', paging'.stirred = paging.stirred
  PROVE  Archive!ArchiveContract!Stir
<1>1. paging.stirred \in SUBSET Archive!Docs
  BY ArchiveShapes DEF Archive!Pagings
<1>2. QED BY <1>1, ArchiveShapes
      DEF Archive!ArchiveContract!Stir, Archive!ArchiveContract!Differ

LEMMA ArchiveRefuses ==
  ASSUME ArchiveInv, Archive!Asking, UNCHANGED <<carries, tagNamed>>,
         paging'.query = paging.query, paging'.stirred = paging.stirred, paging'.at = "failed"
  PROVE  Archive!ArchiveContract!Refuse("paging")
<1>1. Archive!MembersNow' = Archive!MembersNow
  BY DEF Archive!MembersNow
<1>2. Archive!ReplyNow' = [state |-> "failed", items |-> {}]
  BY DEF Archive!ReplyNow, Archive!Asking
<1>3. QED BY <1>1, <1>2, ArchiveShapes DEF Archive!ArchiveContract!Refuse

LEMMA ArchiveGives ==
  ASSUME ArchiveInv, ArchiveInv', Archive!Asking, UNCHANGED <<carries, tagNamed>>,
         paging'.query = paging.query, paging'.stirred = paging.stirred, paging'.at = "given",
         \A d \in Archive!Docs \ paging.stirred : d \in paging'.docs <=> d \in Archive!MembersNow
  PROVE  Archive!ArchiveContract!Give("paging")
<1>1. Archive!MembersNow' = Archive!MembersNow
  BY DEF Archive!MembersNow
<1>2. Archive!ReplyNow' = [state |-> "given", items |-> paging'.docs]
  BY DEF Archive!ReplyNow, Archive!Asking
<1>3. paging'.docs \in SUBSET Archive!Docs
  BY DEF ArchiveInv, Archive!PagingTypeOK, Archive!Pagings, Archive!Docs
<1>4. /\ Archive!MembersNow \ paging.stirred \subseteq paging'.docs
      /\ paging'.docs \subseteq Archive!MembersNow \cup paging.stirred
  BY <1>3, ArchiveShapes
<1>5. QED BY <1>1, <1>2, <1>3, <1>4, ArchiveShapes DEF Archive!ArchiveContract!Give

LEMMA ArchiveMaps ==
  ASSUME ArchiveInv, ArchiveInv', Archive!Next
  PROVE  Archive!ArchiveContract!Next
<1>1. ASSUME Archive!StartMatch \/ Archive!StartSearch PROVE Archive!ArchiveContract!Next
  <2>1. PICK Q \in {Archive!Docs, SearchedDocs} : Archive!StartPaging(Q)
    BY <1>1 DEF Archive!StartMatch, Archive!StartSearch
  <2>2. Archive!ArchiveContract!Begin("paging")
    BY <2>1, ArchiveBegins
  <2>3. QED BY <2>2 DEF Archive!ArchiveContract!Next
<1>2. ASSUME Archive!ListPage PROVE Archive!ArchiveContract!Next
  <2>0. /\ UNCHANGED <<carries, tagNamed>> /\ paging'.query = paging.query
        /\ paging'.stirred = paging.stirred
    BY <1>2, PageShape
  <2>1. Archive!MembersNow' = Archive!MembersNow
    BY <2>0 DEF Archive!MembersNow
  <2>2. paging.at = "page" /\ paging'.at \in {"page", "tags"}
    BY <1>2, PageShape
  <2>3. Archive!ReplyNow' = Archive!ReplyNow
    BY <2>2 DEF Archive!ReplyNow, Archive!Asking
  <2>4. QED BY <2>0, <2>1, <2>3, ArchiveStands DEF Archive!ArchiveContract!Next
<1>3. ASSUME Archive!ResolveTagIDs \/ Archive!PageGone \/ Archive!AllTags \/ Archive!PagingFails
      PROVE  Archive!ArchiveContract!Next
  <2>1. CASE paging.at = "resolve" /\ tagNamed /\ paging'.at = "page"
    <3>1. Archive!ReplyNow' = Archive!ReplyNow
      BY <2>1 DEF Archive!ReplyNow, Archive!Asking
    <3>2. Archive!MembersNow' = Archive!MembersNow
      BY <1>3, PagingGoes DEF Archive!MembersNow
    <3>3. QED BY <1>3, <3>1, <3>2, PagingGoes, ArchiveStands DEF Archive!ArchiveContract!Next
  <2>2. CASE paging.at = "resolve" /\ ~tagNamed /\ paging'.at = "given" /\ paging'.docs = {}
    <3>1. Archive!MembersNow = {}
      BY <2>2 DEF Archive!MembersNow
    <3>2. QED BY <1>3, <2>2, <3>1, PagingGoes, ArchiveGives DEF Archive!ArchiveContract!Next
  <2>3. CASE paging.at = "tags" /\ paging'.at = "given" /\ paging'.docs = paging.docs
    <3>1. \A d \in Archive!Docs \ paging.stirred : d \in paging'.docs <=> d \in Archive!MembersNow
      BY <2>3 DEF ArchiveInv, Excused, Paged, Archive!MembersNow, Archive!Listed
    <3>2. QED BY <1>3, <2>3, <3>1, PagingGoes, ArchiveGives DEF Archive!ArchiveContract!Next
  <2>4. CASE paging'.at = "failed"
    BY <1>3, <2>4, PagingGoes, ArchiveRefuses DEF Archive!ArchiveContract!Next
  <2>5. QED BY <1>3, <2>1, <2>2, <2>3, <2>4, PagingGoes
<1>4. ASSUME NEW f \in Archive!Docs, Archive!FileDocument(f) PROVE Archive!ArchiveContract!Next
  <2>1. /\ {f} \in SUBSET Archive!Docs /\ Archive!Filing({f}) /\ carries' = carries \cup {f}
        /\ UNCHANGED tagNamed
    BY <1>4 DEF Archive!FileDocument
  <2>2. Archive!ReplyNow' = Archive!ReplyNow
    BY <2>1, FilingShape DEF Archive!ReplyNow, Archive!Asking
  <2>3. /\ paging.stirred \cup {f} = paging'.stirred
        /\ paging'.stirred \in SUBSET Archive!Docs
    BY <2>1, FilingShape, ArchiveShapes DEF Archive!Pagings
  <2>4. \A d \in Archive!Docs \ {f} : d \in Archive!MembersNow' <=> d \in Archive!MembersNow
    BY <2>1, FilingShape DEF Archive!MembersNow
  <2>5. /\ Archive!MembersNow \in SUBSET Archive!Docs /\ Archive!MembersNow' \in SUBSET Archive!Docs
    BY ArchiveShapes, ArchiveAfter
  <2>6. paging.stirred \cup Archive!ArchiveContract!Differ(Archive!MembersNow, Archive!MembersNow')
          \subseteq paging'.stirred
    BY <2>3, <2>4, <2>5 DEF Archive!ArchiveContract!Differ
  <2>7. Archive!ArchiveContract!Stir
    BY <2>2, <2>3, <2>5, <2>6 DEF Archive!ArchiveContract!Stir
  <2>8. QED BY <2>7 DEF Archive!ArchiveContract!Next
<1>5. ASSUME Archive!RenameTag \/ \E d \in Archive!Docs : Archive!RemoveDocument(d)
      PROVE  Archive!ArchiveContract!Next
  <2>1. /\ paging'.stirred = Archive!Docs /\ paging.stirred \in SUBSET Archive!Docs
        /\ paging'.at = paging.at /\ paging'.docs = paging.docs
    BY <1>5, DocumentLeaves, ArchiveShapes DEF Archive!Pagings
  <2>2. Archive!ReplyNow' = Archive!ReplyNow
    BY <2>1 DEF Archive!ReplyNow, Archive!Asking
  <2>3. Archive!MembersNow \in SUBSET Archive!Docs /\ Archive!MembersNow' \in SUBSET Archive!Docs
    BY ArchiveShapes, ArchiveAfter
  <2>4. Archive!ArchiveContract!Stir
    BY <2>1, <2>2, <2>3 DEF Archive!ArchiveContract!Stir, Archive!ArchiveContract!Differ
  <2>5. QED BY <2>4 DEF Archive!ArchiveContract!Next
<1>6. QED BY <1>1, <1>2, <1>3, <1>4, <1>5 DEF Archive!Next, Archive!Step

\* Match and Search of Paperless give whole answers although the archive
\* grows while it is paged through (paperless/client.go, plugin.go).
THEOREM ArchiveAnswered == Spec => ArchiveAnswers
<1>1. Init => Archive!ArchiveContract!Init
  <2> SUFFICES ASSUME Init PROVE Archive!ArchiveContract!Init
    OBVIOUS
  <2>1. paging.at = "idle" /\ paging.stirred = {}
    BY UnpagedShape DEF Init, Archive!Init
  <2>2. Archive!ReplyNow = [state |-> "none", items |-> {}]
    BY <2>1 DEF Archive!ReplyNow, Archive!Asking
  <2>3. Archive!MembersNow \in SUBSET Archive!Docs
    BY ArchiveStarts, ArchiveShapes
  <2>4. QED BY <2>1, <2>2, <2>3
        DEF Archive!ArchiveContract!Init, Archive!ArchiveContract!Nothing
<1>2. ArchiveInv /\ ArchiveInv' /\ [Next]_vars
        => [chosen = "paperless" => Archive!ArchiveContract!Next]_vars
  <2> SUFFICES ASSUME ArchiveInv, ArchiveInv', Next, chosen = "paperless"
               PROVE  Archive!ArchiveContract!Next
    OBVIOUS
  <2>1. Archive!Next
    BY DEF Next, WhatsApp, Proton, Silverbullet, Paperless, Filesystem, SignalDesktop, Chats,
           DriveRequests, Install
  <2>2. QED BY <2>1, ArchiveMaps
<1>3. QED BY <1>1, <1>2, ArchiveStarts, ArchiveKeeps, PTL DEF Spec, ArchiveAnswers

=============================================================================
