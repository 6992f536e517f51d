------------------------ MODULE SilverbulletSpaceProofs ------------------------
(***************************************************************************)
(* Proofs about SilverbulletSpace, for any set of pages, any concurrency   *)
(* and any number of edits: Match and Search implement SourceContract, so  *)
(* what the host replaces its rows with is never a part of the membership; *)
(* and Fetch finds the pages that Match listed.                            *)
(***************************************************************************)
EXTENDS SilverbulletSpace, FiniteSetTheorems, TLAPS

Typed == space \in [Pages -> Texts] /\ scan \in Scans

Belongs(p) == space[p] # "absent" /\ Matches(p, space[p])

\* A page that is hit belongs, or has been edited since.
Sound ==
    /\ scan.at = "listing" => scan.hits = {}
    /\ scan.at # "reading" => scan.active = {}
    /\ scan.at = "reading" => \A p \in scan.hits : Belongs(p) \/ p \in scan.stirred

\* A page that belongs is still to be read, or is hit, unless it has been
\* edited since the call began, or the call is to fail.
Complete ==
    scan.at = "reading" /\ ~scan.broken =>
        \A p \in Pages : Belongs(p) =>
            p \in scan.todo \cup scan.active \cup scan.hits \cup scan.stirred

PageIds == Pages \cup {CHOOSE p \in Pages : TRUE}

PageRecords == [at : {"idle", "reading", "notfound"}, id : PageIds, sure : BOOLEAN]

\* A page listed and not edited since is there.
Present == current \subseteq {p \in Pages : space[p] # "absent"}

\* So is such a page that Fetch is asked for, and Fetch finds it.
Opens ==
    /\ page \in PageRecords
    /\ page.sure => page.at # "notfound" /\ page.id \in Pages /\ space[page.id] # "absent"

IInv == Typed /\ Sound /\ Complete /\ Present /\ Opens

-----------------------------------------------------------------------------
LEMMA FinishKeeps ==
  ASSUME IInv, FinishScan
  PROVE  IInv'
<1>1. scan' \in Scans /\ scan'.at \in {"failed", "given"} /\ scan'.active = {}
  BY DEF FinishScan, IInv, Typed, Scans
<1>2. current' = current \/ current' = scan.hits \ scan.stirred
  BY DEF FinishScan
<1>3. space' = space /\ page' = page
  BY DEF FinishScan
<1>4. Typed' /\ Sound' /\ Complete'
  BY <1>1, <1>3 DEF IInv, Typed, Sound, Complete
<1>5. Present'
  <2>1. scan.hits \subseteq Pages /\ scan.at = "reading"
    BY DEF FinishScan, IInv, Typed, Scans
  <2>2. scan.hits \ scan.stirred \subseteq {p \in Pages : space[p] # "absent"}
    BY <2>1 DEF IInv, Sound, Belongs
  <2>3. QED BY <1>2, <1>3, <2>2 DEF IInv, Present
<1>6. Opens'
  BY <1>3 DEF IInv, Opens
<1>7. QED BY <1>4, <1>5, <1>6 DEF IInv

LEMMA StartPageKeeps ==
  ASSUME IInv, NEW p \in Pages, StartPage(p)
  PROVE  IInv'
<1>1. page' = [at |-> "reading", id |-> p, sure |-> p \in current] /\ p \in PageIds
  BY DEF StartPage, PageIds
<1>2. space' = space /\ scan' = scan /\ current' = current
  BY DEF StartPage
<1>3. p \in current => space[p] # "absent"
  BY DEF IInv, Present
<1>4. page' \in PageRecords
  BY <1>1 DEF PageRecords
<1>5. Opens'
  BY <1>1, <1>2, <1>3, <1>4 DEF Opens
<1>6. Typed' /\ Sound' /\ Complete' /\ Present'
  BY <1>2 DEF IInv, Typed, Sound, Complete, Present, Belongs, Matches
<1>7. QED BY <1>5, <1>6 DEF IInv

LEMMA InvNext ==
  ASSUME IInv, [Next]_vars
  PROVE  IInv'
<1>1. CASE FinishScan BY <1>1, FinishKeeps
<1>2. ASSUME NEW p \in Pages, StartPage(p) PROVE IInv'
  BY <1>2, StartPageKeeps
<1> USE DEF IInv, Typed, Sound, Complete, Present, Opens, PageRecords, Belongs, Matches
<1>3. ASSUME NEW words \in BOOLEAN, NEW byTag \in BOOLEAN, NEW byName \in BOOLEAN,
             StartScan(words, byTag, byName)
      PROVE  IInv'
  <2>1. scan' = [at |-> "listing", words |-> words, byTag |-> byTag, byName |-> byName,
                 todo |-> {}, active |-> {}, broken |-> FALSE, hits |-> {}, stirred |-> {}]
    BY <1>3 DEF StartScan, Unasked
  <2>2. scan' \in Scans
    BY <2>1 DEF Scans
  <2>3. scan'.at = "listing" /\ scan'.hits = {} /\ scan'.active = {}
    BY <2>1
  <2>4. UNCHANGED <<space, page, current>>
    BY <1>3 DEF StartScan
  <2>5. QED BY <2>2, <2>3, <2>4
<1>4. CASE ListFiles
  <2>1. CASE scan' = [scan EXCEPT !.at = "reading", !.todo = {p \in Pages : space[p] # "absent"}]
    <3>1. scan' \in Scans /\ scan'.todo = {p \in Pages : space[p] # "absent"}
      BY <2>1 DEF Scans
    <3>2. Sound'
      BY <1>4, <2>1 DEF ListFiles, Scans
    <3>3. Complete'
      BY <1>4, <2>1, <3>1 DEF ListFiles, Scans
    <3>4. QED BY <1>4, <3>1, <3>2, <3>3 DEF ListFiles
  <2>2. CASE scan' = [scan EXCEPT !.at = "failed"]
    BY <1>4, <2>2 DEF ListFiles, Scans
  <2>3. QED BY <1>4, <2>1, <2>2 DEF ListFiles
<1>5. ASSUME NEW p \in Pages, StartRead(p) PROVE IInv'
  BY <1>5 DEF StartRead, Scans
<1>6. ASSUME NEW p \in Pages, ReadPage(p) PROVE IInv'
  <2>1. scan' \in Scans
    BY <1>6 DEF ReadPage, Scans
  <2>2. UNCHANGED <<space, page, current>>
    BY <1>6 DEF ReadPage
  <2>3. Sound'
    BY <1>6 DEF ReadPage, Scans
  <2>4. Complete'
    BY <1>6 DEF ReadPage, Scans
  <2>5. QED BY <2>1, <2>2, <2>3, <2>4
<1>7. ASSUME NEW p \in Pages, ReadFails(p) PROVE IInv'
  BY <1>7 DEF ReadFails, Scans
<1>8. CASE FetchPage
  <2>1. page.sure => Stored(FileOf(page.id))
    BY DEF Stored, FileOf
  <2>2. page' = NoPage \/ (page' = [page EXCEPT !.at = "notfound"] /\ ~page.sure)
    BY <1>8, <2>1 DEF FetchPage
  <2>3. NoPage \in [at : {"idle", "reading", "notfound"}, id : PageIds, sure : BOOLEAN]
        /\ ~NoPage.sure
    BY DEF NoPage, PageIds
  <2>4. UNCHANGED <<space, scan, current>>
    BY <1>8 DEF FetchPage
  <2>5. CASE page' = NoPage
    BY <2>3, <2>4, <2>5
  <2>6. CASE page' = [page EXCEPT !.at = "notfound"] /\ ~page.sure
    <3>1. page' \in [at : {"idle", "reading", "notfound"}, id : PageIds, sure : BOOLEAN]
          /\ ~page'.sure
      BY <2>6
    <3>2. QED BY <2>4, <3>1
  <2>7. QED BY <2>2, <2>5, <2>6
<1>9. ASSUME NEW p \in Pages, EditPage(p) PROVE IInv'
  <2>1. Typed'
    BY <1>9 DEF EditPage, Touch, Running, Scans
  <2>2. Sound'
    BY <1>9 DEF EditPage, Touch, Running, Scans
  <2>3. Complete'
    BY <1>9 DEF EditPage, Touch, Running, Scans
  <2>4. Present'
    BY <1>9 DEF EditPage, Touch
  <2>5. Opens'
    BY <1>9 DEF EditPage, Touch
  <2>6. QED BY <2>1, <2>2, <2>3, <2>4, <2>5
<1>10. ASSUME NEW p \in Pages, NEW q \in Pages, RenamePage(p, q) PROVE IInv'
  BY <1>10 DEF RenamePage, Touch, Running, Scans
<1>11. CASE UNCHANGED vars
  BY <1>11 DEF vars
<1>12. QED BY <1>3, <1>4, <1>1, <1>5, <1>6, <1>7, <1>8, <1>2, <1>9, <1>10, <1>11
           DEF Next, StartMatch, StartSearch, Step

-----------------------------------------------------------------------------
Contract == <<[c \in {"scan"} |-> MembersNow], [c \in {"scan"} |-> scan.stirred],
              [c \in {"scan"} |-> ReplyNow]>>

\* What leaves the three alone stirs nothing.
LEMMA IdleStep ==
  ASSUME IInv, MembersNow' = MembersNow, scan'.stirred = scan.stirred, ReplyNow' = ReplyNow
  PROVE  SpaceContract!Next
<1>1. MembersNow \in SUBSET Pages /\ scan.stirred \in SUBSET Pages
  BY DEF MembersNow, IInv, Typed, Scans
<1>2. SpaceContract!Differ(MembersNow, MembersNow') = {}
  BY DEF SpaceContract!Differ
<1>3. SpaceContract!Stir
  BY <1>1, <1>2 DEF SpaceContract!Stir
<1>4. QED BY <1>3 DEF SpaceContract!Next

LEMMA BeginStep ==
  ASSUME IInv, NEW words \in BOOLEAN, NEW byTag \in BOOLEAN, NEW byName \in BOOLEAN,
         StartScan(words, byTag, byName)
  PROVE  SpaceContract!Next
<1>1. ReplyNow.state # "pending"
  BY DEF StartScan, Running, ReplyNow, IInv, Typed, Scans
<1>2. scan' = [at |-> "listing", words |-> words, byTag |-> byTag, byName |-> byName,
               todo |-> {}, active |-> {}, broken |-> FALSE, hits |-> {}, stirred |-> {}]
  BY DEF StartScan, Unasked
<1>3. ReplyNow' = [state |-> "pending", items |-> {}] /\ scan'.stirred = {}
  BY <1>2 DEF ReplyNow, Running
<1>4. MembersNow' \in SUBSET Pages
  BY DEF MembersNow
<1>5. SpaceContract!Begin("scan")
  BY <1>1, <1>3, <1>4 DEF SpaceContract!Begin
<1>6. QED BY <1>5 DEF SpaceContract!Next

\* A call that fails, whichever step it fails at.
LEMMA RefuseStep ==
  ASSUME ReplyNow.state = "pending", ReplyNow' = [state |-> "failed", items |-> {}],
         MembersNow' = MembersNow, scan'.stirred = scan.stirred
  PROVE  SpaceContract!Next
<1>1. SpaceContract!Refuse("scan")
  BY DEF SpaceContract!Refuse
<1>2. QED BY <1>1 DEF SpaceContract!Next

LEMMA FinishStep ==
  ASSUME IInv, FinishScan
  PROVE  SpaceContract!Next
<1>1. ReplyNow.state = "pending" /\ scan \in Scans /\ scan.at = "reading"
  BY DEF FinishScan, ReplyNow, Running, IInv, Typed
<1>2. MembersNow' = MembersNow /\ scan'.stirred = scan.stirred
  BY <1>1 DEF FinishScan, MembersNow, Matches, Scans
<1>3. CASE scan.broken
  <2>1. ReplyNow' = [state |-> "failed", items |-> {}]
    BY <1>1, <1>3 DEF FinishScan, ReplyNow, Running, Scans
  <2>2. QED BY <1>1, <1>2, <2>1, RefuseStep
<1>4. CASE ~scan.broken
  <2>1. ReplyNow' = [state |-> "given", items |-> scan.hits]
    BY <1>1, <1>4 DEF FinishScan, ReplyNow, Running, Scans
  <2>2. scan.hits \in SUBSET Pages
    BY <1>1 DEF Scans
  <2>3. MembersNow \ scan.stirred \subseteq scan.hits
    BY <1>1, <1>4 DEF FinishScan, IInv, Complete, Belongs, MembersNow
  <2>4. scan.hits \subseteq MembersNow \cup scan.stirred
    BY <1>1, <2>2 DEF IInv, Sound, Belongs, MembersNow
  <2>5. SpaceContract!Give("scan")
    BY <1>1, <1>2, <2>1, <2>2, <2>3, <2>4 DEF SpaceContract!Give
  <2>6. QED BY <2>5 DEF SpaceContract!Next
<1>5. QED BY <1>3, <1>4

\* An edit touches P, and is recorded for the call in progress.
LEMMA StirStep ==
  ASSUME IInv, NEW P \in SUBSET Pages, Touch(P),
         \A p \in Pages \ P : space'[p] = space[p]
  PROVE  SpaceContract!Next
<1>1. ReplyNow' = ReplyNow
  BY DEF Touch, ReplyNow, Running, IInv, Typed, Scans
<1>2. MembersNow' \in SUBSET Pages /\ scan'.stirred \in SUBSET Pages
  BY DEF MembersNow, Touch, IInv, Typed, Scans
<1>3. \A p \in Pages \ P : p \in MembersNow <=> p \in MembersNow'
  BY DEF MembersNow, Matches, Touch, IInv, Typed, Scans
<1>4. MembersNow \in SUBSET Pages
  BY DEF MembersNow
<1>5. SpaceContract!Differ(MembersNow, MembersNow') \subseteq P
  BY <1>2, <1>3, <1>4 DEF SpaceContract!Differ
<1>6. ReplyNow.state = "pending" => scan'.stirred = scan.stirred \cup P
  BY DEF ReplyNow, Running, Touch, IInv, Typed, Scans
<1>7. ReplyNow.state = "pending" =>
        scan.stirred \cup SpaceContract!Differ(MembersNow, MembersNow') \subseteq scan'.stirred
  BY <1>5, <1>6
<1>8. SpaceContract!Stir
  BY <1>1, <1>2, <1>7 DEF SpaceContract!Stir
<1>9. QED BY <1>8 DEF SpaceContract!Next

LEMMA StepMaps ==
  ASSUME IInv, Next
  PROVE  SpaceContract!Next
<1>1. scan \in Scans
  BY DEF IInv, Typed
<1>2. ASSUME NEW words \in BOOLEAN, NEW byTag \in BOOLEAN, NEW byName \in BOOLEAN,
             StartScan(words, byTag, byName)
      PROVE  SpaceContract!Next
  BY <1>2, BeginStep
<1>3. CASE ListFiles
  <2>1. MembersNow' = MembersNow /\ scan'.stirred = scan.stirred
    <3>1. /\ scan'.byTag = scan.byTag /\ scan'.byName = scan.byName
          /\ scan'.words = scan.words /\ scan'.stirred = scan.stirred
      BY <1>1, <1>3 DEF ListFiles, Scans
    <3>2. space' = space
      BY <1>3 DEF ListFiles
    <3>3. QED BY <3>1, <3>2 DEF MembersNow, Matches
  <2>2. CASE scan'.at = "reading"
    <3>1. ReplyNow' = ReplyNow
      BY <1>1, <1>3, <2>2 DEF ListFiles, ReplyNow, Running, Scans
    <3>2. QED BY <2>1, <3>1, IdleStep
  <2>3. CASE scan'.at = "failed"
    <3>1. ReplyNow.state = "pending" /\ ReplyNow' = [state |-> "failed", items |-> {}]
      BY <1>1, <1>3, <2>3 DEF ListFiles, ReplyNow, Running, Scans
    <3>2. QED BY <2>1, <3>1, RefuseStep
  <2>4. QED BY <1>1, <1>3, <2>2, <2>3 DEF ListFiles, Scans
<1>4. CASE FinishScan
  BY <1>4, FinishStep
<1>5. ASSUME NEW p \in Pages, StartRead(p) PROVE SpaceContract!Next
  <2>1. MembersNow' = MembersNow /\ scan'.stirred = scan.stirred
    BY <1>1, <1>5 DEF StartRead, MembersNow, Matches, Scans
  <2>2. ReplyNow' = ReplyNow
    BY <1>1, <1>5 DEF StartRead, ReplyNow, Running, Scans
  <2>3. QED BY <2>1, <2>2, IdleStep
<1>6. ASSUME NEW p \in Pages, ReadPage(p) PROVE SpaceContract!Next
  <2>1. scan.at = "reading"
    BY <1>6 DEF ReadPage, IInv, Sound
  <2>2. MembersNow' = MembersNow /\ scan'.stirred = scan.stirred
    BY <1>1, <1>6 DEF ReadPage, MembersNow, Matches, Scans
  <2>3. ReplyNow' = ReplyNow
    BY <1>1, <1>6, <2>1 DEF ReadPage, ReplyNow, Running, Scans
  <2>4. QED BY <2>2, <2>3, IdleStep
<1>7. ASSUME NEW p \in Pages, ReadFails(p) PROVE SpaceContract!Next
  <2>1. MembersNow' = MembersNow /\ scan'.stirred = scan.stirred
    BY <1>1, <1>7 DEF ReadFails, MembersNow, Matches, Scans
  <2>2. ReplyNow' = ReplyNow
    BY <1>1, <1>7 DEF ReadFails, ReplyNow, Running, Scans
  <2>3. QED BY <2>1, <2>2, IdleStep
<1>8. ASSUME UNCHANGED <<space, scan>> PROVE SpaceContract!Next
  <2>1. MembersNow' = MembersNow /\ scan'.stirred = scan.stirred /\ ReplyNow' = ReplyNow
    BY <1>8 DEF MembersNow, Matches, ReplyNow, Running
  <2>2. QED BY <2>1, IdleStep
<1>9. ASSUME NEW p \in Pages, StartPage(p) PROVE SpaceContract!Next
  BY <1>8, <1>9 DEF StartPage
<1>10. CASE FetchPage
  BY <1>8, <1>10 DEF FetchPage
<1>11. ASSUME NEW p \in Pages, EditPage(p) PROVE SpaceContract!Next
  <2>1. Touch({p}) /\ {p} \in SUBSET Pages
    BY <1>11 DEF EditPage
  <2>2. \A q \in Pages \ {p} : space'[q] = space[q]
    BY <1>11 DEF EditPage, IInv, Typed
  <2>3. QED BY <2>1, <2>2, StirStep
<1>12. ASSUME NEW p \in Pages, NEW q \in Pages, RenamePage(p, q) PROVE SpaceContract!Next
  <2>1. Touch({p, q}) /\ {p, q} \in SUBSET Pages
    BY <1>12 DEF RenamePage
  <2>2. \A r \in Pages \ {p, q} : space'[r] = space[r]
    BY <1>12 DEF RenamePage, IInv, Typed
  <2>3. QED BY <2>1, <2>2, StirStep
<1>13. QED
  BY <1>2, <1>3, <1>4, <1>5, <1>6, <1>7, <1>9, <1>10, <1>11, <1>12
  DEF Next, StartMatch, StartSearch, Step

-----------------------------------------------------------------------------
LEMMA InvInit == Init => IInv
<1> SUFFICES ASSUME Init PROVE IInv
  OBVIOUS
<1>1. scan = [at |-> "idle", words |-> FALSE, byTag |-> FALSE, byName |-> FALSE,
              todo |-> {}, active |-> {}, broken |-> FALSE, hits |-> {}, stirred |-> {}]
  BY DEF Init, Unasked
<1>2. Typed /\ Sound /\ Complete /\ Present
  BY <1>1 DEF Init, Typed, Scans, Sound, Complete, Present
<1>3. page \in PageRecords /\ ~page.sure
  BY DEF Init, NoPage, PageRecords, PageIds
<1>4. QED BY <1>2, <1>3 DEF IInv, Opens

LEMMA InitMaps == Init => SpaceContract!Init
<1> SUFFICES ASSUME Init PROVE SpaceContract!Init
  OBVIOUS
<1>1. scan.stirred = {} /\ ReplyNow = [state |-> "none", items |-> {}]
  BY DEF Init, Unasked, ReplyNow
<1>2. MembersNow \in SUBSET Pages
  BY DEF MembersNow
<1>3. QED BY <1>1, <1>2 DEF SpaceContract!Init, SpaceContract!Nothing

\* The inductive invariant holds of every behaviour.
THEOREM Inductive == Spec => []IInv
BY InvInit, InvNext, PTL DEF Spec

(***************************************************************************)
(* A Match or Search that answers lists every page that belonged to the    *)
(* webspace throughout the call and none that never did, and a call with   *)
(* a failed read is an error, however many pages there are, however many   *)
(* are read at once, and whatever is edited meanwhile.                     *)
(***************************************************************************)
THEOREM Answers == Spec => SpaceAnswers
<1>1. IInv /\ [Next]_vars => [SpaceContract!Next]_Contract
  BY StepMaps DEF vars, Contract, MembersNow, Matches, ReplyNow, Running
<1>2. QED BY Inductive, InitMaps, <1>1, PTL DEF Spec, SpaceAnswers, SpaceContract!Spec, Contract

(***************************************************************************)
(* A page of the last answer that has not been edited since the call began *)
(* is found by Fetch.                                                      *)
(***************************************************************************)
THEOREM Found == Spec => []PageOpens
<1>1. IInv => PageOpens
  BY DEF IInv, Opens, PageOpens
<1>2. QED BY Inductive, <1>1, PTL

-----------------------------------------------------------------------------
\* The group of readers keeps to its limit.
Grouped ==
    /\ IsFiniteSet(scan.active) /\ Cardinality(scan.active) <= MatchConcurrency
    /\ edits \in 0 .. MaxEdits

LEMMA GroupShrinks ==
  ASSUME SpaceAssumption, Grouped, NEW p, scan'.active = scan.active \ {p}, UNCHANGED edits
  PROVE  Grouped'
<1>1. scan'.active \in SUBSET scan.active
  OBVIOUS
<1>2. IsFiniteSet(scan'.active) /\ Cardinality(scan'.active) <= Cardinality(scan.active)
  BY <1>1, FS_Subset DEF Grouped
<1>3. Cardinality(scan.active) \in Nat /\ Cardinality(scan'.active) \in Nat
  BY <1>2, FS_CardinalityType DEF Grouped
<1>4. QED BY <1>2, <1>3 DEF Grouped, SpaceAssumption

LEMMA GroupKeeps ==
  ASSUME SpaceAssumption, IInv, Grouped, [Next]_vars
  PROVE  Grouped'
<1>1. scan \in Scans /\ MatchConcurrency \in Nat \ {0} /\ MaxEdits \in Nat
  BY DEF IInv, Typed, SpaceAssumption
<1>2. ASSUME scan'.active = scan.active, UNCHANGED edits PROVE Grouped'
  BY <1>2 DEF Grouped
<1>3. ASSUME NEW words \in BOOLEAN, NEW byTag \in BOOLEAN, NEW byName \in BOOLEAN,
             StartScan(words, byTag, byName)
      PROVE  Grouped'
  <2>1. scan'.active = {} /\ UNCHANGED edits
    BY <1>3 DEF StartScan, Unasked
  <2>2. IsFiniteSet({}) /\ Cardinality({}) = 0
    BY FS_EmptySet
  <2>3. QED BY <1>1, <2>1, <2>2 DEF Grouped
<1>4. ASSUME NEW p \in Pages, StartRead(p) PROVE Grouped'
  <2>1. /\ scan'.active = scan.active \cup {p} /\ UNCHANGED edits
        /\ Cardinality(scan.active) < MatchConcurrency
    BY <1>1, <1>4 DEF StartRead, Scans
  <2>2. IsFiniteSet(scan.active) /\ Cardinality(scan.active) \in Nat
    BY FS_CardinalityType DEF Grouped
  <2>3. /\ IsFiniteSet(scan.active \cup {p})
        /\ Cardinality(scan.active \cup {p}) = IF p \in scan.active THEN Cardinality(scan.active)
                                                ELSE Cardinality(scan.active) + 1
    BY <2>2, FS_AddElement
  <2>4. QED BY <1>1, <2>1, <2>2, <2>3 DEF Grouped
<1>5. ASSUME NEW p \in Pages, ReadPage(p) \/ ReadFails(p) PROVE Grouped'
  <2>1. scan'.active = scan.active \ {p} /\ UNCHANGED edits
    BY <1>1, <1>5 DEF ReadPage, ReadFails, Scans
  <2>2. QED BY <2>1, GroupShrinks
<1>6. CASE ListFiles \/ FinishScan \/ FetchPage \/ \E p \in Pages : StartPage(p)
  <2>1. scan'.active = scan.active /\ UNCHANGED edits
    BY <1>1, <1>6 DEF ListFiles, FinishScan, FetchPage, StartPage, Scans
  <2>2. QED BY <1>2, <2>1
<1>7. CASE \/ \E p \in Pages : EditPage(p)
           \/ \E p, q \in Pages : RenamePage(p, q)
  <2>1. \E P : Touch(P)
    BY <1>7 DEF EditPage, RenamePage
  <2>2. scan'.active = scan.active /\ edits' \in 0 .. MaxEdits
    BY <1>1, <2>1 DEF Touch, Grouped, Scans
  <2>3. QED BY <2>2 DEF Grouped
<1>8. CASE UNCHANGED vars
  BY <1>2, <1>8 DEF vars
<1>9. QED BY <1>3, <1>4, <1>5, <1>6, <1>7, <1>8
          DEF Next, StartMatch, StartSearch, Step

(***************************************************************************)
(* Every variable keeps to its type, and no more pages are read at once    *)
(* than matchConcurrency allows, whatever fails or is edited.              *)
(***************************************************************************)
THEOREM TypeCorrect ==
  ASSUME SpaceAssumption
  PROVE  Spec => []SpaceTypeOK
<1>1. Init => Grouped
  <2>1. IsFiniteSet({}) /\ Cardinality({}) = 0
    BY FS_EmptySet
  <2>2. QED BY <2>1 DEF Init, Unasked, Grouped, SpaceAssumption
<1>2. IInv /\ Grouped => SpaceTypeOK
  <2>1. SUFFICES ASSUME IInv, Grouped PROVE SpaceTypeOK
    OBVIOUS
  <2>2. PageIds = Pages
    BY DEF PageIds, SpaceAssumption
  <2>3. QED
    BY <2>1, <2>2
    DEF SpaceTypeOK, IInv, Typed, Present, Opens, PageRecords, Grouped
<1>3. QED BY <1>1, <1>2, GroupKeeps, Inductive, PTL DEF Spec
=============================================================================
